------------------------------- MODULE WebPage -------------------------------
(***************************************************************************)
(* The page index.html in one browser, with the handlers and the store     *)
(* behind it: a filter that is refined chip by chip, and a search box.     *)
(* Each click and each submitted query is a request of its own; nothing    *)
(* waits for the one before it, answers arrive in any order or not at all. *)
(*                                                                         *)
(* The handlers are the readers of Queries.  Formulas are added meanwhile, *)
(* as Ingest and Server do; no rebuild is under way.                       *)
(***************************************************************************)
EXTENDS Queries

CONSTANTS
    InitialTables,   \* what is stored when the page is opened
    Arrivals,        \* what may be added: [entry, side, text, canonical]
    NoReader         \* no request

ASSUME PageAssumption ==
    /\ InitialTables \in Tables
    /\ Arrivals \subseteq [entry : EntryIds, side : Sides, text : Texts,
                           canonical : Canonicals]
    /\ NoReader \notin Readers

VARIABLES
    facets,      \* the script's list of selected facets
    fate,        \* fate[q]: what the page knows of request q
    newest,      \* the last refresh of the filter that was sent
    chips,       \* the selected facets that are displayed
    shown,       \* the refresh whose answer is displayed
    hasty,       \* history: a facet was picked from another answer than the newest's
    searched,    \* the last search that was sent; NoReader after a blank one
    results,     \* what is displayed of searches: [of, outcome]
    label,       \* the search whose canonical form is displayed
    overlapped   \* history: a search was submitted while another was pending

filterVars == <<facets, newest, chips, shown, hasty>>
searchVars == <<searched, results, label, overlapped>>
pageVars == <<storeVars, query, fate, filterVars, searchVars>>

Outcomes == {"sections", "error", "failed"}

PageTypeOK ==
    /\ query \in [Readers -> QueryState]
    /\ facets \in Seq(FacetTags)
    /\ fate \in [Readers -> {"unsent", "pending", "arrived", "lost"}]
    /\ newest \in Readers \cup {NoReader}
    /\ chips \in Seq(FacetTags)
    /\ shown \in Readers \cup {NoReader}
    /\ hasty \in BOOLEAN
    /\ searched \in Readers \cup {NoReader}
    /\ results \in Seq([of : Readers, outcome : Outcomes])
    /\ label \in Readers \cup {NoReader}
    /\ overlapped \in BOOLEAN

PageInit ==
    /\ db = InitialTables
    /\ txn = InitialTables
    /\ lock = Free
    /\ meta = [probe |-> None, schema |-> SchemaVersion]
    /\ QueryInit
    /\ facets = <<>>
    /\ fate = [q \in Readers |-> "unsent"]
    /\ newest = NoReader
    /\ chips = <<>>
    /\ shown = NoReader
    /\ hasty = FALSE
    /\ searched = NoReader
    /\ results = <<>>
    /\ label = NoReader
    /\ overlapped = FALSE

-----------------------------------------------------------------------------

\* fetch: request q is on its way.
Send(q, request) ==
    /\ fate[q] = "unsent"
    /\ Received(q, request)
    /\ fate' = [fate EXCEPT ![q] = "pending"]
    /\ UNCHANGED storeVars

Settle(q, outcome) ==
    /\ fate[q] = "pending"
    /\ fate' = [fate EXCEPT ![q] = outcome]
    /\ UNCHANGED <<storeVars, query>>

Kind(q) == query[q].request.kind
Answered(q) == query[q].pc \in {"done", "failed"}

-----------------------------------------------------------------------------
\* The filter.

\* refreshFacets, up to its await: the request has the facets of this moment.
Refresh(q, selected) ==
    /\ \E request \in Requests : /\ request.kind = "facets"
                                 /\ request.selected = selected
                                 /\ Send(q, request)
    /\ newest' = q

OpenPage(q) ==
    /\ newest = NoReader
    /\ Refresh(q, facets)
    /\ UNCHANGED <<facets, chips, shown, hasty, searchVars>>

\* The chips that refine: an answer that is an error has none.
Offered ==
    IF shown # NoReader /\ query[shown].pc = "done"
    THEN {refinement[1] : refinement \in query[shown].refine} ELSE {}

\* Mutant: the refresh is sent before the facet is added.
PickFacetLate(q, tag) ==
    /\ tag \in Offered
    /\ facets' = Append(facets, tag)
    /\ Refresh(q, facets)
    /\ hasty' = (hasty \/ shown # newest)
    /\ UNCHANGED <<chips, shown, searchVars>>

\* facets.push; refreshFacets
PickFacet(q, tag) ==
    /\ tag \in Offered
    /\ facets' = Append(facets, tag)
    /\ Refresh(q, facets')
    /\ hasty' = (hasty \/ shown # newest)
    /\ UNCHANGED <<chips, shown, searchVars>>

\* facets.filter: tags without any tag.  SelectSeq, spelt out for the proofs, which
\* know nothing of SelectSeq.
Without(tags, tag) ==
    LET kept[n \in 0..Len(tags)] ==
          IF n = 0 THEN <<>>
          ELSE IF tags[n] = tag THEN kept[n - 1]
          ELSE Append(kept[n - 1], tags[n])
    IN  kept[Len(tags)]

\* facets = facets.filter; refreshFacets
DropFacet(q, tag) ==
    /\ tag \in Chosen(chips)
    /\ facets' = Without(facets, tag)
    /\ Refresh(q, facets')
    /\ UNCHANGED <<chips, shown, hasty, searchVars>>

\* Mutant: the chips are those the request was sent with.
RenderOwn(q) ==
    /\ Kind(q) = "facets"
    /\ Answered(q)
    /\ Settle(q, "arrived")
    /\ chips' = query[q].request.selected
    /\ shown' = q
    /\ UNCHANGED <<facets, newest, hasty, searchVars>>

\* refreshFacets, after its await: the chips are the facets of this moment, the
\* rest is the answer's, or empty if that is an error.
Render(q) ==
    /\ Kind(q) = "facets"
    /\ Answered(q)
    /\ Settle(q, "arrived")
    /\ chips' = facets
    /\ shown' = q
    /\ UNCHANGED <<facets, newest, hasty, searchVars>>

\* No answer, or one that is not JSON (the limiter's 429): nothing is displayed.
RefreshLost(q) ==
    /\ Kind(q) = "facets"
    /\ Settle(q, "lost")
    /\ UNCHANGED <<filterVars, searchVars>>

-----------------------------------------------------------------------------
\* The search box.

SearchPending == \E q \in Readers : Kind(q) = "search" /\ fate[q] = "pending"

\* Mutant: the label stays.
ClearedResults == results' = <<>> /\ UNCHANGED label

Cleared == results' = <<>> /\ label' = NoReader

\* search, up to its await.
Submit(q) ==
    /\ Cleared
    /\ \E request \in Requests : request.kind = "search" /\ Send(q, request)
    /\ searched' = q
    /\ overlapped' = (overlapped \/ SearchPending)
    /\ UNCHANGED filterVars

\* A blank query clears the pane and sends nothing.
SubmitBlank ==
    /\ Cleared
    /\ searched' = NoReader
    /\ overlapped' = (overlapped \/ SearchPending)
    /\ UNCHANGED <<storeVars, query, fate, filterVars>>

\* Mutant: what is shown is marked with the state of the request.
ShowSectionsAsDone(q) ==
    /\ results' = Append(results, [of |-> q, outcome |-> query[q].pc])
    /\ label' = q

\* Mutant: the sections are put in front.
ShowSectionsFirst(q) ==
    /\ results' = <<[of |-> q, outcome |-> "sections"]>> \o results
    /\ label' = q

\* search, after its await: what an answer adds is appended.
ShowSections(q) ==
    /\ results' = Append(results, [of |-> q, outcome |-> "sections"])
    /\ label' = q

\* An error takes the place of all there is.
ShowInstead(q, outcome) ==
    /\ results' = <<[of |-> q, outcome |-> outcome]>>
    /\ UNCHANGED label

SearchAnswered(q) ==
    /\ Kind(q) = "search"
    /\ Settle(q, "arrived")
    /\ \/ query[q].pc = "done" /\ ShowSections(q)
       \/ query[q].pc = "failed" /\ ShowInstead(q, "error")
    /\ UNCHANGED <<filterVars, searched, overlapped>>

SearchLost(q) ==
    /\ Kind(q) = "search"
    /\ Settle(q, "lost")
    /\ ShowInstead(q, "failed")
    /\ UNCHANGED <<filterVars, searched, overlapped>>

-----------------------------------------------------------------------------

\* The handler of q takes a step.
Handle(q) ==
    /\ fate[q] = "pending"
    /\ QueryStep(q)
    /\ UNCHANGED <<fate, filterVars, searchVars>>

\* Another process adds a formula.
Arrive(x) ==
    /\ CanUpsert(db, x.entry, x.side)
    /\ db' = Upserted(db, x.entry, x.side, x.text, x.canonical)
    /\ UNCHANGED <<txn, lock, meta, query, fate, filterVars, searchVars>>

PageNext ==
    \/ \E q \in Readers :
         \/ OpenPage(q) \/ Render(q) \/ RefreshLost(q)
         \/ \E tag \in FacetTags : PickFacet(q, tag) \/ DropFacet(q, tag)
         \/ Submit(q) \/ SearchAnswered(q) \/ SearchLost(q)
         \/ Handle(q)
    \/ SubmitBlank
    \/ \E x \in Arrivals : Arrive(x)

PageSpec == PageInit /\ [][PageNext]_pageVars

-----------------------------------------------------------------------------

\* The chips displayed as selected are what the next click will start from,
\* unless the newest refresh is still out or was lost: whatever the order the
\* answers came in, as each of them draws the chips of the moment.
ChipsCurrent ==
    chips # facets => newest # NoReader /\ fate[newest] \in {"pending", "lost"}

\* When the newest refresh is the one displayed, it was asked for the chips that
\* are displayed, and every formula it lists has all of them.
ListMatchesChips ==
    shown # NoReader /\ shown = newest =>
        /\ query[shown].request.selected = chips
        /\ \A x \in query[shown].shown : \A r \in x.occurrences :
             Chosen(chips) \subseteq FacetsOf[r.canonical]

\* Who waits for the answer before picking the next facet never narrows the
\* collection to nothing, whatever is dropped, lost or added in between: the
\* facets offered all lead somewhere, and none of them is selected already.
NoDeadEnd ==
    ~hasty /\ db.formulas # {} => FilterTotal(db, facets) > 0

\* After any number of searches that did not overlap, the pane shows the outcome
\* of the last one and nothing else, under its own canonical form.
PaneIsLastSearch ==
    ~overlapped /\ ~SearchPending =>
        /\ searched = NoReader => results = <<>> /\ label = NoReader
        /\ searched # NoReader =>
             \E outcome \in Outcomes :
                /\ results = <<[of |-> searched, outcome |-> outcome]>>
                /\ label = IF outcome = "sections" THEN searched ELSE NoReader

\* However searches overlap, a list at the bottom of the pane is that of the
\* formula displayed above it.
LabelMatchesLast ==
    results # <<>> /\ results[Len(results)].outcome = "sections" =>
        label = results[Len(results)].of

=============================================================================
