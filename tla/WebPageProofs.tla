---------------------------- MODULE WebPageProofs ----------------------------
(***************************************************************************)
(* What index.html displays, for any number of requests, answered in any   *)
(* order or never, and any tables behind the handlers.                     *)
(***************************************************************************)
EXTENDS WebPage, QueriesProofs, WellFoundedInduction

Fates == {"unsent", "pending", "arrived", "lost"}

\* What is known of the requests, whatever they collect.
RequestInv ==
    /\ DOMAIN query = Readers
    /\ \A q \in Readers : {"pc", "request", "refine"} \subseteq DOMAIN query[q]
    /\ fate \in [Readers -> Fates]

\* The newest refresh asks for the facets of the moment.
NewestInv ==
    newest # NoReader =>
        /\ newest \in Readers
        /\ fate[newest] # "unsent"
        /\ Kind(newest) = "facets"
        /\ query[newest].request.selected = facets

\* What the newest refresh displays was asked for the chips displayed with it:
\* the counts beside the facets are of the query the chips stand for.
ListIsForChips ==
    shown # NoReader /\ shown = newest => query[shown].request.selected = chips

ShownInv == shown # NoReader => shown \in Readers /\ fate[shown] = "arrived"

PaneInv == results \in Seq([of : Readers, outcome : Outcomes])

Pending(q) == Kind(q) = "search" /\ fate[q] = "pending"

\* As long as searches do not overlap, only the last one can be pending, and the
\* pane is empty until it is settled.
OverlapInv ==
    ~overlapped =>
        \A q \in Readers : Pending(q) =>
            q = searched /\ results = <<>> /\ label = NoReader

FilterInv == NewestInv /\ ShownInv /\ ChipsCurrent
SearchInv == PaneInv /\ OverlapInv /\ PaneIsLastSearch /\ LabelMatchesLast
IInv == RequestInv /\ FilterInv /\ SearchInv

-----------------------------------------------------------------------------
\* What a step does to the requests.

\* The requests of all but q are as they were.
OthersStay(q) ==
    \A r \in Readers \ {q} :
        fate'[r] = fate[r] /\ query'[r] = query[r]

RequestsStay == \A r \in Readers : query'[r].request = query[r].request

LEMMA SendStep ==
    ASSUME RequestInv, NEW q \in Readers, NEW request, Send(q, request)
    PROVE  /\ RequestInv'
           /\ OthersStay(q)
           /\ fate[q] = "unsent" /\ fate'[q] = "pending"
           /\ query'[q].request = request
           /\ query'[q].refine = query[q].refine
<1> DEFINE sent == [query[q] EXCEPT !.request = request,
                                    !.pc = IF request.cli THEN "open"
                                           ELSE FirstSelect(request)]
<1>1. query' = [query EXCEPT ![q] = sent]
  BY DEF Send, Received
<1>2. DOMAIN sent = DOMAIN query[q] /\ sent.request = request /\ sent.refine = query[q].refine
  BY DEF RequestInv
<1> HIDE DEF sent
<1>3. DOMAIN query' = Readers /\ query'[q] = sent
        /\ \A r \in Readers \ {q} : query'[r] = query[r]
  BY <1>1 DEF RequestInv
<1>4. fate[q] = "unsent" /\ fate' = [fate EXCEPT ![q] = "pending"]
  BY DEF Send
<1> QED
  BY <1>2, <1>3, <1>4 DEF RequestInv, OthersStay, Fates

LEMMA SettleStep ==
    ASSUME RequestInv, NEW q \in Readers, NEW outcome \in Fates, Settle(q, outcome)
    PROVE  /\ RequestInv'
           /\ OthersStay(q)
           /\ RequestsStay
           /\ fate[q] = "pending" /\ fate'[q] = outcome
  BY DEF RequestInv, Settle, OthersStay, RequestsStay, Fates

\* A step of a handler leaves what was asked alone, and offers the refinements of the
\* filter it was asked for, or what it offered before.
LEMMA HandlerStep ==
    ASSUME RequestInv, NEW q \in Readers, QueryStep(q), UNCHANGED fate
    PROVE  /\ RequestInv' /\ RequestsStay
           /\ query'[q].refine
                \in {query[q].refine, Refinements(db, query[q].request.selected)}
           /\ \A r \in Readers \ {q} : query'[r] = query[r]
<1> DEFINE Untouched ==
             /\ DOMAIN query' = Readers
             /\ {"pc", "request", "refine"} \subseteq DOMAIN query'[q]
             /\ query'[q].request = query[q].request
             /\ query'[q].refine
                  \in {query[q].refine, Refinements(db, query[q].request.selected)}
             /\ \A r \in Readers \ {q} : query'[r] = query[r]
<1>1. DOMAIN query = Readers /\ {"pc", "request", "refine"} \subseteq DOMAIN query[q]
  BY DEF RequestInv
<1>2. Untouched
  <2>1. CASE QueryOpen(q)
    BY <1>1, <2>1 DEF QueryOpen
  <2>2. CASE QueryBusy(q)
    BY <1>1, <2>2 DEF QueryBusy
  <2>3. CASE SelectFails(q)
    BY <1>1, <2>3 DEF SelectFails
  <2>4. CASE QueryExact(q)
    BY <1>1, <2>4 DEF QueryExact
  <2>5. CASE QueryFuzzy(q)
    BY <1>1, <2>5 DEF QueryFuzzy
  <2>6. CASE QueryTotal(q)
    BY <1>1, <2>6 DEF QueryTotal
  <2>7. CASE QueryRefine(q)
    BY <1>1, <2>7 DEF QueryRefine
  <2>8. CASE QueryList(q)
    BY <1>1, <2>8 DEF QueryList
  <2>9. CASE FillIdentity(q)
    BY <1>1, <2>9 DEF FillIdentity
  <2>10. CASE FilledExact(q)
    BY <1>1, <2>10 DEF FilledExact
  <2>11. CASE FilledAll(q)
    BY <1>1, <2>11 DEF FilledAll
  <2>12. CASE QueryShared(q)
    BY <1>1, <2>12 DEF QueryShared
  <2>13. CASE QueryGroup(q)
    BY <1>1, <2>13 DEF QueryGroup
  <2>14. CASE GroupsDone(q)
    BY <1>1, <2>14 DEF GroupsDone
  <2> QED
    BY <2>1, <2>2, <2>3, <2>4, <2>5, <2>6, <2>7, <2>8, <2>9,
       <2>10, <2>11, <2>12, <2>13, <2>14 DEF QueryStep
<1> QED
  BY <1>2 DEF RequestInv, RequestsStay


-----------------------------------------------------------------------------
\* The filter.

\* OpenPage, PickFacet and DropFacet: the facets change, and a refresh is sent.
Asked(q) == Refresh(q, facets') /\ UNCHANGED <<chips, shown, searchVars>>

\* What sends a refresh: the page opening, or a click on a facet or a chip.
Click(q) == \/ OpenPage(q)
            \/ \E tag \in FacetTags : PickFacet(q, tag) \/ DropFacet(q, tag)

LEMMA ClickAsks ==
    ASSUME NEW q \in Readers, Click(q)
    PROVE  Asked(q)
  BY DEF Click, OpenPage, PickFacet, DropFacet, Asked

LEMMA AskedKeepsRequests ==
    ASSUME RequestInv, NEW q \in Readers, Asked(q)
    PROVE  /\ RequestInv' /\ OthersStay(q)
           /\ fate[q] = "unsent" /\ fate'[q] = "pending"
           /\ query'[q].request.kind = "facets"
           /\ query'[q].request.selected = facets'
<1>1. PICK request \in Requests : /\ request.kind = "facets"
                                 /\ request.selected = facets'
                                 /\ Send(q, request)
  BY DEF Asked, Refresh
<1> QED
  BY <1>1, SendStep

LEMMA AskedKeepsFilter ==
    ASSUME RequestInv, FilterInv, NEW q \in Readers, Asked(q)
    PROVE  FilterInv'
<1>1. newest' = q /\ UNCHANGED <<chips, shown>>
  BY DEF Asked, Refresh
<1>2. NewestInv' /\ ChipsCurrent'
  BY <1>1, AskedKeepsRequests, PageAssumption DEF NewestInv, ChipsCurrent, Kind
<1>3. ShownInv'
  BY <1>1, AskedKeepsRequests DEF FilterInv, ShownInv, OthersStay
<1> QED
  BY <1>2, <1>3 DEF FilterInv

LEMMA RenderKeepsFilter ==
    ASSUME RequestInv, FilterInv, NEW q \in Readers, Render(q)
    PROVE  FilterInv'
<1>1. /\ Settle(q, "arrived")
      /\ chips' = facets /\ shown' = q /\ UNCHANGED <<facets, newest>>
  BY DEF Render
<1>2. /\ OthersStay(q) /\ RequestsStay
      /\ fate[q] = "pending" /\ fate'[q] = "arrived"
  BY <1>1, SettleStep DEF Fates
<1> QED
  BY <1>1, <1>2
  DEF FilterInv, NewestInv, ShownInv, ChipsCurrent, Kind, OthersStay, RequestsStay

\* A request that is settled without being displayed in the filter.
LEMMA SettleKeepsFilter ==
    ASSUME RequestInv, FilterInv, NEW q \in Readers,
           NEW outcome \in {"arrived", "lost"}, Settle(q, outcome),
           Kind(q) = "search" \/ outcome = "lost", UNCHANGED filterVars
    PROVE  FilterInv'
<1>1. OthersStay(q) /\ RequestsStay /\ fate[q] = "pending" /\ fate'[q] = outcome
  BY SettleStep DEF Fates
<1> QED
  BY <1>1
  DEF FilterInv, NewestInv, ShownInv, ChipsCurrent, Kind, OthersStay, RequestsStay,
      filterVars

\* Anything else leaves the filter, and the fate of its requests, alone.
LEMMA OtherwiseKeepsFilter ==
    ASSUME FilterInv, RequestsStay, UNCHANGED <<fate, filterVars>>
    PROVE  FilterInv'
  BY DEF FilterInv, NewestInv, ShownInv, ChipsCurrent, Kind, RequestsStay, filterVars

LEMMA SubmitKeepsFilter ==
    ASSUME RequestInv, FilterInv, NEW q \in Readers, Submit(q)
    PROVE  FilterInv'
<1>1. PICK request \in Requests : Send(q, request)
  BY DEF Submit
<1>2. OthersStay(q) /\ fate[q] = "unsent"
  BY <1>1, SendStep
<1>3. UNCHANGED filterVars
  BY DEF Submit
<1> QED
  BY <1>2, <1>3
  DEF FilterInv, NewestInv, ShownInv, ChipsCurrent, Kind, OthersStay, filterVars

-----------------------------------------------------------------------------
\* The search box.

LEMMA StaysKeepsSearch ==
    ASSUME SearchInv, RequestsStay, UNCHANGED <<fate, searchVars>>
    PROVE  SearchInv'
<1>1. \A r \in Readers : Pending(r)' = Pending(r)
  BY DEF Pending, Kind, RequestsStay
<1>2. SearchPending' = SearchPending
  BY <1>1 DEF SearchPending, Pending
<1>3. UNCHANGED <<searched, results, label, overlapped>>
  BY DEF searchVars
<1> QED
  BY <1>1, <1>2, <1>3
  DEF SearchInv, PaneInv, OverlapInv, PaneIsLastSearch, LabelMatchesLast

\* A request of the filter changes nothing for the searches.
LEMMA FilterKeepsSearch ==
    ASSUME SearchInv, NEW q \in Readers, OthersStay(q),
           ~Pending(q), ~Pending(q)', UNCHANGED searchVars
    PROVE  SearchInv'
<1>1. \A r \in Readers : Pending(r)' = Pending(r)
  BY DEF Pending, Kind, OthersStay
<1>2. SearchPending' = SearchPending
  BY <1>1 DEF SearchPending, Pending
<1>3. UNCHANGED <<searched, results, label, overlapped>>
  BY DEF searchVars
<1> QED
  BY <1>1, <1>2, <1>3
  DEF SearchInv, PaneInv, OverlapInv, PaneIsLastSearch, LabelMatchesLast

LEMMA SubmitKeepsSearch ==
    ASSUME RequestInv, SearchInv, NEW q \in Readers, Submit(q)
    PROVE  SearchInv'
<1>1. PICK request \in Requests : request.kind = "search" /\ Send(q, request)
  BY DEF Submit
<1>2. /\ OthersStay(q) /\ fate'[q] = "pending"
      /\ query'[q].request.kind = "search"
  BY <1>1, SendStep
<1>3. /\ results' = <<>> /\ label' = NoReader /\ searched' = q
      /\ overlapped' = (overlapped \/ SearchPending)
  BY DEF Submit, Cleared
<1>4. SearchPending'
  BY <1>2 DEF SearchPending, Kind
<1>5. OverlapInv'
  BY <1>2, <1>3 DEF OverlapInv, SearchPending, Pending, Kind, OthersStay
<1>6. PaneInv' /\ PaneIsLastSearch' /\ LabelMatchesLast'
  BY <1>3, <1>4 DEF PaneInv, PaneIsLastSearch, LabelMatchesLast
<1> QED
  BY <1>5, <1>6 DEF SearchInv

LEMMA BlankKeepsSearch ==
    ASSUME SearchInv, SubmitBlank
    PROVE  SearchInv'
<1>1. /\ results' = <<>> /\ label' = NoReader /\ searched' = NoReader
      /\ overlapped' = (overlapped \/ SearchPending)
      /\ UNCHANGED <<query, fate>>
  BY DEF SubmitBlank, Cleared
<1>2. SearchPending' = SearchPending
  BY <1>1 DEF SearchPending, Kind
<1>3. OverlapInv'
  BY <1>1 DEF OverlapInv, SearchPending, Pending, Kind
<1> QED
  BY <1>1, <1>3 DEF SearchInv, PaneInv, PaneIsLastSearch, LabelMatchesLast

\* A search is settled: with sections, or with an error in place of all there is.
Settled(q) ==
    \/ results' = Append(results, [of |-> q, outcome |-> "sections"]) /\ label' = q
    \/ \E outcome \in {"error", "failed"} :
         results' = <<[of |-> q, outcome |-> outcome]>> /\ label' = label

LEMMA OneMore ==
    ASSUME NEW S, NEW s \in Seq(S), NEW e \in S
    PROVE  Append(s, e) \in Seq(S) /\ <<e>> \in Seq(S)
  OBVIOUS

LEMMA SettledKeepsSearch ==
    ASSUME RequestInv, SearchInv, NEW q \in Readers, Kind(q) = "search",
           NEW outcome \in {"arrived", "lost"}, Settle(q, outcome), Settled(q),
           UNCHANGED <<searched, overlapped>>
    PROVE  SearchInv'
<1>1. /\ OthersStay(q) /\ RequestsStay
      /\ fate[q] = "pending" /\ fate'[q] = outcome
  BY SettleStep DEF Fates
<1>2. Pending(q) /\ ~Pending(q)' /\ \A r \in Readers \ {q} : Pending(r)' = Pending(r)
  BY <1>1 DEF Pending, Kind, OthersStay
<1>3. PICK o \in Outcomes :
         \/ /\ o = "sections" /\ label' = q
            /\ results' = Append(results, [of |-> q, outcome |-> o])
         \/ /\ o # "sections" /\ label' = label
            /\ results' = <<[of |-> q, outcome |-> o]>>
  BY DEF Settled, Outcomes
<1>4. [of |-> q, outcome |-> o] \in [of : Readers, outcome : Outcomes]
  OBVIOUS
<1>5. PaneInv'
  <2> DEFINE Shown == [of : Readers, outcome : Outcomes]
  <2> HIDE DEF Shown
  <2>1. results \in Seq(Shown) /\ [of |-> q, outcome |-> o] \in Shown
    BY <1>4 DEF SearchInv, PaneInv, Shown
  <2>2. results' \in Seq(Shown)
    BY <1>3, <2>1, OneMore
  <2> QED
    BY <2>2 DEF PaneInv, Shown
<1>6. LabelMatchesLast'
  BY <1>3, <1>4 DEF SearchInv, PaneInv, LabelMatchesLast
<1>7. ASSUME ~overlapped
      PROVE  /\ q = searched /\ results = <<>> /\ label = NoReader
             /\ \A r \in Readers : ~Pending(r)'
  BY <1>2, <1>7 DEF SearchInv, OverlapInv
<1>8. OverlapInv'
  BY <1>7 DEF OverlapInv
<1>9. PaneIsLastSearch'
  <2> SUFFICES ASSUME ~overlapped
               PROVE  /\ searched' = q
                      /\ results' = <<[of |-> q, outcome |-> o]>>
                      /\ label' = IF o = "sections" THEN q ELSE NoReader
    BY PageAssumption DEF PaneIsLastSearch
  <2> QED
    BY <1>3, <1>7
<1> QED
  BY <1>5, <1>6, <1>8, <1>9 DEF SearchInv

-----------------------------------------------------------------------------

LEMMA InitIInv == PageInit => IInv
<1> SUFFICES ASSUME PageInit PROVE IInv
  OBVIOUS
<1>1. RequestInv
  BY DEF PageInit, QueryInit, RequestInv, Fates
<1>2. FilterInv
  BY DEF PageInit, FilterInv, NewestInv, ShownInv, ChipsCurrent
<1>3. SearchInv
  BY DEF PageInit, SearchInv, PaneInv, OverlapInv, Pending, PaneIsLastSearch,
         LabelMatchesLast
<1> QED
  BY <1>1, <1>2, <1>3 DEF IInv

LEMMA NextIInv == IInv /\ [PageNext]_pageVars => IInv'
<1> SUFFICES ASSUME IInv, [PageNext]_pageVars PROVE IInv'
  OBVIOUS
<1> USE DEF IInv
<1>1. ASSUME NEW q \in Readers, Asked(q)
      PROVE  IInv'
  <2>1. ~Pending(q) /\ ~Pending(q)' /\ UNCHANGED searchVars
    BY <1>1, AskedKeepsRequests DEF Pending, Kind, Asked
  <2> QED
    BY <1>1, <2>1, AskedKeepsRequests, AskedKeepsFilter, FilterKeepsSearch
<1>2. ASSUME NEW q \in Readers, Render(q)
      PROVE  IInv'
  <2>1. Settle(q, "arrived") /\ Kind(q) = "facets" /\ UNCHANGED searchVars
    BY <1>2 DEF Render
  <2>2. RequestInv' /\ OthersStay(q) /\ RequestsStay
    BY <2>1, SettleStep DEF Fates
  <2>3. ~Pending(q) /\ ~Pending(q)'
    BY <2>1, <2>2 DEF Pending, Kind, RequestsStay
  <2> QED
    BY <1>2, <2>1, <2>2, <2>3, RenderKeepsFilter, FilterKeepsSearch
<1>3. ASSUME NEW q \in Readers, RefreshLost(q)
      PROVE  IInv'
  <2>1. /\ Settle(q, "lost") /\ Kind(q) = "facets"
        /\ UNCHANGED <<filterVars, searchVars>>
    BY <1>3 DEF RefreshLost
  <2>2. RequestInv' /\ OthersStay(q) /\ RequestsStay
    BY <2>1, SettleStep DEF Fates
  <2>3. ~Pending(q) /\ ~Pending(q)'
    BY <2>1, <2>2 DEF Pending, Kind, RequestsStay
  <2> QED
    BY <2>1, <2>2, <2>3, SettleKeepsFilter, FilterKeepsSearch
<1>4. ASSUME NEW q \in Readers, Submit(q)
      PROVE  IInv'
  <2>1. RequestInv'
    BY <1>4, SendStep DEF Submit
  <2> QED
    BY <1>4, <2>1, SubmitKeepsFilter, SubmitKeepsSearch
<1>5. CASE SubmitBlank
  <2>1. UNCHANGED <<query, fate, filterVars>>
    BY <1>5 DEF SubmitBlank
  <2>2. RequestInv' /\ RequestsStay
    BY <2>1 DEF RequestInv, RequestsStay
  <2> QED
    BY <1>5, <2>1, <2>2, OtherwiseKeepsFilter, BlankKeepsSearch
<1>6. ASSUME NEW q \in Readers, NEW outcome \in {"arrived", "lost"},
             Settle(q, outcome), Kind(q) = "search", Settled(q),
             UNCHANGED <<filterVars, searched, overlapped>>
      PROVE  IInv'
  <2>1. RequestInv'
    BY <1>6, SettleStep DEF Fates
  <2> QED
    BY <1>6, <2>1, SettleKeepsFilter, SettledKeepsSearch
<1>7. ASSUME NEW q \in Readers, SearchAnswered(q)
      PROVE  IInv'
  <2>1. /\ Settle(q, "arrived") /\ Kind(q) = "search" /\ Settled(q)
        /\ UNCHANGED <<filterVars, searched, overlapped>>
    BY <1>7 DEF SearchAnswered, ShowSections, ShowInstead, Settled
  <2> QED
    BY <1>6, <2>1
<1>8. ASSUME NEW q \in Readers, SearchLost(q)
      PROVE  IInv'
  <2>1. /\ Settle(q, "lost") /\ Kind(q) = "search" /\ Settled(q)
        /\ UNCHANGED <<filterVars, searched, overlapped>>
    BY <1>8 DEF SearchLost, ShowInstead, Settled
  <2> QED
    BY <1>6, <2>1
<1>9. ASSUME RequestInv', RequestsStay, UNCHANGED <<fate, filterVars, searchVars>>
      PROVE  IInv'
  BY <1>9, OtherwiseKeepsFilter, StaysKeepsSearch
<1>10. ASSUME NEW q \in Readers, Handle(q)
       PROVE  IInv'
  <2>1. QueryStep(q) /\ UNCHANGED <<fate, filterVars, searchVars>>
    BY <1>10 DEF Handle
  <2>2. RequestInv' /\ RequestsStay
    BY <2>1, HandlerStep
  <2> QED
    BY <1>9, <2>1, <2>2
<1>11. ASSUME UNCHANGED <<query, fate, filterVars, searchVars>>
       PROVE  IInv'
  <2>1. RequestInv' /\ RequestsStay
    BY <1>11 DEF RequestInv, RequestsStay
  <2> QED
    BY <1>9, <1>11, <2>1
<1>12. ASSUME NEW x \in Arrivals, Arrive(x)
       PROVE  IInv'
  BY <1>11, <1>12 DEF Arrive
<1>13. CASE UNCHANGED pageVars
  BY <1>11, <1>13 DEF pageVars
<1>14. ASSUME NEW q \in Readers, Click(q)
       PROVE  IInv'
  BY <1>1, <1>14, ClickAsks
<1> QED
  BY <1>2, <1>3, <1>4, <1>5, <1>7, <1>8, <1>10, <1>12, <1>13, <1>14 DEF PageNext, Click

LEMMA Invariance == PageSpec => []IInv
<1>1. PageInit => IInv
  BY InitIInv
<1>2. IInv /\ [PageNext]_pageVars => IInv'
  BY NextIInv
<1> QED
  BY <1>1, <1>2, PTL DEF PageSpec

-----------------------------------------------------------------------------

\* Whatever the order the answers of the filter come in, and whichever are lost,
\* once the newest is displayed the chips are the ones the next click starts from.
THEOREM ChipsAreCurrent == PageSpec => []ChipsCurrent
<1>1. IInv => ChipsCurrent
  BY DEF IInv, FilterInv
<1> QED
  BY Invariance, <1>1, PTL

\* The newest refresh, once displayed, was asked for the chips beside it.
THEOREM NewestIsForTheChips == PageSpec => []ListIsForChips
<1>1. IInv => ListIsForChips
  BY DEF IInv, FilterInv, NewestInv, ShownInv, ChipsCurrent, ListIsForChips
<1> QED
  BY Invariance, <1>1, PTL

\* Searches that do not overlap leave the outcome of the last one in the pane.
THEOREM PaneShowsTheLastSearch == PageSpec => []PaneIsLastSearch
<1>1. IInv => PaneIsLastSearch
  BY DEF IInv, SearchInv
<1> QED
  BY Invariance, <1>1, PTL

\* Searches that overlap leave the label of the formula listed last.
THEOREM LabelIsOfTheLast == PageSpec => []LabelMatchesLast
<1>1. IInv => LabelMatchesLast
  BY DEF IInv, SearchInv
<1> QED
  BY Invariance, <1>1, PTL

-----------------------------------------------------------------------------
(***************************************************************************)
(* The handlers behind the page: what they collect is what ReadWriteProofs *)
(* finds of any reader, from any sound tables.                             *)
(***************************************************************************)

\* What is stored when the page is opened: rows with unique keys and dense ids, and
\* documents and facets about the formula whose id they are under.
SoundStart == TablesInv(InitialTables) /\ IsFiniteSet(Ids(InitialTables.facets))

TypesInv ==
    /\ facets \in Seq(FacetTags)
    /\ chips \in Seq(FacetTags)
    /\ hasty \in BOOLEAN
    /\ searched \in Readers \cup {NoReader}
    /\ label \in Readers \cup {NoReader}
    /\ overlapped \in BOOLEAN

\* A request that is not sent has no answer.
UnsentInv ==
    \A q \in Readers :
        fate[q] = "unsent" => query[q].pc = "idle" /\ query[q].refine = {}

HandlersInv ==
    /\ TablesInv(db) /\ IsFiniteSet(Ids(db.facets))
    /\ ReaderInv
    /\ \A q \in Readers : CarriesSelected(query[q])
    /\ UnsentInv

\* A step that is neither a click, nor a query, nor a handler's, nor another process's.
Quiet ==
    /\ UNCHANGED <<db, query, facets, hasty>>
    /\ \A r \in Readers : fate'[r] = "unsent" => fate[r] = "unsent"

LEMMA StepKinds ==
    ASSUME RequestInv, [PageNext]_pageVars
    PROVE  \/ \E q \in Readers : Click(q) \/ Submit(q) \/ Handle(q)
           \/ \E x \in Arrivals : Arrive(x)
           \/ Quiet
<1>1. ASSUME NEW q \in Readers, NEW outcome \in {"arrived", "lost"},
             Settle(q, outcome), UNCHANGED <<facets, hasty>>
      PROVE  Quiet
  <2>1. \A r \in Readers : fate'[r] \in {fate[r], outcome}
    BY <1>1 DEF Settle, RequestInv
  <2> QED
    BY <1>1, <2>1 DEF Settle, Quiet, storeVars
<1>2. ASSUME NEW q \in Readers, Render(q) \/ RefreshLost(q)
      PROVE  Quiet
  BY <1>1, <1>2 DEF Render, RefreshLost, filterVars
<1>3. ASSUME NEW q \in Readers, SearchAnswered(q) \/ SearchLost(q)
      PROVE  Quiet
  BY <1>1, <1>3 DEF SearchAnswered, SearchLost, filterVars
<1>4. CASE SubmitBlank
  BY <1>4 DEF SubmitBlank, filterVars, storeVars, Quiet
<1>5. CASE UNCHANGED pageVars
  BY <1>5 DEF pageVars, filterVars, storeVars, Quiet
<1> QED
  BY <1>2, <1>3, <1>4, <1>5 DEF PageNext, Click

\* A click or a query sends a request that had not been sent, and changes nothing
\* that is stored.
LEMMA SentRequest ==
    ASSUME RequestInv, UnsentInv, NEW q \in Readers, Click(q) \/ Submit(q)
    PROVE  /\ UNCHANGED db
           /\ QueryNext(q)
           /\ query'[q].refine = {}
           /\ OthersStay(q)
           /\ fate'[q] = "pending"
<1>1. PICK request \in Requests : Send(q, request)
  <2>1. CASE Click(q)
    BY <2>1, ClickAsks DEF Asked, Refresh
  <2>2. CASE Submit(q)
    BY <2>2 DEF Submit
  <2> QED
    BY <2>1, <2>2
<1>2. fate[q] = "unsent" /\ Received(q, request) /\ UNCHANGED storeVars
  BY <1>1 DEF Send
<1>3. query[q].pc = "idle" /\ query[q].refine = {}
  BY <1>2 DEF UnsentInv
<1>4. QueryNext(q)
  BY <1>2, <1>3 DEF QueryNext, QueryStart
<1> QED
  BY <1>1, <1>2, <1>3, <1>4, SendStep DEF storeVars

LEMMA HandlerReads ==
    ASSUME NEW q \in Readers, QueryStep(q)
    PROVE  UNCHANGED db /\ query[q].pc # "idle"
  BY DEF QueryStep, QueryOpen, QueryBusy, SelectFails, QueryExact, QueryFuzzy,
         QueryTotal, QueryRefine, QueryList, FillIdentity, FilledExact, FilledAll,
         QueryShared, QueryGroup, GroupsDone, storeVars

\* One step of one reader.
LEMMA ReaderStepKeeps ==
    ASSUME HandlersInv, NEW q \in Readers, QueryNext(q)
    PROVE  ReaderInv' /\ \A r \in Readers : CarriesSelected(query'[r])
<1>1. PICK b \in QueryState :
         query' = [query EXCEPT ![q] = b] /\ ReaderStep(query[q], b)
  BY QueryNextIsReaderStep DEF HandlersInv
<1>2. query[q] \in QueryState /\ ReaderControl(query[q])
  BY DEF HandlersInv, ReaderInv
<1>3. ReaderControl(b)
  BY <1>1, <1>2, ReaderControlStep
<1>4. CarriesSelected(b)
  BY <1>1, <1>2, CarriesStep DEF HandlersInv
<1>5. query' \in [Readers -> QueryState]
        /\ \A r \in Readers : query'[r] \in {query[r], b}
  BY <1>1 DEF HandlersInv, ReaderInv
<1> QED
  BY <1>3, <1>4, <1>5 DEF HandlersInv, ReaderInv

LEMMA InitHandlers ==
    ASSUME SoundStart, PageInit
    PROVE  HandlersInv
<1>1. query \in [Readers -> QueryState]
  BY DEF PageInit, QueryInit, QueryState
<1>2. \A q \in Readers : ReaderControl(query[q]) /\ CarriesSelected(query[q])
  BY DEF PageInit, QueryInit, ReaderControl, CarriesSelected
<1>3. UnsentInv
  BY DEF PageInit, QueryInit, UnsentInv
<1> QED
  BY <1>1, <1>2, <1>3 DEF PageInit, SoundStart, HandlersInv, ReaderInv

LEMMA NextHandlers ==
    ASSUME RequestInv, HandlersInv, [PageNext]_pageVars
    PROVE  HandlersInv'
<1>1. ASSUME NEW q \in Readers, Click(q) \/ Submit(q)
      PROVE  HandlersInv'
  <2>1. /\ UNCHANGED db /\ QueryNext(q) /\ query'[q].refine = {}
        /\ OthersStay(q) /\ fate'[q] = "pending"
    BY <1>1, SentRequest DEF HandlersInv
  <2>2. ReaderInv' /\ \A r \in Readers : CarriesSelected(query'[r])
    BY <2>1, ReaderStepKeeps
  <2>3. UnsentInv'
    BY <2>1 DEF HandlersInv, UnsentInv, OthersStay
  <2> QED
    BY <2>1, <2>2, <2>3 DEF HandlersInv
<1>2. ASSUME NEW q \in Readers, Handle(q)
      PROVE  HandlersInv'
  <2>1. QueryStep(q) /\ UNCHANGED fate /\ fate[q] = "pending"
    BY <1>2 DEF Handle
  <2>2. UNCHANGED db /\ QueryNext(q)
    BY <2>1, HandlerReads DEF QueryNext
  <2>3. ReaderInv' /\ \A r \in Readers : CarriesSelected(query'[r])
    BY <2>2, ReaderStepKeeps
  <2>4. UnsentInv'
    BY <2>1, HandlerStep DEF HandlersInv, UnsentInv
  <2> QED
    BY <2>2, <2>3, <2>4 DEF HandlersInv
<1>3. ASSUME NEW x \in Arrivals, Arrive(x)
      PROVE  HandlersInv'
  <2>1. /\ db' = Upserted(db, x.entry, x.side, x.text, x.canonical)
        /\ UNCHANGED <<query, fate>>
    BY <1>3 DEF Arrive
  <2>2. /\ x.entry \in EntryIds /\ x.side \in Sides
        /\ x.text \in Texts /\ x.canonical \in Canonicals
    BY PageAssumption
  <2>3. TablesInv(db')
    BY <2>1, <2>2, UpsertKeepsTablesInv DEF HandlersInv
  <2>4. Ids(db'.facets) \subseteq Ids(db.facets) \cup {UpsertId(db, x.entry, x.side)}
    BY <2>1, UpsertedFacetIds
  <2>5. IsFiniteSet(Ids(db'.facets))
    <3> DEFINE id == UpsertId(db, x.entry, x.side)
               ids == Ids(db.facets) \cup {id}
    <3>1. IsFiniteSet(Ids(db.facets))
      BY DEF HandlersInv
    <3> HIDE DEF id
    <3>2. IsFiniteSet(ids)
      BY <3>1, FS_AddElement
    <3>3. Ids(db'.facets) \subseteq ids
      BY <2>4 DEF id
    <3> HIDE DEF ids
    <3> QED
      BY <3>2, <3>3, FS_Subset
  <2> QED
    BY <2>1, <2>3, <2>5 DEF HandlersInv, ReaderInv, UnsentInv
<1>4. CASE Quiet
  BY <1>4 DEF Quiet, HandlersInv, ReaderInv, UnsentInv
<1> QED
  BY <1>1, <1>2, <1>3, <1>4, StepKinds

LEMMA InitTypes == PageInit => TypesInv
<1> SUFFICES ASSUME PageInit PROVE TypesInv
  OBVIOUS
<1>1. facets = <<>> /\ chips = <<>> /\ searched = NoReader /\ label = NoReader
  BY DEF PageInit
<1>2. hasty \in BOOLEAN /\ overlapped \in BOOLEAN
  BY Zenon DEF PageInit
<1> QED
  BY <1>1, <1>2 DEF TypesInv

LEMMA NextTypes ==
    ASSUME TypesInv, [PageNext]_pageVars
    PROVE  TypesInv'
<1> USE DEF TypesInv
<1>1. ASSUME NEW q \in Readers, Click(q)
      PROVE  TypesInv'
  <2>1. facets' \in Seq(FacetTags)
    BY <1>1, ClickAsks, QueryAssumption DEF Asked, Refresh, Request
  <2>2. hasty' \in BOOLEAN
    BY <1>1, Zenon DEF Click, OpenPage, PickFacet, DropFacet
  <2>3. UNCHANGED <<chips, searched, label, overlapped>>
    BY <1>1, ClickAsks DEF Asked, searchVars
  <2> QED
    BY <2>1, <2>2, <2>3
<1>2. ASSUME NEW q \in Readers, Submit(q)
      PROVE  TypesInv'
  <2>1. UNCHANGED <<facets, chips, hasty>> /\ label' = NoReader /\ searched' = q
    BY <1>2 DEF Submit, Cleared, filterVars
  <2>2. overlapped' \in BOOLEAN
    BY <1>2, Zenon DEF Submit, SearchPending
  <2> QED
    BY <2>1, <2>2
<1>3. CASE SubmitBlank
  <2>1. UNCHANGED <<facets, chips, hasty>> /\ label' = NoReader /\ searched' = NoReader
    BY <1>3 DEF SubmitBlank, Cleared, filterVars
  <2>2. overlapped' \in BOOLEAN
    BY <1>3, Zenon DEF SubmitBlank, SearchPending
  <2> QED
    BY <2>1, <2>2
<1>4. ASSUME NEW q \in Readers, Render(q) \/ RefreshLost(q)
      PROVE  TypesInv'
  BY <1>4 DEF Render, RefreshLost, filterVars, searchVars
<1>5. ASSUME NEW q \in Readers, SearchAnswered(q) \/ SearchLost(q)
      PROVE  TypesInv'
  BY <1>5 DEF SearchAnswered, SearchLost, ShowSections, ShowInstead, filterVars
<1>6. ASSUME UNCHANGED <<filterVars, searchVars>>
      PROVE  TypesInv'
  BY <1>6 DEF filterVars, searchVars
<1>7. ASSUME NEW q \in Readers, Handle(q)
      PROVE  TypesInv'
  BY <1>6, <1>7 DEF Handle
<1>8. ASSUME NEW x \in Arrivals, Arrive(x)
      PROVE  TypesInv'
  BY <1>6, <1>8 DEF Arrive
<1>9. CASE UNCHANGED pageVars
  BY <1>6, <1>9 DEF pageVars
<1> QED
  BY <1>1, <1>2, <1>3, <1>4, <1>5, <1>7, <1>8, <1>9 DEF PageNext, Click

LEMMA HandlersInvariance ==
    ASSUME SoundStart
    PROVE  PageSpec => [](IInv /\ TypesInv /\ HandlersInv)
<1>1. PageInit => IInv /\ TypesInv /\ HandlersInv
  BY InitIInv, InitTypes, InitHandlers
<1>2. IInv /\ TypesInv /\ HandlersInv /\ [PageNext]_pageVars
        => (IInv /\ TypesInv /\ HandlersInv)'
  BY NextIInv, NextTypes, NextHandlers DEF IInv
<1> QED
  BY <1>1, <1>2, PTL DEF PageSpec

\* Whatever is clicked, typed, answered or lost, what the page keeps and what the
\* handlers collect for it is of its type.
THEOREM PageTypeCorrect ==
    ASSUME SoundStart
    PROVE  PageSpec => []PageTypeOK
<1>1. IInv /\ TypesInv /\ HandlersInv => PageTypeOK
  BY DEF IInv, RequestInv, FilterInv, NewestInv, ShownInv, SearchInv, PaneInv,
         TypesInv, HandlersInv, ReaderInv, PageTypeOK, Fates
<1> QED
  BY HandlersInvariance, <1>1, PTL

\* The list displayed by the newest refresh is of formulas that have every facet
\* displayed as selected, though each was read by a SELECT of its own.
THEOREM ListIsOfTheChips ==
    ASSUME SoundStart
    PROVE  PageSpec => []ListMatchesChips
<1>1. IInv /\ HandlersInv => ListMatchesChips
  <2> SUFFICES ASSUME IInv, HandlersInv, shown # NoReader, shown = newest
               PROVE  /\ query[shown].request.selected = chips
                      /\ \A x \in query[shown].shown : \A r \in x.occurrences :
                           Chosen(chips) \subseteq FacetsOf[r.canonical]
    BY DEF ListMatchesChips
  <2>1. query[shown].request.selected = chips
    BY DEF IInv, FilterInv, NewestInv, ShownInv, ChipsCurrent
  <2>2. shown \in Readers /\ query[shown].request.kind = "facets"
    BY DEF IInv, FilterInv, NewestInv, Kind
  <2>3. CarriesSelected(query[shown])
    BY <2>2 DEF HandlersInv
  <2> QED
    BY <2>1, <2>2, <2>3 DEF CarriesSelected
<1> QED
  BY HandlersInvariance, <1>1, PTL

-----------------------------------------------------------------------------
(***************************************************************************)
(* facets.filter.                                                          *)
(***************************************************************************)

\* A set of numbers has a least one: the naturals are well-founded.
LEMMA LeastOf ==
    ASSUME NEW T, T \subseteq Nat, T # {}
    PROVE  \E x \in T : \A y \in T : x <= y
<1> DEFINE R == OpToRel(<, Nat)
<1>1. IsWellFoundedOn(R, Nat)
  BY NatLessThanWellFounded
<1>2. ASSUME NEW x \in T, NEW y \in T, <<y, x>> \notin R
      PROVE  x <= y
  BY <1>2 DEF OpToRel
<1> HIDE DEF R
<1>3. PICK x \in T : \A y \in T : <<y, x>> \notin R
  BY <1>1, WFMin
<1> QED
  BY <1>2, <1>3

\* Induction up to n, on a set of numbers.
LEMMA UpTheNumbers ==
    ASSUME NEW n \in Nat, NEW T, 0 \in T,
           \A k \in 0..n : k \in T /\ k < n => k + 1 \in T
    PROVE  0..n \subseteq T
<1> DEFINE Left == {k \in 0..n : k \notin T}
<1>1. CASE Left # {}
  <2>0. Left \subseteq Nat
    OBVIOUS
  <2>1. PICK k \in Left : \A j \in Left : k <= j
    <3> HIDE DEF Left
    <3> QED
      BY <1>1, <2>0, LeastOf
  <2>2. k # 0 /\ k - 1 \in 0..n /\ k - 1 < n /\ k - 1 \notin Left
    BY <2>1
  <2>3. (k - 1) + 1 \in T
    BY <2>2
  <2> QED
    BY <2>1, <2>3
<1> QED
  BY <1>1

\* What Without has kept of the first n tags, given what f says it kept before.
Keeps(f, tags, tag, n) ==
    IF n = 0 THEN <<>>
    ELSE IF tags[n] = tag THEN f[n - 1]
    ELSE Append(f[n - 1], tags[n])

Kept(f, tags, tag, n) == f = [k \in 0..n |-> Keeps(f, tags, tag, k)]

LEMMA KeptIsDefined ==
    ASSUME NEW tags, NEW tag, NEW n \in Nat
    PROVE  \E f : Kept(f, tags, tag, n)
<1> DEFINE Defined == {m \in 0..n : \E f : Kept(f, tags, tag, m)}
<1>1. 0 \in Defined
  <2> DEFINE f == [k \in 0..0 |-> <<>>]
  <2>1. Kept(f, tags, tag, 0)
    BY DEF Kept, Keeps
  <2> QED
    BY <2>1
<1>2. ASSUME NEW m \in 0..n, m \in Defined, m < n
      PROVE  m + 1 \in Defined
  <2>1. PICK f : f = [k \in 0..m |-> Keeps(f, tags, tag, k)]
    BY <1>2 DEF Kept
  <2> DEFINE g == [k \in 0..(m + 1) |-> Keeps(f, tags, tag, k)]
  <2>2. \A k \in 0..m : g[k] = f[k]
    BY <2>1
  <2>3. \A k \in 0..(m + 1) : Keeps(g, tags, tag, k) = Keeps(f, tags, tag, k)
    <3> HIDE DEF g
    <3>1. \A k \in 0..(m + 1) : k # 0 => g[k - 1] = f[k - 1]
      BY <2>2
    <3> QED
      BY <3>1 DEF Keeps
  <2>4. Kept(g, tags, tag, m + 1)
    BY <2>3, Zenon DEF Kept
  <2> HIDE DEF g
  <2> QED
    BY <1>2, <2>4
<1> HIDE DEF Defined
<1>3. n \in Defined
  BY <1>1, <1>2, UpTheNumbers
<1> QED
  BY <1>3 DEF Defined

LEMMA WithoutIsKept ==
    ASSUME NEW S, NEW tags \in Seq(S), NEW tag
    PROVE  \E f : /\ \A k \in 0..Len(tags) : f[k] = Keeps(f, tags, tag, k)
                  /\ Without(tags, tag) = f[Len(tags)]
<1> DEFINE kept == CHOOSE f : Kept(f, tags, tag, Len(tags))
<1>1. Kept(kept, tags, tag, Len(tags))
  <2>1. Len(tags) \in Nat
    OBVIOUS
  <2>2. \E f : Kept(f, tags, tag, Len(tags))
    BY <2>1, KeptIsDefined
  <2> QED
    BY <2>2, Zenon
<1>2. Without(tags, tag) = kept[Len(tags)]
  BY Zenon DEF Without, Keeps, Kept
<1> HIDE DEF kept
<1>3. \A k \in 0..Len(tags) : kept[k] = Keeps(kept, tags, tag, k)
  BY <1>1 DEF Kept
<1> QED
  BY <1>2, <1>3

\* Of a list without repetitions, facets.filter leaves one without repetitions, and
\* of its members all but the one that is dropped.
LEMMA WithoutLeavesOthers ==
    ASSUME NEW S, NEW tags \in Seq(S), NEW tag,
           \A j, k \in DOMAIN tags : tags[j] = tags[k] => j = k
    PROVE  LET left == Without(tags, tag) IN
           /\ left \in Seq(S)
           /\ Chosen(left) \subseteq Chosen(tags)
           /\ \A j, k \in DOMAIN left : left[j] = left[k] => j = k
<1>0. Len(tags) \in Nat /\ DOMAIN tags = 1..Len(tags) /\ \A k \in 1..Len(tags) : tags[k] \in S
  OBVIOUS
<1>1. PICK f : /\ \A k \in 0..Len(tags) : f[k] = Keeps(f, tags, tag, k)
               /\ Without(tags, tag) = f[Len(tags)]
  BY WithoutIsKept
<1> DEFINE Good(n) ==
             /\ f[n] \in Seq(S)
             /\ \A j \in DOMAIN f[n] : \E i \in 1..n : f[n][j] = tags[i]
             /\ \A j, k \in DOMAIN f[n] : f[n][j] = f[n][k] => j = k
           Goods == {n \in 0..Len(tags) : Good(n)}
<1>2. 0 \in Goods
  <2>1. f[0] = <<>>
    BY <1>0, <1>1 DEF Keeps
  <2>2. <<>> \in Seq(S) /\ DOMAIN <<>> = {}
    OBVIOUS
  <2>3. Good(0)
    BY <2>1, <2>2
  <2> HIDE DEF Good
  <2> QED
    BY <1>0, <2>3
<1>3. ASSUME NEW n \in 0..Len(tags), n \in Goods, n < Len(tags)
      PROVE  n + 1 \in Goods
  <2> DEFINE new == tags[n + 1]
  <2>0. n + 1 \in 0..Len(tags) /\ n + 1 \in 1..Len(tags) /\ n \in Nat /\ new \in S
        /\ n + 1 \in DOMAIN tags /\ n + 1 # 0 /\ (n + 1) - 1 = n
    BY <1>0, <1>3
  <2>1. f[n + 1] = IF new = tag THEN f[n] ELSE Append(f[n], new)
    BY <1>1, <2>0 DEF Keeps
  <2>2. CASE new = tag
    BY <1>3, <2>0, <2>1, <2>2
  <2>3. CASE new # tag
    <3> DEFINE s == f[n]
    <3>1. /\ s \in Seq(S)
          /\ \A j \in DOMAIN s : \E i \in 1..n : s[j] = tags[i]
          /\ \A j, k \in DOMAIN s : s[j] = s[k] => j = k
      BY <1>3
    <3>2. f[n + 1] = Append(s, new)
      BY <2>1, <2>3
    <3> HIDE DEF s, new
    <3>3. /\ Append(s, new) \in Seq(S)
          /\ DOMAIN Append(s, new) = DOMAIN s \cup {Len(s) + 1}
          /\ \A j \in DOMAIN s : Append(s, new)[j] = s[j]
          /\ Append(s, new)[Len(s) + 1] = new
      BY <2>0, <3>1
    <3>4. \A j \in DOMAIN s : s[j] # new
      <4>1. \A i \in 1..n : i \in DOMAIN tags /\ i # n + 1
        BY <1>0, <2>0
      <4> QED
        BY <2>0, <3>1, <4>1 DEF new
    <3>5. \A j \in DOMAIN Append(s, new) :
             \E i \in 1..(n + 1) : Append(s, new)[j] = tags[i]
      BY <2>0, <3>1, <3>3 DEF new
    <3>6. \A j, k \in DOMAIN Append(s, new) :
             Append(s, new)[j] = Append(s, new)[k] => j = k
      BY <3>1, <3>3, <3>4
    <3>7. Good(n + 1)
      BY <3>2, <3>3, <3>5, <3>6
    <3> HIDE DEF Good
    <3> QED
      BY <2>0, <3>7
  <2> QED
    BY <2>2, <2>3
<1>4. Len(tags) \in Goods
  <2> HIDE DEF Goods
  <2>1. \A k \in 0..Len(tags) : k \in Goods /\ k < Len(tags) => k + 1 \in Goods
    BY <1>3
  <2>2. 0..Len(tags) \subseteq Goods
    BY <1>0, <1>2, <2>1, UpTheNumbers
  <2> QED
    BY <1>0, <2>2
<1>5. Good(Len(tags))
  BY <1>4
<1> QED
  BY <1>0, <1>1, <1>5 DEF Chosen

-----------------------------------------------------------------------------
(***************************************************************************)
(* Who waits for the answers never picks a dead end.                       *)
(***************************************************************************)

\* The tables as upserts leave them, with a document for every facet.
DocsInv == FacetsHaveDocs(db)

\* The refinements of an answer lead somewhere, now as when they were counted.
OfferInv ==
    \A q \in Readers : \A refinement \in query[q].refine :
        Leads(db, Append(query[q].request.selected, refinement[1]))

\* As long as every facet was picked from the newest answer, so do the facets.
WayInv == ~hasty => Leads(db, facets)

OpenInv == DocsInv /\ OfferInv /\ WayInv

\* The way is not lost when more is stored.
LEMMA MoreLeads ==
    ASSUME NEW d, NEW u, d.facets \subseteq u.facets, NEW selected, Leads(d, selected)
    PROVE  Leads(u, selected)
  BY DEF Leads

\* Nor when a facet is dropped.
LEMMA FewerLead ==
    ASSUME NEW d, NEW selected \in Seq(FacetTags), NEW tag, Leads(d, selected)
    PROVE  Leads(d, Without(selected, tag))
<1>1. \A j, k \in DOMAIN selected : selected[j] = selected[k] => j = k
  BY NoneTwice DEF Leads
<1> DEFINE left == Without(selected, tag)
<1>2. /\ left \in Seq(FacetTags)
      /\ Chosen(left) \subseteq Chosen(selected)
      /\ \A j, k \in DOMAIN left : left[j] = left[k] => j = k
  BY <1>1, WithoutLeavesOthers
<1> HIDE DEF left
<1>3. Cardinality(Chosen(left)) = Len(left)
  BY <1>2, NoneTwice
<1>4. Leads(d, left)
  BY <1>2, <1>3 DEF Leads
<1> QED
  BY <1>4 DEF left

LEMMA InitOpen ==
    ASSUME FacetsHaveDocs(InitialTables), PageInit
    PROVE  OpenInv
<1>1. DocsInv
  BY DEF PageInit, DocsInv
<1>2. OfferInv
  BY DEF PageInit, QueryInit, OfferInv
<1>3. Leads(db, <<>>)
  <2>1. Chosen(<<>>) = {}
    BY DEF Chosen
  <2>2. Cardinality(Chosen(<<>>)) = 0 /\ Len(<<>>) = 0
    BY <2>1, FS_EmptySet
  <2> QED
    BY <2>1, <2>2 DEF Leads
<1>4. facets = <<>>
  BY DEF PageInit
<1> QED
  BY <1>1, <1>2, <1>3, <1>4 DEF OpenInv, WayInv

\* A facet picked from the newest answer leads on from the facets of the moment:
\* they are what that answer was asked for.
LEMMA PickLeads ==
    ASSUME FilterInv, OfferInv, NEW q \in Readers, NEW tag, PickFacet(q, tag), ~hasty'
    PROVE  Leads(db, facets')
<1>1. tag \in Offered /\ facets' = Append(facets, tag) /\ shown = newest
  BY DEF PickFacet
<1>2. shown # NoReader /\ \E refinement \in query[shown].refine : tag = refinement[1]
  BY <1>1 DEF Offered
<1>3. shown \in Readers /\ query[shown].request.selected = facets
  BY <1>1, <1>2 DEF FilterInv, NewestInv
<1> QED
  BY <1>1, <1>2, <1>3 DEF OfferInv

LEMMA ClickKeepsWay ==
    ASSUME IInv, TypesInv, HandlersInv, OpenInv, NEW q \in Readers, Click(q)
    PROVE  WayInv'
<1>1. UNCHANGED db
  BY SentRequest DEF IInv, HandlersInv
<1>2. CASE OpenPage(q)
  BY <1>1, <1>2 DEF OpenPage, OpenInv, WayInv
<1>3. ASSUME NEW tag, PickFacet(q, tag)
      PROVE  WayInv'
  BY <1>1, <1>3, PickLeads DEF IInv, OpenInv, WayInv
<1>4. ASSUME NEW tag, DropFacet(q, tag)
      PROVE  WayInv'
  <2>1. facets' = Without(facets, tag) /\ UNCHANGED hasty
    BY <1>4 DEF DropFacet
  <2> QED
    BY <1>1, <2>1, FewerLead DEF TypesInv, OpenInv, WayInv
<1> QED
  BY <1>2, <1>3, <1>4 DEF Click

LEMMA NextOpen ==
    ASSUME ContentlessDelete = FALSE, IInv, TypesInv, HandlersInv, OpenInv,
           [PageNext]_pageVars
    PROVE  OpenInv'
<1> USE DEF OpenInv
<1>1. ASSUME NEW q \in Readers, Click(q) \/ Submit(q)
      PROVE  UNCHANGED db /\ DocsInv' /\ OfferInv'
  <2>1. UNCHANGED db /\ query'[q].refine = {} /\ OthersStay(q)
    BY <1>1, SentRequest DEF IInv, HandlersInv
  <2> QED
    BY <2>1 DEF DocsInv, OfferInv, OthersStay
<1>2. ASSUME NEW q \in Readers, Click(q)
      PROVE  OpenInv'
  BY <1>1, <1>2, ClickKeepsWay
<1>3. ASSUME NEW q \in Readers, Submit(q)
      PROVE  OpenInv'
  <2>1. UNCHANGED <<facets, hasty>>
    BY <1>3 DEF Submit, filterVars
  <2> QED
    BY <1>1, <1>3, <2>1 DEF WayInv
<1>4. ASSUME NEW q \in Readers, Handle(q)
      PROVE  OpenInv'
  <2>1. QueryStep(q) /\ UNCHANGED <<fate, facets, hasty>>
    BY <1>4 DEF Handle, filterVars
  <2>2. UNCHANGED db
    BY <2>1, HandlerReads
  <2> DEFINE selected == query[q].request.selected
  <2>3. /\ query'[q].request = query[q].request
        /\ query'[q].refine \in {query[q].refine, Refinements(db, selected)}
        /\ \A r \in Readers \ {q} : query'[r] = query[r]
    BY <2>1, HandlerStep DEF IInv, RequestsStay
  <2>4. selected \in Seq(FacetTags)
    <3>1. query[q].request \in Requests
      BY <2>1, HandlerReads DEF HandlersInv, ReaderInv, ReaderControl
    <3> QED
      BY <3>1, QueryAssumption DEF Request
  <2>5. \A refinement \in query'[q].refine : Leads(db, Append(selected, refinement[1]))
    <3>1. CASE query'[q].refine = query[q].refine
      BY <3>1 DEF OfferInv
    <3>2. CASE query'[q].refine # query[q].refine
      BY <2>3, <2>4, <3>2, RefinementLeads DEF HandlersInv, TablesInv
    <3> QED
      BY <3>1, <3>2
  <2>6. OfferInv'
    BY <2>2, <2>3, <2>5 DEF OfferInv
  <2> QED
    BY <2>1, <2>2, <2>6 DEF DocsInv, WayInv
<1>5. ASSUME NEW x \in Arrivals, Arrive(x)
      PROVE  OpenInv'
  <2>1. /\ CanUpsert(db, x.entry, x.side)
        /\ db' = Upserted(db, x.entry, x.side, x.text, x.canonical)
        /\ UNCHANGED <<query, facets, hasty>>
    BY <1>5 DEF Arrive, filterVars
  <2>2. db.facets \subseteq db'.facets /\ FacetsHaveDocs(db')
    BY <2>1, UpsertOnlyAddsFacets DEF DocsInv
  <2>3. ASSUME NEW selected, Leads(db, selected)
        PROVE  Leads(db', selected)
    BY <2>2, <2>3, MoreLeads
  <2> QED
    BY <2>1, <2>2, <2>3 DEF DocsInv, OfferInv, WayInv
<1>6. CASE Quiet
  BY <1>6 DEF Quiet, DocsInv, OfferInv, WayInv
<1> QED
  BY <1>2, <1>3, <1>4, <1>5, <1>6, StepKinds DEF IInv

\* What is asked of the start holds of a database just created; UpsertKeepsTablesInv,
\* UpsertedFacetIds and UpsertOnlyAddsFacets say that every upsert keeps it.
LEMMA FirstStart ==
    ASSUME InitialTables = EmptyTables
    PROVE  SoundStart /\ FacetsHaveDocs(InitialTables)
<1>1. Ids({}) = {}
  BY DEF Ids
<1>2. EmptyTables \in Tables
  BY DEF EmptyTables, Tables
<1>3. 1..0 = {}
  OBVIOUS
<1>4. Dense(EmptyTables)
  BY <1>1, <1>3 DEF EmptyTables, Dense
<1>5. IsFiniteSet(Ids(EmptyTables.facets)) /\ FacetsHaveDocs(EmptyTables)
  BY <1>1, FS_EmptySet DEF EmptyTables, FacetsHaveDocs
<1> QED
  BY <1>2, <1>4, <1>5
  DEF EmptyTables, SoundStart, TablesInv, UniqueKeys, SoundDocs, SoundFacets

\* Who picks each facet from the newest answer never narrows the collection to nothing,
\* whatever is dropped, answered late, lost or added meanwhile: a formula that carried
\* the facets keeps them, as formula_fts lets no document, and so no formula, be replaced.
THEOREM PicksNeverDeadEnd ==
    ASSUME ContentlessDelete = FALSE, SoundStart, FacetsHaveDocs(InitialTables)
    PROVE  PageSpec => []NoDeadEnd
<1>1. PageInit => IInv /\ TypesInv /\ HandlersInv /\ OpenInv
  BY InitIInv, InitTypes, InitHandlers, InitOpen
<1>2. IInv /\ TypesInv /\ HandlersInv /\ OpenInv /\ [PageNext]_pageVars
        => (IInv /\ TypesInv /\ HandlersInv /\ OpenInv)'
  BY NextIInv, NextTypes, NextHandlers, NextOpen DEF IInv
<1>3. TypesInv /\ HandlersInv /\ OpenInv => NoDeadEnd
  BY LeadsSomewhere DEF TypesInv, HandlersInv, OpenInv, WayInv, NoDeadEnd
<1> QED
  BY <1>1, <1>2, <1>3, PTL DEF PageSpec

=============================================================================
