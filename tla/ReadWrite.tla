------------------------------ MODULE ReadWrite ------------------------------
(***************************************************************************)
(* Readers beside the writers of MathSearch: what a search, a filter or a  *)
(* dedup report shows while formulas are added and the index is rebuilt    *)
(* between its SELECTs.                                                    *)
(***************************************************************************)
EXTENDS MathSearch, Queries

rwVars == <<vars, query>>

RWInit == Init /\ QueryInit

RWNext ==
    \/ Next /\ UNCHANGED query
    \/ (\E q \in Readers : QueryNext(q)) /\ UNCHANGED <<ing, serverVars>>

RWSpec == RWInit /\ [][RWNext]_rwVars

ASSUME ReaderAssumption == Readers \cap (Ingests \cup Posts) = {}

RWTypeOK == TypeOK /\ query \in [Readers -> QueryState]

Emptied == db.formulas = {}

\* How many entries rows belong to.
Spans(rows) == Cardinality({r.entry : r \in rows})

-----------------------------------------------------------------------------

\* Every formula the filter lists really has every facet that was selected,
\* though the ids it is found by are those of rows written, and of rows left
\* behind, by other processes.
HitsCarrySelected ==
    \A q \in Readers :
        query[q].request.kind = "facets" =>
            \A x \in query[q].found \cup query[q].shown :
                \A r \in x.occurrences :
                    Chosen(query[q].request.selected) \subseteq FacetsOf[r.canonical]

\* Each side of the identity shown with a hit is a text that is stored on that
\* side of the entry of the hit, and its own side reads as it did when it was
\* found, though they are read later and rows are written meanwhile.  A side may
\* be missing, nothing tells that it could not be read, and all may be gone: the
\* index has been emptied.
IdentityShowsHit ==
    \A q \in Readers : \A x \in query[q].exact \cup query[q].shown :
        /\ x.identity[x.formula.side] \in {x.formula.text, Blank}
        /\ \A s \in Sides :
             \/ x.identity[s] = Blank
             \/ \E r \in Conflicting(db, x.formula.entry, s) : r.text = x.identity[s]
             \/ Emptied

\* What exact search found is among the fuzzy results of the same answer.  If it
\* is not, it has no tokens to be found by, or the list is full of other formulas
\* no less similar to it than itself, or there are more candidates than the pool
\* holds, or the index has been emptied in between.
ExactAlsoFuzzy ==
    \A q \in Readers :
        LET c == query[q].request.canonical
            listed == {x.formula.canonical : x \in query[q].shown}
        IN
        query[q].request.kind = "search" /\ query[q].pc = "done"
            /\ query[q].exact # {} =>
                \/ c \in listed
                \/ Shares[c] = {}
                \/ /\ Cardinality(listed) = FuzzyLimit
                   /\ \A other \in listed : Score[c][other] = Score[c][c]
                \/ Cardinality(Candidates(db, c)) > PoolSize
                \/ Emptied

\* The formulas with all of the facets selected.
Carriers(selected) ==
    {r \in db.formulas : Chosen(selected) \subseteq FacetsOf[r.canonical]}

\* The filter never counts a formula that is not there: since it counted them,
\* in one SELECT for the total and another for the facets to refine by, there
\* have been as many formulas to be found by that selection as it said, whatever
\* was written, unless the index has been emptied.  Selecting a facet twice
\* counts nothing at all.
CountsAreThere ==
    \A q \in Readers :
        LET selected == query[q].request.selected IN
        query[q].request.kind = "facets" =>
            /\ \/ query[q].total <= Cardinality(Carriers(selected))
               \/ Emptied
            /\ \A refinement \in query[q].refine :
                 \/ refinement[2] <= Cardinality(Carriers(Append(selected, refinement[1])))
                 \/ Emptied
            /\ Cardinality(Chosen(selected)) < Len(selected) =>
                 query[q].total = 0 /\ query[q].refine = {}

\* A group of the dedup report is whole or empty: an ingest or a rebuild that
\* goes on meanwhile never leaves a group with a single entry in it.
GroupsWholeOrGone ==
    \A q \in Readers : \A g \in query[q].groups :
        \/ Spans(g.occurrences) > 1
        \/ g.occurrences = {} /\ Emptied

-----------------------------------------------------------------------------
(***************************************************************************)
(* What the comments of the code say of it.                                *)
(***************************************************************************)

\* "Reset drops all indexed formulas", and a filter "returns the number of
\* formulas carrying all selected facets": after a rebuild that ended with an
\* error, what the filter counts are formulas.
ResetDropsAll ==
    \A i \in Ingests :
        ing[i].pc = "ftsError" =>
            \A request \in Requests :
                FilterTotal(db, request.selected) = Cardinality(Carriers(request.selected))

=============================================================================
