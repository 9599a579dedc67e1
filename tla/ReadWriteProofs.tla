--------------------------- MODULE ReadWriteProofs ---------------------------
(***************************************************************************)
(* Theorems about readers beside writers, for any number of each.          *)
(*                                                                         *)
(* A reader changes no table, so that the invariants of the writers hold   *)
(* with readers beside them.  What a reader does to its own record is one  *)
(* of the few steps of ReaderStep; what it has collected is then followed  *)
(* through the steps of the readers and of the tables.                     *)
(***************************************************************************)
EXTENDS ReadWrite, MathSearchProofs, QueriesProofs

-----------------------------------------------------------------------------
(***************************************************************************)
(* The writers, with readers beside them.                                  *)
(***************************************************************************)

\* Opening the store, a command may record the layout; nothing else of a reader
\* is seen by a writer.
LEMMA ReadersOnlyRead ==
    ASSUME NEW q, QueryNext(q)
    PROVE  UNCHANGED <<db, txn, lock>> /\ (UNCHANGED meta \/ RecordLayout)
BY DEF QueryNext, QueryStep, QueryStart, QueryOpen, QueryBusy, SelectFails, QueryExact,
       QueryFuzzy, QueryTotal, QueryRefine, QueryList, FillIdentity, FilledExact,
       FilledAll, QueryShared, QueryGroup, GroupsDone, storeVars

LEMMA RWInvStep == Inv /\ [RWNext]_rwVars => Inv' /\ StoreStep
<1> SUFFICES ASSUME Inv, [RWNext]_rwVars PROVE Inv' /\ StoreStep
  OBVIOUS
<1>1. CASE [Next]_vars
  BY <1>1, ControlInvStep, NextIsStoreStep, StoreStepKeepsTables DEF Inv
<1>2. ASSUME NEW q \in Readers, QueryNext(q), UNCHANGED <<ing, serverVars>>
      PROVE  Inv' /\ StoreStep
  <2>1. UNCHANGED <<db, txn, lock>> /\ (UNCHANGED meta \/ RecordLayout)
    BY <1>2, ReadersOnlyRead
  <2>2. meta' \in [probe : Engines \cup {None}, schema : {SchemaVersion, None}]
    BY <2>1 DEF Inv, ControlInv, RecordLayout
  <2>3. ControlInv'
    BY <1>2, <2>1, <2>2 DEF Inv, ControlInv, LockHolderActive, BatchStartsEmpty,
                            PostsHaveIds, serverVars
  <2>4. StoreStep
    BY <2>1 DEF StoreStep
  <2> QED
    BY <2>3, <2>4, StoreStepKeepsTables DEF Inv
<1> QED
  BY <1>1, <1>2 DEF RWNext, rwVars

LEMMA RWInvariance == RWSpec => []Inv
<1>1. RWInit => Inv
  BY ControlInvInit, EmptyTablesInv DEF RWInit, Init, StoreInit, Inv, TablesAgree
<1> QED
  BY <1>1, RWInvStep, PTL DEF RWSpec

LEMMA RWOnceStep ==
    ASSUME ContentlessDelete = FALSE, Inv, OnceInv, [RWNext]_rwVars
    PROVE  OnceInv' /\ (Grows \/ Empties \/ KeepsRows)
BY RWInvStep, StoreStepOnce

LEMMA RWOnceInvariance ==
    ASSUME ContentlessDelete = FALSE
    PROVE  RWSpec => []OnceInv
<1>1. RWInit => OnceInv
  BY EmptyTablesInv DEF OnceInv, TablesAgree, OneDocEach, BatchExtends, RWInit, Init,
                        StoreInit, EmptyTables
<1>2. Inv /\ OnceInv /\ [RWNext]_rwVars => OnceInv'
  BY RWOnceStep
<1> QED
  BY <1>1, <1>2, RWInvariance, PTL DEF RWSpec

-----------------------------------------------------------------------------
(***************************************************************************)
(* The facets table.                                                       *)
(***************************************************************************)

FacetsFinite == IsFiniteSet(Ids(db.facets)) /\ IsFiniteSet(Ids(txn.facets))

LEMMA UpsertFacetIds ==
    ASSUME NEW d, NEW d2, UpsertInto(d, d2)
    PROVE  \E id \in Ids(d2.formulas) : Ids(d2.facets) \subseteq Ids(d.facets) \cup {id}
<1>1. PICK e \in EntryIds, s \in Sides, t \in Texts, c \in Canonicals :
         d2 = Upserted(d, e, s, t, c)
  BY DEF UpsertInto
<1> QED
  BY <1>1, UpsertedFacetIds

LEMMA FacetsStayFinite ==
    ASSUME Inv, FacetsFinite, StoreStep
    PROVE  FacetsFinite'
<1>1. ASSUME NEW d, NEW d2, IsFiniteSet(Ids(d.facets)), UpsertInto(d, d2)
      PROVE  IsFiniteSet(Ids(d2.facets))
  <2>1. PICK id : Ids(d2.facets) \subseteq Ids(d.facets) \cup {id}
    BY <1>1, UpsertFacetIds
  <2> QED
    BY <1>1, <2>1, FS_AddElement, FS_Subset
<1>2. IsFiniteSet(Ids(EmptyTables.facets))
  <2>1. Ids(EmptyTables.facets) = {}
    BY DEF EmptyTables, Ids
  <2> QED
    BY <2>1, FS_EmptySet
<1>3. CASE DeleteFacets /\ UNCHANGED txn
  <2>1. Ids(db'.facets) = {}
    BY <1>3 DEF DeleteFacets, Inv, TablesAgree, TablesInv, Tables, Ids
  <2> QED
    BY <1>3, <2>1, FS_EmptySet DEF FacetsFinite
<1>4. CASE (DeleteFormulas \/ DeleteFts) /\ UNCHANGED txn
  <2>1. db'.facets = db.facets
    BY <1>4 DEF DeleteFormulas, DeleteFts, Inv, TablesAgree, TablesInv, Tables
  <2> QED
    BY <1>4, <2>1 DEF FacetsFinite
<1>5. CASE UpsertInto(db, db') /\ UNCHANGED txn
  BY <1>1, <1>5 DEF FacetsFinite
<1>6. CASE BatchAdd
  <2>1. PICK i \in Ingests : UpsertInto(View(i), txn') /\ UNCHANGED db
    BY <1>6 DEF BatchAdd
  <2>2. IsFiniteSet(Ids(View(i).facets))
    BY DEF View, FacetsFinite
  <2> QED
    BY <1>1, <2>1, <2>2 DEF FacetsFinite
<1>7. CASE BatchCommit \/ BatchDiscard \/ UNCHANGED <<db, txn, lock>>
  BY <1>2, <1>7 DEF BatchCommit, BatchDiscard, FacetsFinite
<1> QED
  BY <1>3, <1>4, <1>5, <1>6, <1>7 DEF StoreStep, Autocommit

LEMMA FacetsFiniteInvariance == RWSpec => []FacetsFinite
<1>1. RWInit => FacetsFinite
  <2>1. Ids({}) = {}
    BY DEF Ids
  <2> QED
    BY <2>1, FS_EmptySet DEF FacetsFinite, RWInit, Init, StoreInit, EmptyTables
<1>2. Inv /\ FacetsFinite /\ [RWNext]_rwVars => FacetsFinite'
  BY RWInvStep, FacetsStayFinite
<1> QED
  BY <1>1, <1>2, RWInvariance, PTL DEF RWSpec

\* The facets are those of the formulas there are, or the formulas are gone.  What
\* is left of a rebuild that emptied formulas is never written into again.
FacetsFollow(d) ==
    /\ FacetsLive(d)
    /\ d.formulas = {} /\ d.fts = {} => d.facets = {}

LEMMA UpsertKeepsLive ==
    ASSUME ContentlessDelete = FALSE,
           NEW d, TablesInv(d), OneDocEach(d), FacetsFollow(d),
           NEW d2, UpsertInto(d, d2)
    PROVE  FacetsFollow(d2)
<1>1. d.formulas \subseteq d2.formulas /\ d2.formulas # {} /\ ~Wedged(d)
  BY UpsertAddsOne
<1>2. PICK id \in Ids(d2.formulas) : Ids(d2.facets) \subseteq Ids(d.facets) \cup {id}
  BY UpsertFacetIds
<1>3. Ids(d.facets) \subseteq Ids(d2.formulas)
  <2>1. CASE d.formulas # {}
    BY <1>1, <2>1 DEF FacetsFollow, FacetsLive, Ids
  <2>2. CASE d.formulas = {}
    BY <1>1, <2>2 DEF FacetsFollow, Wedged, Ids
  <2> QED
    BY <2>1, <2>2
<1> QED
  BY <1>1, <1>2, <1>3 DEF FacetsFollow, FacetsLive

LEMMA LiveStep ==
    ASSUME ContentlessDelete = FALSE, OnceInv, FacetsFollow(db), FacetsFollow(txn),
           StoreStep
    PROVE  FacetsFollow(db') /\ FacetsFollow(txn')
<1>0. /\ TablesInv(db) /\ TablesInv(txn) /\ OneDocEach(db) /\ OneDocEach(txn)
      /\ db \in Tables
  BY DEF OnceInv, TablesAgree, TablesInv
<1>1. FacetsFollow(EmptyTables)
  BY DEF FacetsFollow, FacetsLive, EmptyTables
<1>2. CASE DeleteFormulas /\ UNCHANGED txn
  <2>1. db'.formulas = {} /\ db'.fts = db.fts /\ db'.facets = db.facets
    BY <1>0, <1>2 DEF DeleteFormulas, Tables
  <2>2. db.formulas # {} => db.fts # {}
    BY <1>0 DEF OneDocEach, Ids
  <2> QED
    BY <1>2, <2>1, <2>2 DEF FacetsFollow, FacetsLive
<1>3. CASE CanDeleteDocs(db, Ids(db.fts)) /\ DeleteFts /\ UNCHANGED txn
  <2>1. db.fts = {}
    BY <1>3 DEF CanDeleteDocs, Ids
  <2>2. db'.formulas = db.formulas /\ db'.fts = db.fts /\ db'.facets = db.facets
    BY <1>0, <1>3, <2>1 DEF DeleteFts, Tables
  <2> QED
    BY <1>3, <2>2 DEF FacetsFollow, FacetsLive
<1>4. CASE DeleteFacets /\ UNCHANGED txn
  <2>1. db'.facets = {}
    BY <1>0, <1>4 DEF DeleteFacets, Tables
  <2> QED
    BY <1>4, <2>1 DEF FacetsFollow, FacetsLive, Ids
<1>5. CASE UpsertInto(db, db') /\ UNCHANGED txn
  BY <1>0, <1>5, UpsertKeepsLive
<1>6. CASE BatchAdd
  <2>1. PICK i \in Ingests : UpsertInto(View(i), txn') /\ UNCHANGED db
    BY <1>6 DEF BatchAdd
  <2>2. TablesInv(View(i)) /\ OneDocEach(View(i)) /\ FacetsFollow(View(i))
    BY <1>0 DEF View
  <2> QED
    BY <2>1, <2>2, UpsertKeepsLive
<1>7. CASE BatchCommit \/ BatchDiscard \/ UNCHANGED <<db, txn, lock>>
  BY <1>1, <1>7 DEF BatchCommit, BatchDiscard
<1> QED
  BY <1>2, <1>3, <1>4, <1>5, <1>6, <1>7 DEF StoreStep, Autocommit

LiveInv == FacetsFollow(db) /\ FacetsFollow(txn)

LEMMA LiveInvariance ==
    ASSUME ContentlessDelete = FALSE
    PROVE  RWSpec => []LiveInv
<1>1. RWInit => LiveInv
  BY DEF LiveInv, FacetsFollow, FacetsLive, RWInit, Init, StoreInit, EmptyTables
<1>2. Inv /\ OnceInv /\ LiveInv /\ [RWNext]_rwVars => LiveInv'
  BY RWInvStep, LiveStep DEF LiveInv
<1> QED
  BY <1>1, <1>2, RWInvariance, RWOnceInvariance, PTL DEF RWSpec

-----------------------------------------------------------------------------
(***************************************************************************)
(* The readers.                                                            *)
(***************************************************************************)

\* A step of the system is a step of one reader, and then the tables stay as they
\* are, or no reader sees it but through the tables.
LEMMA ReadersStep ==
    ASSUME Inv, FacetsFinite, ReaderInv, [RWNext]_rwVars
    PROVE  /\ query' \in [Readers -> QueryState]
           /\ \A q \in Readers :
                \/ query'[q] = query[q]
                \/ ReaderStep(query[q], query'[q]) /\ UNCHANGED <<db, txn, lock>>
<1>1. CASE UNCHANGED query
  BY <1>1 DEF ReaderInv
<1>2. ASSUME NEW q \in Readers, QueryNext(q)
      PROVE  /\ query' \in [Readers -> QueryState]
             /\ \A p \in Readers :
                  \/ query'[p] = query[p]
                  \/ ReaderStep(query[p], query'[p]) /\ UNCHANGED <<db, txn, lock>>
  <2>1. PICK b \in QueryState :
           query' = [query EXCEPT ![q] = b] /\ ReaderStep(query[q], b)
    BY <1>2, QueryNextIsReaderStep DEF Inv, TablesAgree, FacetsFinite
  <2>2. UNCHANGED <<db, txn, lock>>
    BY <1>2, ReadersOnlyRead
  <2> QED
    BY <2>1, <2>2 DEF ReaderInv
<1> QED
  BY <1>1, <1>2 DEF RWNext, rwVars

LEMMA ReaderCounts ==
    ASSUME ReaderInv, [RWNext]_rwVars, NEW q \in Readers
    PROVE  \/ query'[q] = query[q]
           \/ Counts(query[q], query'[q]) /\ UNCHANGED <<db, txn, lock>>
<1>1. CASE UNCHANGED query
  BY <1>1
<1>2. ASSUME NEW p \in Readers, QueryNext(p)
      PROVE  \/ query'[q] = query[q]
             \/ Counts(query[q], query'[q]) /\ UNCHANGED <<db, txn, lock>>
  BY <1>2, QueryNextCounts, ReadersOnlyRead DEF ReaderInv
<1> QED
  BY <1>1, <1>2 DEF RWNext, rwVars

LEMMA ReaderInvariance == RWSpec => []ReaderInv
<1>1. RWInit => ReaderInv
  <2>1. QueryInit => query \in [Readers -> QueryState]
    BY DEF QueryInit, QueryState
  <2>2. QueryInit => \A q \in Readers : ReaderControl(query[q])
    BY DEF QueryInit, ReaderControl
  <2> QED
    BY <2>1, <2>2 DEF RWInit, ReaderInv
<1>2. Inv /\ FacetsFinite /\ ReaderInv /\ [RWNext]_rwVars => ReaderInv'
  <2> SUFFICES ASSUME Inv, FacetsFinite, ReaderInv, [RWNext]_rwVars PROVE ReaderInv'
    OBVIOUS
  <2>1. ASSUME NEW q \in Readers
        PROVE  ReaderControl(query'[q])
    BY ReadersStep, ReaderControlStep DEF ReaderInv
  <2> QED
    BY <2>1, ReadersStep DEF ReaderInv, ReaderControl
<1> QED
  BY <1>1, <1>2, RWInvariance, FacetsFiniteInvariance, PTL DEF RWSpec

\* Every variable keeps its type, those of the readers too: each count a reader is
\* given is the count of a finite set.
THEOREM ReadersTypeCorrect == RWSpec => []RWTypeOK
<1>1. Inv /\ ReaderInv => RWTypeOK
  BY DEF Inv, ControlInv, TablesAgree, TablesInv, TypeOK, RWTypeOK, ReaderInv
<1> QED
  BY <1>1, RWInvariance, ReaderInvariance, PTL

-----------------------------------------------------------------------------
(***************************************************************************)
(* The filter.                                                             *)
(***************************************************************************)

\* Every formula listed for a selection has all of the facets selected, whatever
\* formula_fts accepts and whatever rows a rebuild left behind: the ids of the
\* filter are those of live formulas by then, and their facets are sound.
THEOREM HitsCarryWhatWasSelected == RWSpec => []HitsCarrySelected
<1>1. RWInit => HitsCarrySelected
  BY DEF RWInit, QueryInit, HitsCarrySelected, Nothing
<1>2. Inv /\ FacetsFinite /\ ReaderInv /\ HitsCarrySelected /\ [RWNext]_rwVars
        => HitsCarrySelected'
  <2> SUFFICES ASSUME Inv, FacetsFinite, ReaderInv, HitsCarrySelected, [RWNext]_rwVars,
                      NEW q \in Readers
               PROVE  CarriesSelected(query'[q])
    BY DEF HitsCarrySelected, CarriesSelected
  <2>1. CarriesSelected(query[q])
    BY DEF HitsCarrySelected, CarriesSelected
  <2>2. query[q] \in QueryState /\ query'[q] \in QueryState /\ ReaderControl(query[q])
    BY ReadersStep DEF ReaderInv
  <2> QED
    BY <2>1, <2>2, ReadersStep, CarriesStep DEF Inv, TablesAgree
<1> QED
  BY <1>1, <1>2, RWInvariance, FacetsFiniteInvariance, ReaderInvariance, PTL DEF RWSpec

-----------------------------------------------------------------------------
(***************************************************************************)
(* What the filter counts, in the store as it is declared.                 *)
(***************************************************************************)

\* n formulas are there to be found by a selection, or the index was emptied.
There(n, selected) == n <= Cardinality(Carriers(selected)) \/ Wedged(db)

LEMMA CarriersFinite ==
    ASSUME TablesInv(db), NEW selected
    PROVE  /\ IsFiniteSet(Carriers(selected))
           /\ Cardinality(Carriers(selected)) \in Nat
BY FormulasFinite, FS_Subset, FS_CardinalityType DEF Carriers

\* Each id the filter finds is that of a formula with all of the facets.
LEMMA TotalIsThere ==
    ASSUME TablesInv(db), FacetsFollow(db), NEW selected \in Seq(FacetTags)
    PROVE  There(FilterTotal(db, selected), selected)
<1> DEFINE ids == FilterIds(db, selected)
           row == [id \in ids |-> CHOOSE r \in db.formulas : r.id = id]
<1>1. CASE db.formulas = {} /\ ~Wedged(db)
  <2>1. db.facets = {}
    BY <1>1 DEF FacetsFollow, Wedged
  <2>2. ids = {}
    BY <1>1, <2>1, FilterIdsThere DEF Ids
  <2> QED
    BY <2>2, CarriersFinite, FS_EmptySet DEF There, FilterTotal
<1>2. CASE db.formulas # {}
  <2>1. \A id \in ids : \E r \in db.formulas : r.id = id
    BY <1>2, FilterIdsThere DEF FacetsFollow, FacetsLive, Ids
  <2> HIDE DEF ids
  <2>2. \A id \in ids : row[id] \in db.formulas /\ row[id].id = id
    BY <2>1
  <2>3. ASSUME NEW id \in ids, NEW tag \in Chosen(selected)
        PROVE  tag \in FacetsOf[row[id].canonical]
    <3>1. selected # <<>>
      BY <2>3 DEF Chosen
    <3>2. [id |-> id, facet |-> tag] \in db.facets
      BY <2>3, <3>1, FilterCarries DEF TablesInv, ids
    <3> QED
      BY <2>2, <3>2 DEF TablesInv, SoundFacets
  <2> HIDE DEF row
  <2>4. \A id \in ids : row[id] \in Carriers(selected)
    BY <2>2, <2>3 DEF Carriers
  <2>5. row \in [ids -> Carriers(selected)]
    BY <2>4 DEF row
  <2>6. row \in Injection(ids, Carriers(selected))
    BY <2>2, <2>5 DEF Injection, IsInjective
  <2> QED
    BY <2>6, CarriersFinite, FS_Injection DEF There, FilterTotal, ids
<1> QED
  BY <1>1, <1>2 DEF There

\* So it is with what the facets to refine by count: they are the next totals.
LEMMA RefinementIsThere ==
    ASSUME TablesInv(db), FacetsFollow(db), IsFiniteSet(Ids(db.facets)),
           NEW selected \in Seq(FacetTags), NEW refinement \in Refinements(db, selected)
    PROVE  There(refinement[2], Append(selected, refinement[1]))
<1>1. FilterTotal(db, Append(selected, refinement[1])) = refinement[2]
  BY RefinementIsNextTotal DEF FacetsFollow
<1>2. refinement \in FacetTags \X Nat
  BY CountsTyped
<1>3. Append(selected, refinement[1]) \in Seq(FacetTags)
  BY <1>2
<1> QED
  BY <1>1, <1>3, TotalIsThere

\* A facet selected twice is counted once, and expected twice.
LEMMA TwiceIsNothing ==
    ASSUME NEW d \in Tables, NEW selected \in Seq(FacetTags),
           Cardinality(Chosen(selected)) < Len(selected)
    PROVE  FilterTotal(d, selected) = 0 /\ Refinements(d, selected) = {}
<1>1. selected # <<>>
  BY ChosenCounted
<1>2. FilterIds(d, selected) = {}
  BY <1>1, FilterCarries, ChosenCounted
<1> QED
  BY <1>2, FS_EmptySet DEF FilterTotal, Refinements

\* Whatever is written, as many are there, or the index has been emptied.
LEMMA StaysThere ==
    ASSUME TablesInv(db), TablesInv(db'), OneDocEach(db), Grows \/ Empties \/ KeepsRows,
           NEW n \in Nat, NEW selected, There(n, selected)
    PROVE  There(n, selected)'
<1>1. CASE Wedged(db)
  BY <1>1 DEF Grows, Empties, KeepsRows, Wedged, There
<1>2. CASE db.formulas \subseteq db'.formulas /\ ~Wedged(db)
  <2>1. Carriers(selected) \subseteq Carriers(selected)'
    BY <1>2 DEF Carriers
  <2>2. IsFiniteSet(Carriers(selected)') /\ Cardinality(Carriers(selected)') \in Nat
    BY FormulasFinite, FS_Subset, FS_CardinalityType DEF Carriers
  <2>3. Cardinality(Carriers(selected)) <= Cardinality(Carriers(selected)')
    BY <2>1, <2>2, FS_Subset
  <2>4. Cardinality(Carriers(selected)) \in Nat
    BY CarriersFinite
  <2>5. n <= Cardinality(Carriers(selected))
    BY <1>2 DEF There
  <2> QED
    BY <2>2, <2>3, <2>4, <2>5 DEF There
<1>3. CASE Empties /\ db.formulas # {}
  BY <1>3 DEF Empties, OneDocEach, Wedged, Ids, There
<1> QED
  BY <1>1, <1>2, <1>3 DEF Grows, Empties, KeepsRows

\* What a reader has counted.  Before it asks, nothing.
CountsKept(a) ==
    LET selected == a.request.selected IN
    /\ a.pc = "idle" => a.total = 0 /\ a.refine = {}
    /\ a.request.kind = "facets" =>
         /\ There(a.total, selected)
         /\ \A refinement \in a.refine :
              There(refinement[2], Append(selected, refinement[1]))
         /\ Cardinality(Chosen(selected)) < Len(selected) => a.total = 0 /\ a.refine = {}

LEMMA SelectionTyped ==
    ASSUME NEW a \in QueryState, a.request.kind = "facets"
    PROVE  a.request.selected \in Seq(FacetTags)
BY QueryAssumption DEF QueryState, Request, Nothing

LEMMA CountsStep ==
    ASSUME TablesInv(db), FacetsFollow(db), IsFiniteSet(Ids(db.facets)),
           NEW a \in QueryState, NEW b \in QueryState, CountsKept(a), Counts(a, b)
    PROVE  CountsKept(b)
<1> DEFINE selected == b.request.selected
<1>0. b.pc # "idle"
  BY DEF Counts
<1> SUFFICES ASSUME b.request.kind = "facets"
             PROVE  /\ There(b.total, selected)
                    /\ \A refinement \in b.refine :
                         There(refinement[2], Append(selected, refinement[1]))
                    /\ Cardinality(Chosen(selected)) < Len(selected) =>
                         b.total = 0 /\ b.refine = {}
  BY <1>0 DEF CountsKept
<1>1. selected \in Seq(FacetTags)
  BY SelectionTyped
<1>2. CASE a.pc = "idle"
  <2>1. b.total = 0 /\ b.refine = {}
    BY <1>2 DEF Counts, CountsKept
  <2> QED
    BY <2>1, CarriersFinite DEF There
<1>3. CASE a.pc # "idle"
  <2>1. b.request = a.request
    BY <1>3 DEF Counts
  <2>2. CASE b.total = a.total /\ b.refine = a.refine
    BY <2>1, <2>2 DEF CountsKept
  <2>3. CASE b.total = FilterTotal(db, selected) /\ b.refine = a.refine
    BY <1>1, <2>1, <2>3, TotalIsThere, TwiceIsNothing DEF CountsKept, TablesInv
  <2>4. CASE b.total = a.total /\ b.refine = Refinements(db, selected)
    BY <1>1, <2>1, <2>4, RefinementIsThere, TwiceIsNothing DEF CountsKept, TablesInv
  <2> QED
    BY <2>1, <2>2, <2>3, <2>4 DEF Counts
<1> QED
  BY <1>2, <1>3

LEMMA CountsStay ==
    ASSUME TablesInv(db), TablesInv(db'), OneDocEach(db), Grows \/ Empties \/ KeepsRows,
           NEW a \in QueryState, CountsKept(a), NEW b, b = a
    PROVE  CountsKept(b)'
<1>1. a.total \in Nat /\ \A refinement \in a.refine : refinement[2] \in Nat
  BY DEF QueryState
<1>2. There(a.total, a.request.selected) => There(a.total, a.request.selected)'
  BY <1>1, StaysThere
<1>3. ASSUME NEW refinement \in a.refine,
             There(refinement[2], Append(a.request.selected, refinement[1]))
      PROVE  There(refinement[2], Append(a.request.selected, refinement[1]))'
  BY <1>1, <1>3, StaysThere
<1> QED
  BY <1>2, <1>3 DEF CountsKept

CountsInv == \A q \in Readers : CountsKept(query[q])

\* What a filter counts is there to be found, its total and its refinements being two
\* SELECTs with writers in between, for any formulas and any selection: rows left in
\* facets are never counted for a formula that is not there, unless the index was
\* emptied, and a facet selected twice counts nothing.
THEOREM CountsAreOfFormulas ==
    ASSUME ContentlessDelete = FALSE
    PROVE  RWSpec => []CountsAreThere
<1>1. RWInit => CountsInv
  BY DEF RWInit, QueryInit, CountsInv, CountsKept, Nothing
<1>2. Inv /\ OnceInv /\ OnceInv' /\ FacetsFinite /\ LiveInv /\ ReaderInv /\ CountsInv
        /\ [RWNext]_rwVars => CountsInv'
  <2> SUFFICES ASSUME Inv, OnceInv, OnceInv', FacetsFinite, LiveInv, ReaderInv, CountsInv,
                      [RWNext]_rwVars, NEW q \in Readers
               PROVE  CountsKept(query[q])'
    BY DEF CountsInv
  <2>1. query[q] \in QueryState /\ query'[q] \in QueryState /\ CountsKept(query[q])
    BY ReadersStep DEF ReaderInv, CountsInv
  <2>2. CASE query'[q] = query[q]
    <3>1. Grows \/ Empties \/ KeepsRows
      BY RWOnceStep
    <3>2. TablesInv(db) /\ TablesInv(db') /\ OneDocEach(db)
      BY DEF OnceInv, TablesAgree
    <3> QED
      BY <2>1, <2>2, <3>1, <3>2, CountsStay
  <2>3. CASE Counts(query[q], query'[q]) /\ UNCHANGED <<db, txn, lock>>
    <3>1. CountsKept(query'[q])
      BY <2>1, <2>3, CountsStep DEF OnceInv, TablesAgree, LiveInv, FacetsFinite
    <3> QED
      BY <2>3, <3>1 DEF CountsKept, There, Carriers
  <2> QED
    BY <2>2, <2>3, ReaderCounts
<1>3. CountsInv => CountsAreThere
  BY DEF CountsInv, CountsKept, CountsAreThere, There, Emptied, Wedged
<1> QED
  BY <1>1, <1>2, <1>3, RWInvariance, RWOnceInvariance, FacetsFiniteInvariance,
     LiveInvariance, ReaderInvariance, PTL DEF RWSpec

-----------------------------------------------------------------------------
(***************************************************************************)
(* What is found in the store as it is declared, where a formula is        *)
(* written once.                                                           *)
(***************************************************************************)

\* A formula that was found is still there, or the index was emptied since.
Kept(r) == r \in db.formulas \/ Wedged(db)

LEMMA FoundStaysKept ==
    ASSUME OnceInv, Grows \/ Empties \/ KeepsRows, NEW r, Kept(r)
    PROVE  Kept(r)'
<1>1. CASE Grows
  BY <1>1 DEF Grows, Kept
<1>2. CASE Empties
  BY <1>2 DEF Empties, Kept, Wedged, OnceInv, OneDocEach, Ids
<1>3. CASE KeepsRows
  BY <1>3 DEF KeepsRows, Kept, Wedged
<1> QED
  BY <1>1, <1>2, <1>3

\* A result is about a formula that is kept, and what it shows of each side of its
\* entry is stored there.
KeepsText(x) ==
    /\ x.identity[x.formula.side] \in {x.formula.text, Blank}
    /\ \A s \in Sides :
         \/ x.identity[s] = Blank
         \/ \E r \in Conflicting(db, x.formula.entry, s) : r.text = x.identity[s]
         \/ Wedged(db)

LEMMA TextsStayKept ==
    ASSUME OnceInv, Grows \/ Empties \/ KeepsRows, NEW x, KeepsText(x)
    PROVE  KeepsText(x)'
<1>1. Wedged(db) => Wedged(db')
  BY DEF Grows, Empties, KeepsRows, Wedged
<1>2. ASSUME NEW s, NEW r \in Conflicting(db, x.formula.entry, s)
      PROVE  r \in Conflicting(db', x.formula.entry, s) \/ Wedged(db')
  BY <1>2 DEF Grows, Empties, KeepsRows, Wedged, Conflicting, OnceInv, OneDocEach, Ids
<1> QED
  BY <1>1, <1>2 DEF KeepsText

HitsKept(a) ==
    /\ \A x \in a.found \cup a.shown \cup a.exact : Kept(x.formula)
    /\ \A x \in a.shown \cup a.exact : KeepsText(x)

LEMMA CollapsedKept ==
    ASSUME NEW rows \in SUBSET db.formulas, NEW firsts \in SUBSET rows,
           NEW x \in Collapsed(firsts, rows)
    PROVE  Kept(x.formula) /\ x.formula \in rows
BY DEF Collapsed, Kept

\* Reading the identity of a formula that is kept.
LEMMA FilledKeepsText ==
    ASSUME TablesInv(db), NEW x \in Result, Kept(x.formula),
           NEW identity \in SidesRead(db, x.formula.entry)
    PROVE  /\ [x EXCEPT !.identity = identity].formula = x.formula
           /\ KeepsText([x EXCEPT !.identity = identity])
<1> DEFINE r == x.formula
           filled == [x EXCEPT !.identity = identity]
<1>1. filled.formula = r /\ filled.identity = identity /\ r \in Row /\ r.side \in Sides
  BY DEF Result, Row
<1>2. ASSUME NEW s \in Sides
      PROVE  /\ identity[s] \in {EntrySides(db, r.entry)[s], Blank}
             /\ \/ identity[s] = Blank
                \/ \E row \in Conflicting(db, r.entry, s) : row.text = identity[s]
  <2>1. PICK read \in SUBSET Sides :
           identity = [side \in Sides |->
                         IF side \in read THEN EntrySides(db, r.entry)[side] ELSE Blank]
    BY DEF SidesRead
  <2>2. identity[s] \in {EntrySides(db, r.entry)[s], Blank}
    BY <2>1
  <2>3. CASE Conflicting(db, r.entry, s) = {}
    <3>1. EntrySides(db, r.entry)[s] = Blank
      BY <2>3 DEF EntrySides
    <3> QED
      BY <2>2, <3>1
  <2>4. CASE Conflicting(db, r.entry, s) # {}
    <3>1. PICK row \in Conflicting(db, r.entry, s) : EntrySides(db, r.entry)[s] = row.text
      BY <2>4 DEF EntrySides
    <3> QED
      BY <2>2, <3>1
  <2> QED
    BY <2>2, <2>3, <2>4
<1>3. identity[r.side] \in {r.text, Blank}
  <2>1. CASE r \in db.formulas
    <3>1. Conflicting(db, r.entry, r.side) = {r}
      BY <2>1 DEF Conflicting, TablesInv, UniqueKeys
    <3>2. EntrySides(db, r.entry)[r.side] = r.text
      BY <1>1, <3>1 DEF EntrySides
    <3> QED
      BY <1>1, <1>2, <3>2
  <2>2. CASE Wedged(db)
    <3>1. Conflicting(db, r.entry, r.side) = {}
      BY <2>2 DEF Wedged, Conflicting
    <3> QED
      BY <1>1, <1>2, <3>1
  <2> QED
    BY <2>1, <2>2 DEF Kept
<1> QED
  BY <1>1, <1>2, <1>3 DEF KeepsText

LEMMA HitsKeptStep ==
    ASSUME TablesInv(db), NEW a \in QueryState, NEW b \in QueryState, ReaderControl(a),
           HitsKept(a), ReaderStep(a, b)
    PROVE  HitsKept(b)
<1> USE DEF HitsKept, Changes, Lists
<1>1. CASE Asks(a, b) \/ Moves(a, b) \/ TakesExact(a, b) \/ Shared(a, b) \/ Looks(a, b)
  BY <1>1 DEF Asks, Moves, TakesExact, Shared, Looks
<1>2. CASE FindsExact(a, b)
  <2> DEFINE rows == SameSignature(db, a.request.canonical)
  <2>1. PICK firsts \in Firsts(rows) : b.found = Collapsed(firsts, rows)
    BY <1>2 DEF FindsExact
  <2>2. rows \subseteq db.formulas /\ firsts \subseteq rows
    BY DEF SameSignature, Firsts
  <2>3. b.shown = a.shown /\ b.exact = a.exact
    BY <1>2 DEF FindsExact
  <2> QED
    BY <2>1, <2>2, <2>3, CollapsedKept
<1>3. CASE FindsFuzzy(a, b)
  <2>1. PICK pool \in UpTo(PoolSize, Candidates(db, a.request.canonical)) :
           \E firsts \in Firsts(pool) : \E few \in UpTo(FuzzyLimit, firsts) :
             b.found = Collapsed(few, pool)
    BY <1>3 DEF FindsFuzzy
  <2>2. PICK few : b.found = Collapsed(few, pool) /\ few \subseteq pool
    BY <2>1 DEF Firsts, UpTo
  <2>3. pool \subseteq db.formulas
    BY DEF UpTo, Candidates
  <2>4. b.shown = a.shown /\ b.exact = a.exact
    BY <1>3 DEF FindsFuzzy
  <2> QED
    BY <2>2, <2>3, <2>4, CollapsedKept
<1>4. CASE FindsList(a, b)
  <2> DEFINE rows == FilterList(db, a.request.selected)
  <2>1. PICK firsts \in Firsts(rows) : b.found = Collapsed(firsts, rows)
    BY <1>4 DEF FindsList
  <2>2. rows \subseteq db.formulas /\ firsts \subseteq rows
    BY DEF FilterList, Firsts
  <2>3. b.shown = a.shown /\ b.exact = a.exact
    BY <1>4 DEF FindsList
  <2> QED
    BY <2>1, <2>2, <2>3, CollapsedKept
<1>5. CASE Fills(a, b)
  <2>1. PICK x \in a.found :
           \E identity \in SidesRead(db, x.formula.entry) :
             /\ b.found = a.found \ {x}
             /\ b.shown = a.shown \cup {[x EXCEPT !.identity = identity]}
    BY <1>5 DEF Fills
  <2>2. PICK identity \in SidesRead(db, x.formula.entry) :
             b.shown = a.shown \cup {[x EXCEPT !.identity = identity]}
    BY <2>1
  <2> DEFINE filled == [x EXCEPT !.identity = identity]
  <2>3. x \in Result /\ Kept(x.formula)
    BY DEF QueryState
  <2>4. filled.formula = x.formula /\ KeepsText(filled)
    BY <2>3, FilledKeepsText
  <2>5. b.found \subseteq a.found /\ b.shown = a.shown \cup {filled} /\ b.exact = a.exact
    BY <1>5, <2>1, <2>2 DEF Fills
  <2> HIDE DEF filled
  <2> QED
    BY <2>3, <2>4, <2>5
<1> QED
  BY <1>1, <1>2, <1>3, <1>4, <1>5 DEF ReaderStep

HitsInv == \A q \in Readers : HitsKept(query[q])

LEMMA HitsInvariance ==
    ASSUME ContentlessDelete = FALSE
    PROVE  RWSpec => []HitsInv
<1>1. RWInit => HitsInv
  BY DEF RWInit, QueryInit, HitsInv, HitsKept
<1>2. Inv /\ OnceInv /\ FacetsFinite /\ ReaderInv /\ HitsInv /\ [RWNext]_rwVars => HitsInv'
  <2> SUFFICES ASSUME Inv, OnceInv, FacetsFinite, ReaderInv, HitsInv, [RWNext]_rwVars,
                      NEW q \in Readers
               PROVE  HitsKept(query[q])'
    BY DEF HitsInv
  <2>1. HitsKept(query[q]) /\ query[q] \in QueryState /\ query'[q] \in QueryState
        /\ ReaderControl(query[q])
    BY ReadersStep DEF HitsInv, ReaderInv
  <2>2. CASE query'[q] = query[q]
    <3>1. \A r : Kept(r) => Kept(r)'
      BY RWOnceStep, FoundStaysKept
    <3>2. \A x : KeepsText(x) => KeepsText(x)'
      BY RWOnceStep, TextsStayKept
    <3> QED
      BY <2>1, <2>2, <3>1, <3>2 DEF HitsKept
  <2>3. CASE ReaderStep(query[q], query'[q]) /\ UNCHANGED <<db, txn, lock>>
    <3>1. HitsKept(query'[q])
      BY <2>1, <2>3, HitsKeptStep DEF OnceInv, TablesAgree
    <3> QED
      BY <2>3, <3>1 DEF HitsKept, KeepsText, Kept
  <2> QED
    BY <2>2, <2>3, ReadersStep
<1> QED
  BY <1>1, <1>2, RWInvariance, RWOnceInvariance, FacetsFiniteInvariance,
     ReaderInvariance, PTL DEF RWSpec

\* What is shown of the identity of a hit, read in a SELECT after the one that found
\* it, stands on its side of the entry of the hit, and its own side reads as it did:
\* whichever rows could not be read, and though an id may be given to another formula
\* in between.
THEOREM IdentityIsOfTheHit ==
    ASSUME ContentlessDelete = FALSE
    PROVE  RWSpec => []IdentityShowsHit
<1>1. HitsInv => IdentityShowsHit
  BY DEF HitsInv, HitsKept, KeepsText, IdentityShowsHit, Emptied, Wedged
<1> QED
  BY <1>1, HitsInvariance, PTL

-----------------------------------------------------------------------------
(***************************************************************************)
(* The dedup report.                                                       *)
(***************************************************************************)

\* A signature still to be looked up is shared, and a group that was looked up
\* is of several entries, or the index was emptied.
GroupsShared(a) ==
    /\ \A c \in a.todo : Cardinality(EntriesWith(db, c)) > 1 \/ Wedged(db)
    /\ \A g \in a.groups : Spans(g.occurrences) > 1 \/ (g.occurrences = {} /\ Wedged(db))

LEMMA GroupsStayShared ==
    ASSUME OnceInv, OnceInv', Grows \/ Empties \/ KeepsRows, NEW a, GroupsShared(a),
           NEW b, b = a
    PROVE  GroupsShared(b)'
<1>0. TablesInv(db) /\ TablesInv(db')
  BY DEF OnceInv, TablesAgree
<1>1. Wedged(db) => Wedged(db')
  BY DEF Grows, Empties, KeepsRows, Wedged
<1>2. ASSUME NEW c, Cardinality(EntriesWith(db, c)) > 1
      PROVE  Cardinality(EntriesWith(db', c)) > 1 \/ Wedged(db')
  <2>1. CASE db.formulas \subseteq db'.formulas
    BY <1>0, <1>2, <2>1, MoreEntriesShare
  <2>2. CASE Empties
    <3>1. EntriesWith(db, c) # {}
      BY <1>2, FS_EmptySet
    <3>2. db.formulas # {}
      BY <3>1 DEF EntriesWith, SameSignature
    <3> QED
      BY <2>2, <3>2 DEF Empties, Wedged, OnceInv, OneDocEach, Ids
  <2> QED
    BY <2>1, <2>2 DEF Grows, KeepsRows
<1> QED
  BY <1>1, <1>2 DEF GroupsShared

LEMMA GroupsStep ==
    ASSUME NEW a \in QueryState, NEW b \in QueryState, ReaderControl(a), GroupsShared(a),
           ReaderStep(a, b)
    PROVE  GroupsShared(b)
<1> USE DEF GroupsShared, Changes, Lists
<1>1. CASE \/ Asks(a, b) \/ Moves(a, b) \/ FindsExact(a, b) \/ FindsFuzzy(a, b)
           \/ FindsList(a, b) \/ Fills(a, b) \/ TakesExact(a, b)
  BY <1>1 DEF Asks, Moves, FindsExact, FindsFuzzy, FindsList, Fills, TakesExact
<1>2. CASE Shared(a, b)
  BY <1>2 DEF Shared, SharedSignatures
<1>3. CASE Looks(a, b)
  <2>1. PICK c \in a.todo :
           /\ b.todo = a.todo \ {c}
           /\ b.groups = a.groups
                \cup {[signature |-> c, occurrences |-> SameSignature(db, c)]}
    BY <1>3 DEF Looks
  <2>2. CASE Cardinality(EntriesWith(db, c)) > 1
    <3>1. Spans(SameSignature(db, c)) > 1
      BY <2>2 DEF Spans, EntriesWith
    <3> QED
      BY <2>1, <3>1
  <2>3. CASE Wedged(db)
    <3>1. SameSignature(db, c) = {}
      BY <2>3 DEF Wedged, SameSignature
    <3> QED
      BY <2>1, <2>3, <3>1
  <2> QED
    BY <2>2, <2>3
<1> QED
  BY <1>1, <1>2, <1>3 DEF ReaderStep

GroupsInv == \A q \in Readers : GroupsShared(query[q])

\* A group of the dedup report, made of two SELECTs with writers in between, has
\* several entries in it, or is empty because the index was emptied.
THEOREM GroupsAreWholeOrGone ==
    ASSUME ContentlessDelete = FALSE
    PROVE  RWSpec => []GroupsWholeOrGone
<1>1. RWInit => GroupsInv
  BY DEF RWInit, QueryInit, GroupsInv, GroupsShared
<1>2. Inv /\ OnceInv /\ FacetsFinite /\ ReaderInv /\ GroupsInv /\ [RWNext]_rwVars
        => GroupsInv'
  <2> SUFFICES ASSUME Inv, OnceInv, FacetsFinite, ReaderInv, GroupsInv, [RWNext]_rwVars,
                      NEW q \in Readers
               PROVE  GroupsShared(query[q])'
    BY DEF GroupsInv
  <2>1. GroupsShared(query[q]) /\ query[q] \in QueryState /\ query'[q] \in QueryState
        /\ ReaderControl(query[q])
    BY ReadersStep DEF GroupsInv, ReaderInv
  <2>2. CASE query'[q] = query[q]
    <3>1. OnceInv' /\ (Grows \/ Empties \/ KeepsRows)
      BY RWOnceStep
    <3> QED
      BY <2>1, <2>2, <3>1, GroupsStayShared
  <2>3. CASE ReaderStep(query[q], query'[q]) /\ UNCHANGED <<db, txn, lock>>
    <3>1. GroupsShared(query'[q])
      BY <2>1, <2>3, GroupsStep
    <3> QED
      BY <2>3, <3>1 DEF GroupsShared
  <2> QED
    BY <2>2, <2>3, ReadersStep
<1>3. GroupsInv => GroupsWholeOrGone
  BY DEF GroupsInv, GroupsShared, GroupsWholeOrGone, Emptied, Wedged
<1> QED
  BY <1>1, <1>2, <1>3, RWInvariance, RWOnceInvariance, FacetsFiniteInvariance,
     ReaderInvariance, PTL DEF RWSpec

-----------------------------------------------------------------------------
(***************************************************************************)
(* Exact results and fuzzy results of one answer.                          *)
(***************************************************************************)

\* The exact results are about the formula searched for.
ExactSound(a) ==
    /\ a.pc \in {"exact", "fuzzy"} => a.found = {} /\ a.shown = {}
    /\ \A x \in a.exact : x.formula.canonical = a.request.canonical
    /\ a.pc = "exactIds" => \A x \in a.found \cup a.shown :
                               x.formula.canonical = a.request.canonical

\* What may become of a formula the exact SELECT found by the time of the fuzzy
\* one, and after it.
Outnumbered(c) == Cardinality(Candidates(db, c)) > PoolSize

\* The forms of a set of results.
FormsOf(results) == {x.formula.canonical : x \in results}

\* c is listed, or the list is full of others that are as similar.
Listed(c, forms) ==
    \/ c \in forms
    \/ /\ Cardinality(forms) = FuzzyLimit
       /\ \A other \in forms : Score[c][other] = Score[c][c]

FuzzyShowsExact(a) ==
    a.request.kind = "search" /\ a.pc \in {"ids", "done"} /\ a.exact # {} =>
        \/ Listed(a.request.canonical, FormsOf(a.found \cup a.shown))
        \/ Shares[a.request.canonical] = {}
        \/ Wedged(db)
        \/ Outnumbered(a.request.canonical)

LEMMA ExactSoundStep ==
    ASSUME NEW a \in QueryState, NEW b \in QueryState, ReaderControl(a), ExactSound(a),
           ReaderStep(a, b)
    PROVE  ExactSound(b)
<1> USE DEF ExactSound, Changes, Lists
<1>1. CASE \/ Asks(a, b) \/ Moves(a, b)  \/ FindsFuzzy(a, b) \/ FindsList(a, b)
           \/ Shared(a, b) \/ Looks(a, b)
  BY <1>1, FirstSelectTyped DEF Asks, Moves, FindsFuzzy, FindsList, Shared, Looks,
                                ReaderControl
<1>2. CASE FindsExact(a, b)
  <2>1. PICK firsts \in Firsts(SameSignature(db, a.request.canonical)) :
           b.found = Collapsed(firsts, SameSignature(db, a.request.canonical))
    BY <1>2 DEF FindsExact
  <2>2. \A x \in b.found : x.formula.canonical = a.request.canonical
    BY <2>1 DEF Collapsed, Firsts, SameSignature
  <2> QED
    BY <1>2, <2>2 DEF FindsExact
<1>3. CASE Fills(a, b)
  <2>1. PICK x \in a.found : \E identity :
           /\ b.found = a.found \ {x}
           /\ b.shown = a.shown \cup {[x EXCEPT !.identity = identity]}
    BY <1>3 DEF Fills
  <2>2. PICK identity : b.shown = a.shown \cup {[x EXCEPT !.identity = identity]}
    BY <2>1
  <2> DEFINE filled == [x EXCEPT !.identity = identity]
  <2>3. filled.formula = x.formula
    BY DEF QueryState, Result
  <2>4. /\ b.pc = a.pc /\ b.request = a.request /\ b.exact = a.exact
        /\ b.found = a.found \ {x} /\ b.shown = a.shown \cup {filled}
    BY <1>3, <2>1, <2>2 DEF Fills
  <2>5. a.pc \notin {"exact", "fuzzy"}
    BY <1>3 DEF Fills
  <2> HIDE DEF filled
  <2> QED
    BY <2>3, <2>4, <2>5
<1>4. CASE TakesExact(a, b)
  BY <1>4 DEF TakesExact
<1> QED
  BY <1>1, <1>2, <1>3, <1>4 DEF ReaderStep

\* The fuzzy SELECT finds the formula an exact result is about.
LEMMA FuzzyFindsExact ==
    ASSUME TablesInv(db), CompleteDocs(db),
           NEW c \in Canonicals, Shares[c] # {}, NEW r \in db.formulas, r.canonical = c,
           Cardinality(Candidates(db, c)) <= PoolSize,
           NEW pool \in UpTo(PoolSize, Candidates(db, c)),
           NEW firsts \in Firsts(pool), NEW few \in UpTo(FuzzyLimit, firsts),
           Best(few, firsts, c)
    PROVE  Listed(c, FormsOf(Collapsed(few, pool)))
<1>1. Candidates(db, c) \subseteq db.formulas /\ r \in Candidates(db, c)
  BY CandidatesOf, QueryAssumption DEF TablesInv
<1>2. IsFiniteSet(Candidates(db, c))
  BY <1>1, FormulasFinite, FS_Subset
<1>3. pool = Candidates(db, c)
  BY <1>2, PoolSizeTyped, UpToIsAllOrFull
<1>4. pool \subseteq Row /\ IsFiniteSet(pool)
  BY <1>1, <1>2, <1>3 DEF TablesInv, Tables
<1>5. \/ \E x \in few : x.canonical = c
      \/ /\ Cardinality({x.canonical : x \in few}) = FuzzyLimit
         /\ \A x \in few : Score[c][x.canonical] = Score[c][c]
  BY <1>1, <1>3, <1>4, BestKeepsExact
<1>6. FormsOf(Collapsed(few, pool)) = {x.canonical : x \in few}
  <2> DEFINE hit(x) == [formula |-> x,
                        occurrences |-> SameSignature([formulas |-> pool], x.canonical),
                        identity |-> NoIdentity]
  <2>1. \A x : hit(x).formula = x
    OBVIOUS
  <2>2. Collapsed(few, pool) = {hit(x) : x \in few}
    BY DEF Collapsed
  <2> HIDE DEF hit
  <2>3. FormsOf({hit(x) : x \in few}) = {hit(x).formula.canonical : x \in few}
    BY DEF FormsOf
  <2>4. {hit(x).formula.canonical : x \in few} = {x.canonical : x \in few}
    BY <2>1
  <2> QED
    BY <2>2, <2>3, <2>4
<1> QED
  BY <1>5, <1>6 DEF Listed

LEMMA FuzzyStep ==
    ASSUME OnceInv, NEW a \in QueryState, NEW b \in QueryState,
           ReaderControl(a), ExactSound(a), HitsKept(a), FuzzyShowsExact(a),
           ReaderStep(a, b)
    PROVE  FuzzyShowsExact(b)
<1> USE DEF FuzzyShowsExact, Changes, Lists
<1>0. TablesInv(db) /\ CompleteDocs(db)
  BY DEF OnceInv, TablesAgree, OneDocEach, CompleteDocs, Ids
<1>1. CASE Asks(a, b) \/ FindsExact(a, b) \/ TakesExact(a, b) \/ Shared(a, b) \/ Looks(a, b)
  BY <1>1, FirstSelectTyped DEF Asks, FindsExact, TakesExact, Shared, Looks
<1>2. CASE Moves(a, b)
  BY <1>2, FirstSelectTyped DEF Moves, ReaderControl
<1>3. CASE FindsList(a, b)
  BY <1>3 DEF FindsList, ReaderControl
<1>4. CASE FindsFuzzy(a, b)
  <2> DEFINE c == a.request.canonical
  <2>0. a.shown = {} /\ b.shown = {} /\ b.exact = a.exact /\ b.request = a.request
    BY <1>4 DEF FindsFuzzy, ExactSound
  <2> SUFFICES ASSUME a.exact # {}, Shares[c] # {}, ~Wedged(db), ~Outnumbered(c)
               PROVE  Listed(c, FormsOf(b.found))
    BY <2>0
  <2>1. PICK hit \in a.exact : TRUE
    OBVIOUS
  <2>2. hit.formula.canonical = c /\ hit.formula \in db.formulas
    BY <2>1 DEF ExactSound, HitsKept, Kept
  <2>3. c \in Canonicals
    BY <1>0, <2>2 DEF TablesInv, Tables, Row
  <2>4. Cardinality(Candidates(db, c)) <= PoolSize
    <3>1. Candidates(db, c) \subseteq db.formulas
      BY DEF Candidates
    <3>2. Cardinality(Candidates(db, c)) \in Nat
      BY <1>0, <3>1, FormulasFinite, FS_Subset, FS_CardinalityType
    <3> QED
      BY <3>2, PoolSizeTyped DEF Outnumbered
  <2>5. PICK pool \in UpTo(PoolSize, Candidates(db, c)) :
           \E firsts \in Firsts(pool) : \E few \in UpTo(FuzzyLimit, firsts) :
             Best(few, firsts, c) /\ b.found = Collapsed(few, pool)
    BY <1>4 DEF FindsFuzzy
  <2>6. PICK firsts \in Firsts(pool) : \E few \in UpTo(FuzzyLimit, firsts) :
             Best(few, firsts, c) /\ b.found = Collapsed(few, pool)
    BY <2>5
  <2>7. PICK few \in UpTo(FuzzyLimit, firsts) :
             Best(few, firsts, c) /\ b.found = Collapsed(few, pool)
    BY <2>6
  <2> HIDE DEF c
  <2> QED
    BY <1>0, <2>2, <2>3, <2>4, <2>7, FuzzyFindsExact
<1>5. CASE Fills(a, b)
  <2>1. PICK x \in a.found : \E identity :
           /\ b.found = a.found \ {x}
           /\ b.shown = a.shown \cup {[x EXCEPT !.identity = identity]}
    BY <1>5 DEF Fills
  <2>2. PICK identity : b.shown = a.shown \cup {[x EXCEPT !.identity = identity]}
    BY <2>1
  <2> DEFINE filled == [x EXCEPT !.identity = identity]
  <2>3. filled.formula = x.formula
    BY DEF QueryState, Result
  <2>4. /\ b.pc = a.pc /\ b.request = a.request /\ b.exact = a.exact
        /\ b.found = a.found \ {x} /\ b.shown = a.shown \cup {filled}
    BY <1>5, <2>1, <2>2 DEF Fills
  <2> HIDE DEF filled
  <2>5. FormsOf(b.found \cup b.shown) = FormsOf(a.found \cup a.shown)
    BY <2>3, <2>4 DEF FormsOf
  <2> QED
    BY <2>4, <2>5
<1> QED
  BY <1>1, <1>2, <1>3, <1>4, <1>5 DEF ReaderStep

\* More candidates than the pool holds stay so, or the index is emptied.
LEMMA OutnumberedStays ==
    ASSUME OnceInv, OnceInv', Grows \/ Empties \/ KeepsRows, NEW c, Outnumbered(c)
    PROVE  Outnumbered(c)' \/ Wedged(db')
<1>0. /\ TablesInv(db) /\ CompleteDocs(db)
      /\ TablesInv(db') /\ CompleteDocs(db')
  BY DEF OnceInv, TablesAgree, OneDocEach, CompleteDocs, Ids
<1>1. /\ Candidates(db, c) = {r \in db.formulas : r.canonical \in Shares[c]}
      /\ Candidates(db', c) = {r \in db'.formulas : r.canonical \in Shares[c]}
  BY <1>0, CandidatesOf DEF TablesInv
<1>2. CASE db.formulas \subseteq db'.formulas
  <2>1. Candidates(db, c) \subseteq Candidates(db', c)
    BY <1>1, <1>2
  <2>2. IsFiniteSet(Candidates(db', c)) /\ IsFiniteSet(Candidates(db, c))
    BY <1>0, <1>1, FormulasFinite, FS_Subset
  <2>3. Cardinality(Candidates(db, c)) <= Cardinality(Candidates(db', c))
    BY <2>1, <2>2, FS_Subset
  <2> QED
    BY <2>2, <2>3, PoolSizeTyped, FS_CardinalityType DEF Outnumbered
<1>3. CASE Empties
  <2>1. Candidates(db, c) # {}
    BY FS_EmptySet, PoolSizeTyped DEF Outnumbered
  <2>2. db.formulas # {}
    BY <2>1 DEF Candidates
  <2> QED
    BY <1>3, <2>2 DEF Empties, Wedged, OnceInv, OneDocEach, Ids
<1> QED
  BY <1>2, <1>3 DEF Grows, KeepsRows

LEMMA FuzzyStaysShown ==
    ASSUME OnceInv, OnceInv', Grows \/ Empties \/ KeepsRows, NEW a, FuzzyShowsExact(a),
           NEW b, b = a
    PROVE  FuzzyShowsExact(b)'
<1>1. Wedged(db) => Wedged(db')
  BY DEF Grows, Empties, KeepsRows, Wedged
<1>2. Outnumbered(a.request.canonical) => Outnumbered(a.request.canonical)' \/ Wedged(db')
  BY OutnumberedStays
<1> QED
  BY <1>1, <1>2 DEF FuzzyShowsExact

AnswersInv == \A q \in Readers : ExactSound(query[q]) /\ FuzzyShowsExact(query[q])

\* What exact search found is among the fuzzy results of the same answer, although
\* the two are separate SELECTs with writers in between and the second one ranks
\* and cuts a pool: unless it has no tokens, or a list full of others no less similar
\* to it, or more candidates than the pool holds, or the index was emptied.
THEOREM ExactIsAlsoFuzzy ==
    ASSUME ContentlessDelete = FALSE
    PROVE  RWSpec => []ExactAlsoFuzzy
<1>1. RWInit => AnswersInv
  BY DEF RWInit, QueryInit, AnswersInv, ExactSound, FuzzyShowsExact
<1>2. Inv /\ OnceInv /\ FacetsFinite /\ ReaderInv /\ HitsInv /\ AnswersInv /\ [RWNext]_rwVars
        => AnswersInv'
  <2> SUFFICES ASSUME Inv, OnceInv, FacetsFinite, ReaderInv, HitsInv, AnswersInv,
                      [RWNext]_rwVars, NEW q \in Readers
               PROVE  ExactSound(query'[q]) /\ FuzzyShowsExact(query[q])'
    BY DEF AnswersInv, ExactSound
  <2>1. /\ query[q] \in QueryState /\ query'[q] \in QueryState
        /\ ReaderControl(query[q]) /\ HitsKept(query[q])
        /\ ExactSound(query[q]) /\ FuzzyShowsExact(query[q])
    BY ReadersStep DEF AnswersInv, HitsInv, ReaderInv
  <2>2. CASE query'[q] = query[q]
    <3>1. OnceInv' /\ (Grows \/ Empties \/ KeepsRows)
      BY RWOnceStep
    <3> QED
      BY <2>1, <2>2, <3>1, FuzzyStaysShown
  <2>3. CASE ReaderStep(query[q], query'[q]) /\ UNCHANGED <<db, txn, lock>>
    <3>1. ExactSound(query'[q]) /\ FuzzyShowsExact(query'[q])
      BY <2>1, <2>3, ExactSoundStep, FuzzyStep
    <3> QED
      BY <2>3, <3>1 DEF FuzzyShowsExact, Outnumbered
  <2> QED
    BY <2>2, <2>3, ReadersStep
<1>3. AnswersInv /\ ReaderInv => ExactAlsoFuzzy
  <2> SUFFICES ASSUME AnswersInv, ReaderInv, NEW q \in Readers, query[q].request.kind = "search",
                      query[q].pc = "done", query[q].exact # {}
               PROVE  LET c == query[q].request.canonical
                          listed == FormsOf(query[q].shown)
                      IN
                      \/ c \in listed
                      \/ Shares[c] = {}
                      \/ /\ Cardinality(listed) = FuzzyLimit
                         /\ \A other \in listed : Score[c][other] = Score[c][c]
                      \/ Cardinality(Candidates(db, c)) > PoolSize
                      \/ Emptied
    BY DEF ExactAlsoFuzzy, FormsOf
  <2>1. FuzzyShowsExact(query[q]) /\ query[q].found = {}
    BY DEF AnswersInv, ReaderInv, ReaderControl
  <2> QED
    BY <2>1 DEF FuzzyShowsExact, Listed, Outnumbered, Emptied, Wedged
<1> QED
  BY <1>1, <1>2, <1>3, RWInvariance, RWOnceInvariance, FacetsFiniteInvariance,
     ReaderInvariance, HitsInvariance, PTL DEF RWSpec

=============================================================================
