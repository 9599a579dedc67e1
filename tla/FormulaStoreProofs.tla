------------------------- MODULE FormulaStoreProofs -------------------------
(***************************************************************************)
(* What one upsert does to the tables, for every engine, corpus and size.  *)
(***************************************************************************)
EXTENDS FormulaStore, TLAPS

\* Ids are given out without gaps, and only ever taken back all at once.
Dense(d) == \E n \in Nat : Ids(d.formulas) = 1..n

TablesInv(d) ==
    /\ d \in Tables
    /\ Dense(d)
    /\ UniqueKeys(d)
    /\ SoundDocs(d)
    /\ SoundFacets(d)

LEMMA MaxOfInterval ==
    ASSUME NEW n \in Nat
    PROVE  Max({0} \cup 1..n) = n
<1> DEFINE S == {0} \cup 1..n
<1>1. n \in S /\ \A y \in S : n >= y
  OBVIOUS
<1>2. \A x \in S : (\A y \in S : x >= y) => x = n
  BY <1>1
<1> QED
  BY <1>1, <1>2 DEF Max

\* The next id is one more than the number of rows.
LEMMA NewRowIdOfDense ==
    ASSUME NEW d, NEW n \in Nat, Ids(d.formulas) = 1..n
    PROVE  NewRowId(d) = n + 1
BY MaxOfInterval DEF NewRowId

\* An upsert either takes an id no formula has, or that of the one formula it
\* replaces.
LEMMA UpsertIdCases ==
    ASSUME NEW d, TablesInv(d), NEW e \in EntryIds, NEW s \in Sides
    PROVE  /\ UpsertId(d, e, s) \in RowIds
           /\ \/ /\ Conflicting(d, e, s) = {}
                 /\ UpsertId(d, e, s) \notin Ids(d.formulas)
                 /\ \E n \in Nat : /\ Ids(d.formulas) = 1..n
                                  /\ UpsertId(d, e, s) = n + 1
              \/ \E r \in d.formulas : /\ Conflicting(d, e, s) = {r}
                                       /\ UpsertId(d, e, s) = r.id
<1>1. CASE Conflicting(d, e, s) = {}
  <2>1. PICK n \in Nat : Ids(d.formulas) = 1..n
    BY DEF TablesInv, Dense
  <2>2. UpsertId(d, e, s) = n + 1
    BY <1>1, <2>1, NewRowIdOfDense DEF UpsertId
  <2> QED
    BY <1>1, <2>1, <2>2 DEF RowIds
<1>2. CASE Conflicting(d, e, s) # {}
  <2>1. PICK r \in Conflicting(d, e, s) : TRUE
    BY <1>2
  <2>2. Conflicting(d, e, s) = {r}
    BY <2>1 DEF Conflicting, TablesInv, UniqueKeys
  <2>3. UpsertId(d, e, s) = r.id
    BY <2>2 DEF UpsertId
  <2>4. r \in d.formulas /\ r.id \in RowIds
    BY <2>1 DEF Conflicting, TablesInv, Tables, Row
  <2> QED
    BY <2>2, <2>3, <2>4
<1> QED
  BY <1>1, <1>2

\* Upserting keeps the ids dense, the keys unique, and every document and tag
\* under the id of a formula about that formula, even when the id was that of
\* a formula deleted earlier whose documents and tags are still there.
LEMMA UpsertKeepsTablesInv ==
    ASSUME NEW d, TablesInv(d), NEW e \in EntryIds, NEW s \in Sides,
           NEW t \in Texts, NEW c \in Canonicals
    PROVE  TablesInv(Upserted(d, e, s, t, c))
<1> DEFINE id == UpsertId(d, e, s)
           new == [id |-> id, entry |-> e, side |-> s, text |-> t, canonical |-> c]
           old == Conflicting(d, e, s)
           u == Upserted(d, e, s, t, c)
<1>1. /\ u.formulas = (d.formulas \ old) \cup {new}
      /\ u.fts = {f \in d.fts : f.id # id} \cup {[id |-> id, doc |-> c]}
      /\ u.facets = {x \in d.facets : x.id # id}
                        \cup {[id |-> id, facet |-> tag] : tag \in FacetsOf[c]}
  BY DEF Upserted, FacetsAfter
<1>2. id \in RowIds
  BY UpsertIdCases
<1>3. \A r \in d.formulas \ old : r.id # id /\ ~(r.entry = e /\ r.side = s)
  BY UpsertIdCases DEF Conflicting, Ids, TablesInv, UniqueKeys
<1> HIDE DEF id, new, old, u
<1>4. u \in Tables
  <2>1. new \in Row
    BY <1>2 DEF new, Row
  <2>2. u.formulas \subseteq Row
    BY <1>1, <2>1 DEF TablesInv, Tables
  <2>3. u.fts \subseteq FtsRow
    BY <1>1, <1>2 DEF TablesInv, Tables, FtsRow
  <2>4. FacetsOf[c] \subseteq FacetTags
    BY StoreAssumption
  <2>5. u.facets \subseteq FacetRow
    BY <1>1, <1>2, <2>4 DEF TablesInv, Tables, FacetRow
  <2> QED
    BY <2>2, <2>3, <2>5 DEF u, Upserted, Tables
<1>5. Dense(u)
  <2>1. Ids(u.formulas) = Ids(d.formulas) \cup {id}
    <3>1. Ids(u.formulas) \subseteq Ids(d.formulas) \cup {id}
      BY <1>1 DEF Ids, new
    <3>2. Ids(d.formulas) \subseteq Ids(u.formulas)
      <4>1. \A r \in d.formulas : r \in old => r.id = id
        BY UpsertIdCases DEF id, old, Ids
      <4> QED
        BY <1>1, <4>1 DEF Ids, new
    <3>3. new \in u.formulas /\ new.id = id
      BY <1>1 DEF new
    <3>4. id \in Ids(u.formulas)
      BY <3>3 DEF Ids
    <3> QED
      BY <3>1, <3>2, <3>4
  <2>2. CASE id \in Ids(d.formulas)
    BY <2>1, <2>2 DEF TablesInv, Dense
  <2>3. CASE id \notin Ids(d.formulas)
    <3>1. \A r \in d.formulas : r.id # id
      BY <2>3 DEF Ids
    <3>2. PICK n \in Nat : Ids(d.formulas) = 1..n /\ id = n + 1
      BY <3>1, UpsertIdCases DEF id
    <3>3. 1..(n + 1) = 1..n \cup {n + 1}
      OBVIOUS
    <3> QED
      BY <2>1, <3>2, <3>3 DEF Dense
  <2> QED
    BY <2>2, <2>3
<1>6. UniqueKeys(u)
  BY <1>1, <1>3 DEF UniqueKeys, TablesInv, new
<1>7. SoundDocs(u)
  BY <1>1, <1>3 DEF SoundDocs, TablesInv, new
<1>8. SoundFacets(u)
  BY <1>1, <1>3 DEF SoundFacets, TablesInv, new
<1> QED
  BY <1>4, <1>5, <1>6, <1>7, <1>8 DEF TablesInv, u

\* A formula is upserted with all of its facets, and takes none from another.
LEMMA UpsertKeepsFacets ==
    ASSUME NEW d, TablesInv(d), CompleteFacets(d), NEW e \in EntryIds,
           NEW s \in Sides, NEW t \in Texts, NEW c \in Canonicals
    PROVE  CompleteFacets(Upserted(d, e, s, t, c))
<1> DEFINE id == UpsertId(d, e, s)
           new == [id |-> id, entry |-> e, side |-> s, text |-> t, canonical |-> c]
           old == Conflicting(d, e, s)
           u == Upserted(d, e, s, t, c)
<1>1. /\ u.formulas = (d.formulas \ old) \cup {new}
      /\ u.facets = {x \in d.facets : x.id # id}
                        \cup {[id |-> id, facet |-> tag] : tag \in FacetsOf[c]}
  BY DEF Upserted, FacetsAfter
<1>2. \A r \in d.formulas \ old : r.id # id
  BY UpsertIdCases DEF Conflicting, Ids, TablesInv, UniqueKeys
<1>3. new.id = id /\ new.canonical = c
  OBVIOUS
<1> HIDE DEF id, new, old, u
<1>4. ASSUME NEW r \in u.formulas, NEW tag \in FacetsOf[r.canonical]
      PROVE  [id |-> r.id, facet |-> tag] \in u.facets
  <2>1. CASE r = new
    BY <1>1, <1>3, <2>1
  <2>2. CASE r # new
    <3>1. r \in d.formulas /\ r.id # id
      BY <1>1, <1>2, <2>2
    <3>2. [id |-> r.id, facet |-> tag] \in d.facets
      BY <3>1 DEF CompleteFacets
    <3> QED
      BY <1>1, <3>1, <3>2
  <2> QED
    BY <2>1, <2>2
<1> QED
  BY <1>4 DEF CompleteFacets, u

\* The only id an upsert can give facets to is that of the formula it stores.
LEMMA UpsertedFacetIds ==
    ASSUME NEW d, NEW e, NEW s, NEW t, NEW c
    PROVE  LET u == Upserted(d, e, s, t, c) IN
           /\ UpsertId(d, e, s) \in Ids(u.formulas)
           /\ Ids(u.facets) \subseteq Ids(d.facets) \cup {UpsertId(d, e, s)}
<1> DEFINE id == UpsertId(d, e, s)
           new == [id |-> id, entry |-> e, side |-> s, text |-> t, canonical |-> c]
           u == Upserted(d, e, s, t, c)
<1>1. /\ new \in u.formulas
      /\ u.facets = {x \in d.facets : x.id # id}
                        \cup {[id |-> id, facet |-> tag] : tag \in FacetsOf[c]}
  BY DEF Upserted, FacetsAfter
<1>2. id \in Ids(u.formulas)
  BY <1>1 DEF Ids
<1> HIDE DEF id, u
<1>3. Ids(u.facets) \subseteq Ids(d.facets) \cup {id}
  BY <1>1 DEF Ids
<1> QED
  BY <1>2, <1>3 DEF id, u

\* Each facet is under an id that has a document: what is left of formulas that are
\* gone keeps its documents too.
FacetsHaveDocs(d) == Ids(d.facets) \subseteq Ids(d.fts)

\* Where documents cannot be deleted, an upsert that passes takes no facet away.
LEMMA UpsertOnlyAddsFacets ==
    ASSUME ContentlessDelete = FALSE, NEW d, FacetsHaveDocs(d),
           NEW e, NEW s, NEW t, NEW c, CanUpsert(d, e, s)
    PROVE  /\ d.facets \subseteq Upserted(d, e, s, t, c).facets
           /\ FacetsHaveDocs(Upserted(d, e, s, t, c))
<1> DEFINE id == UpsertId(d, e, s)
           u == Upserted(d, e, s, t, c)
<1>1. /\ u.fts = {f \in d.fts : f.id # id} \cup {[id |-> id, doc |-> c]}
      /\ u.facets = {x \in d.facets : x.id # id}
                        \cup {[id |-> id, facet |-> tag] : tag \in FacetsOf[c]}
  BY DEF Upserted, FacetsAfter
<1>2. id \notin Ids(d.fts)
  BY DEF CanUpsert, CanDeleteDocs
<1> HIDE DEF id, u
<1>3. \A x \in d.facets : x.id # id
  BY <1>2 DEF FacetsHaveDocs, Ids
<1>4. \A f \in d.fts : f.id # id
  BY <1>2 DEF Ids
<1>5. Ids(u.fts) = Ids(d.fts) \cup {id}
  <2>1. [id |-> id, doc |-> c] \in u.fts /\ [id |-> id, doc |-> c].id = id
    BY <1>1
  <2>2. id \in Ids(u.fts)
    BY <2>1 DEF Ids
  <2> QED
    BY <1>1, <1>4, <2>2 DEF Ids
<1>6. Ids(u.facets) \subseteq Ids(d.facets) \cup {id}
  BY <1>1 DEF Ids
<1> QED
  BY <1>1, <1>3, <1>5, <1>6 DEF FacetsHaveDocs, u

=============================================================================
