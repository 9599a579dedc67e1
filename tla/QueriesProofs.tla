---------------------------- MODULE QueriesProofs ----------------------------
(***************************************************************************)
(* What the SELECTs of a reader return, for any tables, any selection of   *)
(* facets and any limits.                                                  *)
(***************************************************************************)
EXTENDS Queries, FormulaStoreProofs, FiniteSetTheorems

-----------------------------------------------------------------------------
(***************************************************************************)
(* The filter.                                                             *)
(***************************************************************************)

\* A list of n selections names at most n facets.
LEMMA ChosenCounted ==
    ASSUME NEW selected \in Seq(FacetTags)
    PROVE  /\ Len(selected) \in Nat
           /\ IsFiniteSet(Chosen(selected))
           /\ Chosen(selected) \subseteq FacetTags
           /\ Cardinality(Chosen(selected)) \in Nat
           /\ Cardinality(Chosen(selected)) <= Len(selected)
<1>1. Len(selected) \in Nat /\ selected \in [1..Len(selected) -> FacetTags]
  OBVIOUS
<1>2. IsFiniteSet(1..Len(selected)) /\ Cardinality(1..Len(selected)) = Len(selected)
  BY <1>1, FS_Interval
<1>3. selected \in Surjection(1..Len(selected), Chosen(selected))
  BY <1>1 DEF Surjection, Chosen
<1>4. Chosen(selected) \subseteq FacetTags
  BY <1>1 DEF Chosen
<1> QED
  BY <1>1, <1>2, <1>3, <1>4, FS_Surjection, FS_CardinalityType

\* It names exactly n if none is selected twice.
LEMMA NoneTwice ==
    ASSUME NEW selected \in Seq(FacetTags)
    PROVE  Cardinality(Chosen(selected)) = Len(selected)
             <=> \A j, k \in DOMAIN selected : selected[j] = selected[k] => j = k
<1> DEFINE places == 1..Len(selected)
<1>1. Len(selected) \in Nat /\ DOMAIN selected = places /\ selected \in [places -> FacetTags]
  OBVIOUS
<1>2. IsFiniteSet(places) /\ Cardinality(places) = Len(selected)
  BY <1>1, FS_Interval
<1> HIDE DEF places
<1>3. selected \in Surjection(places, Chosen(selected))
  BY <1>1 DEF Surjection, Chosen
<1>4. Cardinality(Chosen(selected)) = Cardinality(places)
        <=> selected \in Injection(places, Chosen(selected))
  BY <1>2, <1>3, FS_Surjection
<1>5. selected \in Injection(places, Chosen(selected))
        <=> \A j, k \in places : selected[j] = selected[k] => j = k
  BY <1>1, <1>3 DEF Injection, IsInjective, Surjection
<1> QED
  BY <1>1, <1>2, <1>4, <1>5

\* HAVING COUNT(DISTINCT facet) = len(selected) finds ids that carry all of the
\* selected facets, and finds none at all when a facet is selected twice.
LEMMA FilterCarries ==
    ASSUME NEW d \in Tables, NEW selected \in Seq(FacetTags), selected # <<>>,
           NEW id \in FilterIds(d, selected)
    PROVE  /\ \A tag \in Chosen(selected) : [id |-> id, facet |-> tag] \in d.facets
           /\ Cardinality(Chosen(selected)) = Len(selected)
<1> DEFINE rows == {x \in SelectedRows(d, selected) : x.id = id}
           facetOf == [x \in rows |-> x.facet]
<1>1. Cardinality(rows) = Len(selected)
  BY DEF FilterIds
<1>2. rows \subseteq FacetRow /\ rows \subseteq d.facets
  BY DEF SelectedRows, Tables
<1>3. \A x \in rows : x.facet \in Chosen(selected) /\ x = [id |-> id, facet |-> x.facet]
  BY <1>2 DEF SelectedRows, FacetRow
<1> HIDE DEF rows
<1>4. facetOf \in Injection(rows, Chosen(selected))
  <2>1. facetOf \in [rows -> Chosen(selected)]
    BY <1>3
  <2>2. \A x, y \in rows : facetOf[x] = facetOf[y] => x = y
    BY <1>3
  <2> QED
    BY <2>1, <2>2 DEF Injection, IsInjective
<1>5. Cardinality(rows) = Cardinality(Chosen(selected))
  <2>1. Cardinality(rows) <= Cardinality(Chosen(selected))
    BY <1>4, ChosenCounted, FS_Injection
  <2> QED
    BY <1>1, <2>1, ChosenCounted
<1>6. facetOf \in Surjection(rows, Chosen(selected))
  BY <1>4, <1>5, ChosenCounted, FS_Injection
<1>7. ASSUME NEW tag \in Chosen(selected)
      PROVE  [id |-> id, facet |-> tag] \in d.facets
  <2>1. PICK x \in rows : facetOf[x] = tag
    BY <1>6 DEF Surjection
  <2> QED
    BY <1>2, <1>3, <2>1
<1> QED
  BY <1>1, <1>5, <1>7

\* Where no facet is selected twice, all ids that carry them are found.
LEMMA FilterFinds ==
    ASSUME NEW d \in Tables, NEW selected \in Seq(FacetTags), selected # <<>>,
           Cardinality(Chosen(selected)) = Len(selected), NEW id,
           \A tag \in Chosen(selected) : [id |-> id, facet |-> tag] \in d.facets
    PROVE  id \in FilterIds(d, selected)
<1> DEFINE rows == {x \in SelectedRows(d, selected) : x.id = id}
           row == [tag \in Chosen(selected) |-> [id |-> id, facet |-> tag]]
<1>1. \A tag \in Chosen(selected) : row[tag] \in rows
  BY DEF SelectedRows
<1>2. \A x \in rows : x.facet \in Chosen(selected) /\ x = [id |-> id, facet |-> x.facet]
  BY DEF SelectedRows, FacetRow, Tables
<1>3. \A x \in rows : x \in SelectedRows(d, selected) /\ x.id = id
  OBVIOUS
<1>4. row \in Bijection(Chosen(selected), rows)
  <2> HIDE DEF rows
  <2>1. row \in [Chosen(selected) -> rows]
    BY <1>1
  <2>2. \A s, t \in Chosen(selected) : row[s] = row[t] => s = t
    <3>1. \A s : [id |-> id, facet |-> s].facet = s
      OBVIOUS
    <3> QED
      BY <3>1
  <2>3. \A x \in rows : row[x.facet] = x
    BY <1>2
  <2> QED
    BY <1>2, <2>1, <2>2, <2>3 DEF Bijection, Injection, IsInjective, Surjection
<1>5. Cardinality(rows) = Len(selected)
  BY <1>4, ChosenCounted, FS_Bijection DEF ExistsBijection
<1>6. id \in Ids(SelectedRows(d, selected))
  <2>1. 1 \in DOMAIN selected
    OBVIOUS
  <2>2. selected[1] \in Chosen(selected)
    BY <2>1 DEF Chosen
  <2>3. row[selected[1]] \in SelectedRows(d, selected) /\ row[selected[1]].id = id
    BY <1>1, <1>3, <2>2
  <2> QED
    BY <2>3 DEF Ids
<1> QED
  BY <1>5, <1>6 DEF FilterIds

\* Ids that are found are ids of rows there are.
LEMMA FilterIdsThere ==
    ASSUME NEW d, NEW selected, NEW id \in FilterIds(d, selected)
    PROVE  IF selected = <<>> THEN id \in Ids(d.formulas) ELSE id \in Ids(d.facets)
BY DEF FilterIds, Ids, SelectedRows

LEMMA FormulasFinite ==
    ASSUME NEW d, TablesInv(d)
    PROVE  IsFiniteSet(Ids(d.formulas)) /\ IsFiniteSet(d.formulas)
<1>1. PICK n \in Nat : Ids(d.formulas) = 1..n
  BY DEF TablesInv, Dense
<1>2. IsFiniteSet(Ids(d.formulas))
  BY <1>1, FS_Interval
<1> DEFINE row == [id \in Ids(d.formulas) |-> CHOOSE r \in d.formulas : r.id = id]
<1>3. \A r \in d.formulas : r.id \in Ids(d.formulas) /\ row[r.id] = r
  BY DEF Ids, TablesInv, UniqueKeys
<1>4. \A id \in Ids(d.formulas) : row[id] \in d.formulas
  BY DEF Ids
<1>5. row \in Surjection(Ids(d.formulas), d.formulas)
  BY <1>3, <1>4 DEF Surjection
<1> QED
  BY <1>2, <1>5, FS_Surjection

\* What one refinement counts.
Tagged(d, selected, tag) ==
    {x \in d.facets \ SelectedRows(d, selected) :
        x.id \in FilterIds(d, selected) /\ x.facet = tag}

\* The formulas the filter counts, and those of them with one facet more.
LEMMA FilterFinite ==
    ASSUME NEW d, TablesInv(d), IsFiniteSet(Ids(d.facets)),
           NEW selected \in Seq(FacetTags), NEW tag
    PROVE  /\ IsFiniteSet(FilterIds(d, selected))
           /\ IsFiniteSet(Tagged(d, selected, tag))
<1> DEFINE tagged == Tagged(d, selected, tag)
           idOf == [x \in tagged |-> x.id]
<1>1. FilterIds(d, selected) \subseteq Ids(d.formulas) \cup Ids(d.facets)
  BY FilterIdsThere
<1>2. IsFiniteSet(FilterIds(d, selected))
  BY <1>1, FormulasFinite, FS_Union, FS_Subset
<1>3. \A x \in tagged : x.id \in FilterIds(d, selected) /\ x = [id |-> x.id, facet |-> tag]
  BY DEF TablesInv, Tables, FacetRow, Tagged
<1> HIDE DEF tagged
<1>4. idOf \in Injection(tagged, FilterIds(d, selected))
  BY <1>3 DEF Injection, IsInjective
<1>5. IsFiniteSet(tagged)
  BY <1>2, <1>4, FS_Injection
<1> QED
  BY <1>2, <1>5 DEF tagged

\* One facet more than is selected, taken from a formula the filter finds: the next
\* selection has no repetition either, and that formula has all of it.
LEMMA NextSelection ==
    ASSUME NEW d \in Tables, NEW selected \in Seq(FacetTags), NEW x \in d.facets,
           x.id \in FilterIds(d, selected), x.facet \notin Chosen(selected)
    PROVE  LET next == Append(selected, x.facet) IN
           /\ Cardinality(Chosen(selected)) = Len(selected)
           /\ next \in Seq(FacetTags) /\ next # <<>>
           /\ Chosen(next) = Chosen(selected) \cup {x.facet}
           /\ Cardinality(Chosen(next)) = Len(next)
           /\ \A tag \in Chosen(next) : [id |-> x.id, facet |-> tag] \in d.facets
<1> DEFINE next == Append(selected, x.facet)
<1>1. x \in FacetRow /\ x.facet \in FacetTags /\ x = [id |-> x.id, facet |-> x.facet]
  BY DEF Tables, FacetRow
<1>2. /\ Cardinality(Chosen(selected)) = Len(selected)
      /\ \A tag \in Chosen(selected) : [id |-> x.id, facet |-> tag] \in d.facets
  <2>1. CASE selected = <<>>
    <3>1. Chosen(selected) = {} /\ Len(selected) = 0
      BY <2>1 DEF Chosen
    <3> QED
      BY <3>1, FS_EmptySet
  <2>2. CASE selected # <<>>
    BY <2>2, FilterCarries
  <2> QED
    BY <2>1, <2>2
<1>3. /\ next \in Seq(FacetTags) /\ Len(next) = Len(selected) + 1
      /\ Len(selected) \in Nat
      /\ \A k \in 1..Len(selected) : next[k] = selected[k]
      /\ next[Len(selected) + 1] = x.facet
  BY <1>1
<1>4. DOMAIN next = 1..Len(selected) \cup {Len(selected) + 1}
      /\ DOMAIN selected = 1..Len(selected)
  BY <1>3
<1>5. Chosen(next) = Chosen(selected) \cup {x.facet}
  BY <1>3, <1>4 DEF Chosen
<1>6. next # <<>>
  BY <1>3
<1> HIDE DEF next
<1>7. Cardinality(Chosen(next)) = Cardinality(Chosen(selected)) + 1
  BY <1>1, <1>5, ChosenCounted, FS_AddElement
<1>8. Cardinality(Chosen(next)) = Len(next)
  BY <1>2, <1>3, <1>7
<1> QED
  BY <1>1, <1>2, <1>3, <1>5, <1>6, <1>8 DEF next

\* A selection without repetitions, all of it carried by one formula.
Leads(d, selected) ==
    /\ Cardinality(Chosen(selected)) = Len(selected)
    /\ \E id : \A tag \in Chosen(selected) : [id |-> id, facet |-> tag] \in d.facets

\* Every refinement that is offered leads to some formula.
LEMMA RefinementLeads ==
    ASSUME NEW d \in Tables, NEW selected \in Seq(FacetTags),
           NEW refinement \in Refinements(d, selected)
    PROVE  Leads(d, Append(selected, refinement[1]))
<1> DEFINE rows == {x \in d.facets \ SelectedRows(d, selected) :
                       x.id \in FilterIds(d, selected)}
<1>1. PICK tag \in {x.facet : x \in rows} :
         refinement = <<tag, Cardinality({x \in rows : x.facet = tag})>>
  BY DEF Refinements
<1>2. PICK x \in rows : x.facet = tag
  OBVIOUS
<1>3. /\ x \in d.facets /\ x.id \in FilterIds(d, selected)
      /\ x.facet \notin Chosen(selected)
  BY DEF SelectedRows
<1>4. refinement[1] = x.facet
  BY <1>1, <1>2
<1> DEFINE next == Append(selected, x.facet)
<1> HIDE DEF rows
<1>5. /\ Cardinality(Chosen(next)) = Len(next)
      /\ \A s \in Chosen(next) : [id |-> x.id, facet |-> s] \in d.facets
  BY <1>3, NextSelection
<1> HIDE DEF next
<1>6. Leads(d, next)
  BY <1>5 DEF Leads
<1> QED
  BY <1>4, <1>6 DEF next

\* A filter that leads somewhere finds something.
LEMMA LeadsSomewhere ==
    ASSUME NEW d, TablesInv(d), IsFiniteSet(Ids(d.facets)), d.formulas # {},
           NEW selected \in Seq(FacetTags), Leads(d, selected)
    PROVE  FilterTotal(d, selected) > 0
<1>1. FilterIds(d, selected) # {}
  <2>1. CASE selected = <<>>
    BY <2>1 DEF FilterIds, Ids
  <2>2. CASE selected # <<>>
    BY <2>2, FilterFinds DEF Leads, TablesInv
  <2> QED
    BY <2>1, <2>2
<1>2. IsFiniteSet(FilterIds(d, selected))
  BY FilterFinite
<1> QED
  BY <1>1, <1>2, FS_EmptySet, FS_CardinalityType DEF FilterTotal

\* Formulas and facets that agree on which ids there are.
FacetsLive(d) == d.formulas # {} => Ids(d.facets) \subseteq Ids(d.formulas)

\* Selecting one facet more finds as many formulas as the refinement counted,
\* though the first filter, when nothing is selected, counts formulas, and the
\* second one counts facets.
LEMMA RefinementIsNextTotal ==
    ASSUME NEW d, TablesInv(d), IsFiniteSet(Ids(d.facets)), FacetsLive(d),
           NEW selected \in Seq(FacetTags), NEW refinement \in Refinements(d, selected)
    PROVE  FilterTotal(d, Append(selected, refinement[1])) = refinement[2]
<1> DEFINE rows == {x \in d.facets \ SelectedRows(d, selected) :
                       x.id \in FilterIds(d, selected)}
<1>1. PICK tag \in {x.facet : x \in rows} :
         refinement = <<tag, Cardinality({x \in rows : x.facet = tag})>>
  BY DEF Refinements
<1>2. PICK y \in rows : y.facet = tag
  OBVIOUS
<1> DEFINE tagged == {x \in rows : x.facet = tag}
           next == Append(selected, tag)
<1>3. y \in FacetRow /\ tag \in FacetTags /\ tag \notin Chosen(selected)
  BY <1>2 DEF TablesInv, Tables, FacetRow, SelectedRows
<1>4. y \in d.facets /\ y.id \in FilterIds(d, selected)
  OBVIOUS
<1>5. /\ Cardinality(Chosen(selected)) = Len(selected)
      /\ next \in Seq(FacetTags) /\ next # <<>>
      /\ Chosen(next) = Chosen(selected) \cup {tag}
      /\ Cardinality(Chosen(next)) = Len(next)
  BY <1>2, <1>3, <1>4, NextSelection DEF TablesInv
<1>6. \A x \in tagged : x.id \in FilterIds(d, next) /\ x = [id |-> x.id, facet |-> tag]
  <2> SUFFICES ASSUME NEW x \in tagged
               PROVE  x.id \in FilterIds(d, next) /\ x = [id |-> x.id, facet |-> tag]
    OBVIOUS
  <2>1. x \in d.facets /\ x = [id |-> x.id, facet |-> tag] /\ x.id \in FilterIds(d, selected)
    BY DEF TablesInv, Tables, FacetRow
  <2>2. \A s \in Chosen(selected) : [id |-> x.id, facet |-> s] \in d.facets
    <3>1. CASE selected = <<>>
      BY <3>1 DEF Chosen
    <3>2. CASE selected # <<>>
      BY <2>1, <3>2, FilterCarries DEF TablesInv
    <3> QED
      BY <3>1, <3>2
  <2>3. \A s \in Chosen(next) : [id |-> x.id, facet |-> s] \in d.facets
    BY <1>5, <2>1, <2>2
  <2> HIDE DEF tagged, next
  <2>4. x.id \in FilterIds(d, next)
    BY <1>5, <2>3, FilterFinds DEF TablesInv
  <2> QED
    BY <2>1, <2>4
<1>7. \A id \in FilterIds(d, next) : [id |-> id, facet |-> tag] \in tagged
  <2> SUFFICES ASSUME NEW id \in FilterIds(d, next)
               PROVE  [id |-> id, facet |-> tag] \in tagged
    OBVIOUS
  <2> HIDE DEF next
  <2>1. \A s \in Chosen(next) : [id |-> id, facet |-> s] \in d.facets
    BY <1>5, FilterCarries DEF TablesInv
  <2>2. [id |-> id, facet |-> tag] \in d.facets \ SelectedRows(d, selected)
    BY <1>3, <1>5, <2>1 DEF SelectedRows
  <2>3. id \in FilterIds(d, selected)
    <3>1. CASE selected = <<>>
      <4>1. d.formulas # {}
        BY <1>2, <3>1 DEF FilterIds, Ids
      <4>2. [id |-> id, facet |-> tag].id \in Ids(d.facets)
        BY <2>2 DEF Ids
      <4> QED
        BY <3>1, <4>1, <4>2 DEF FacetsLive, FilterIds
    <3>2. CASE selected # <<>>
      BY <1>5, <2>1, <3>2, FilterFinds DEF TablesInv
    <3> QED
      BY <3>1, <3>2
  <2> QED
    BY <2>2, <2>3
<1> DEFINE idOf == [x \in tagged |-> x.id]
<1>8. IsFiniteSet(FilterIds(d, next))
  BY <1>5, FilterFinite
<1> HIDE DEF tagged, next
<1>9. idOf \in Bijection(tagged, FilterIds(d, next))
  <2>1. idOf \in [tagged -> FilterIds(d, next)]
    BY <1>6
  <2>2. \A x, z \in tagged : idOf[x] = idOf[z] => x = z
    BY <1>6
  <2>3. \A id \in FilterIds(d, next) : \E x \in tagged : idOf[x] = id
    <3>1. ASSUME NEW id \in FilterIds(d, next)
          PROVE  idOf[[id |-> id, facet |-> tag]] = id
      BY <1>7
    <3> QED
      BY <1>7, <3>1
  <2> QED
    BY <2>1, <2>2, <2>3 DEF Bijection, Injection, IsInjective, Surjection
<1>10. Cardinality(FilterIds(d, next)) = Cardinality(tagged)
  <2>1. IsFiniteSet(tagged)
    BY <1>8, <1>9, FS_Injection DEF Bijection
  <2> QED
    BY <1>9, <2>1, FS_Bijection DEF ExistsBijection
<1> QED
  BY <1>1, <1>10 DEF FilterTotal, tagged, next

LEMMA CountsTyped ==
    ASSUME NEW d, TablesInv(d), IsFiniteSet(Ids(d.facets)),
           NEW selected \in Seq(FacetTags)
    PROVE  /\ FilterTotal(d, selected) \in Nat
           /\ Refinements(d, selected) \subseteq FacetTags \X Nat
<1>1. FilterTotal(d, selected) \in Nat
  BY FilterFinite, FS_CardinalityType DEF FilterTotal
<1> DEFINE rows == {x \in d.facets \ SelectedRows(d, selected) :
                       x.id \in FilterIds(d, selected)}
<1>2. ASSUME NEW tag \in {x.facet : x \in rows}
      PROVE  /\ tag \in FacetTags
             /\ Cardinality({x \in rows : x.facet = tag}) \in Nat
  <2>1. tag \in FacetTags
    BY DEF TablesInv, Tables, FacetRow
  <2> DEFINE counted == {x \in rows : x.facet = tag}
  <2>2. counted = Tagged(d, selected, tag)
    BY DEF Tagged
  <2>3. IsFiniteSet(Tagged(d, selected, tag))
    BY FilterFinite
  <2> HIDE DEF counted
  <2>4. Cardinality(counted) \in Nat
    BY <2>2, <2>3, FS_CardinalityType
  <2> QED
    BY <2>1, <2>4, Zenon DEF counted
<1>3. ASSUME NEW refinement \in Refinements(d, selected)
      PROVE  refinement \in FacetTags \X Nat
  <2>1. PICK tag \in {x.facet : x \in rows} :
           refinement = <<tag, Cardinality({x \in rows : x.facet = tag})>>
    BY DEF Refinements
  <2> DEFINE counted == Cardinality({x \in rows : x.facet = tag})
  <2>2. tag \in FacetTags /\ counted \in Nat
    BY <1>2
  <2>3. refinement = <<tag, counted>>
    BY <2>1
  <2> HIDE DEF counted
  <2> QED
    BY <2>2, <2>3
<1> QED
  BY <1>1, <1>3

-----------------------------------------------------------------------------
(***************************************************************************)
(* Signatures that entries share.                                          *)
(***************************************************************************)

LEMMA EntriesFinite ==
    ASSUME NEW d, TablesInv(d), NEW c
    PROVE  /\ IsFiniteSet(EntriesWith(d, c))
           /\ Cardinality(EntriesWith(d, c)) \in Nat
<1> DEFINE rows == SameSignature(d, c)
           entry == [r \in rows |-> r.entry]
<1>1. IsFiniteSet(rows)
  BY FormulasFinite, FS_Subset DEF SameSignature
<1>2. entry \in Surjection(rows, EntriesWith(d, c))
  BY DEF Surjection, EntriesWith
<1> QED
  BY <1>1, <1>2, FS_Surjection, FS_CardinalityType

LEMMA SharedFinite ==
    ASSUME NEW d, TablesInv(d)
    PROVE  /\ SharedSignatures(d) \subseteq Canonicals
           /\ IsFiniteSet(SharedSignatures(d))
           /\ Cardinality(SharedSignatures(d)) \in Nat
<1> DEFINE stored == {r.canonical : r \in d.formulas}
           canonical == [r \in d.formulas |-> r.canonical]
<1>1. canonical \in Surjection(d.formulas, stored)
  BY DEF Surjection
<1>2. IsFiniteSet(stored)
  BY <1>1, FormulasFinite, FS_Surjection
<1>3. SharedSignatures(d) \subseteq stored
  <2> SUFFICES ASSUME NEW c \in SharedSignatures(d), c \notin stored PROVE FALSE
    OBVIOUS
  <2>1. EntriesWith(d, c) = {}
    BY DEF EntriesWith, SameSignature
  <2>2. Cardinality(EntriesWith(d, c)) > 1
    BY DEF SharedSignatures
  <2> QED
    BY <2>1, <2>2, FS_EmptySet
<1> QED
  BY <1>2, <1>3, FS_Subset, FS_CardinalityType DEF SharedSignatures

\* A signature that entries share is still shared once more has been written.
LEMMA MoreEntriesShare ==
    ASSUME NEW d, NEW d2, TablesInv(d), TablesInv(d2), d.formulas \subseteq d2.formulas,
           NEW c, Cardinality(EntriesWith(d, c)) > 1
    PROVE  Cardinality(EntriesWith(d2, c)) > 1
<1>1. EntriesWith(d, c) \subseteq EntriesWith(d2, c)
  BY DEF EntriesWith, SameSignature
<1>2. Cardinality(EntriesWith(d, c)) <= Cardinality(EntriesWith(d2, c))
  BY <1>1, EntriesFinite, FS_Subset
<1> QED
  BY <1>2, EntriesFinite

-----------------------------------------------------------------------------
(***************************************************************************)
(* Search: candidates, the list cut to its best, the collapsed results.    *)
(***************************************************************************)

LEMMA PoolSizeTyped == PoolSize \in Nat /\ FuzzyLimit \in Nat \ {0}
BY QueryAssumption DEF PoolSize

LEMMA UpToIsAllOrFull ==
    ASSUME NEW n \in Nat, NEW S, IsFiniteSet(S), NEW few \in UpTo(n, S)
    PROVE  /\ few \subseteq S
           /\ few # S => Cardinality(few) = n
           /\ Cardinality(S) <= n => few = S
<1>1. few \subseteq S /\ (few = S \/ Cardinality(few) = n)
  BY DEF UpTo
<1>2. Cardinality(S) \in Nat /\ Cardinality(few) \in Nat
      /\ Cardinality(few) <= Cardinality(S)
      /\ (Cardinality(S) = Cardinality(few) => S = few)
  BY <1>1, FS_Subset, FS_CardinalityType
<1> QED
  BY <1>1, <1>2

\* Where each formula has its own document, and no other, the candidates are the
\* formulas with a token of c.
LEMMA CandidatesOf ==
    ASSUME NEW d, SoundDocs(d), CompleteDocs(d), NEW c
    PROVE  Candidates(d, c) = {r \in d.formulas : r.canonical \in Shares[c]}
<1>1. ASSUME NEW r \in d.formulas
      PROVE  (\E f \in d.fts : f.id = r.id /\ f.doc \in Shares[c])
                <=> r.canonical \in Shares[c]
  <2>1. PICK f \in d.fts : f.id = r.id
    BY DEF CompleteDocs, Ids
  <2> QED
    BY <2>1 DEF SoundDocs
<1> QED
  BY <1>1 DEF Candidates

\* Collapsing, ranking and cutting a pool that has c keeps a result with c, however
\* small the limit, or fills the list with others that are as similar to c as c is.
LEMMA BestKeepsExact ==
    ASSUME NEW pool \in SUBSET Row, IsFiniteSet(pool),
           NEW r \in pool, NEW c \in Canonicals, r.canonical = c, Shares[c] # {},
           NEW firsts \in Firsts(pool), NEW few \in UpTo(FuzzyLimit, firsts),
           Best(few, firsts, c)
    PROVE  \/ \E x \in few : x.canonical = c
           \/ /\ Cardinality({x.canonical : x \in few}) = FuzzyLimit
              /\ \A x \in few : Score[c][x.canonical] = Score[c][c]
<1>1. firsts \subseteq pool /\ \A x, y \in firsts : x.canonical = y.canonical => x = y
  BY DEF Firsts
<1>2. PICK x \in firsts : x.canonical = c
  BY DEF Firsts
<1>3. IsFiniteSet(firsts)
  BY <1>1, FS_Subset
<1>4. CASE few = firsts
  BY <1>2, <1>4
<1>5. CASE few # firsts /\ x \notin few
  <2>1. few \subseteq firsts /\ Cardinality(few) = FuzzyLimit /\ IsFiniteSet(few)
    BY <1>3, <1>5, PoolSizeTyped, UpToIsAllOrFull, FS_Subset
  <2> DEFINE listed == {y.canonical : y \in few}
             canonical == [y \in few |-> y.canonical]
  <2>2. canonical \in Bijection(few, listed)
    <3>1. canonical \in [few -> listed]
      OBVIOUS
    <3>2. \A y, z \in few : canonical[y] = canonical[z] => y = z
      BY <1>1, <2>1
    <3>3. \A l \in listed : \E y \in few : canonical[y] = l
      OBVIOUS
    <3> QED
      BY <3>1, <3>2, <3>3 DEF Bijection, Injection, IsInjective, Surjection
  <2>3. Cardinality(listed) = FuzzyLimit
    BY <2>1, <2>2, FS_Bijection DEF ExistsBijection
  <2>4. ASSUME NEW y \in few
        PROVE  Score[c][y.canonical] = Score[c][c]
    <3>1. y.canonical \in Canonicals
      BY <1>1, <2>1 DEF Row
    <3>2. Score[c][y.canonical] >= Score[c][c]
      BY <1>2, <1>5 DEF Best
    <3>3. Score[c][y.canonical] <= Score[c][c]
      BY <3>1, QueryAssumption
    <3>4. Score[c][y.canonical] \in Nat /\ Score[c][c] \in Nat
      BY <3>1, QueryAssumption
    <3> QED
      BY <3>2, <3>3, <3>4
  <2> QED
    BY <2>3, <2>4
<1> QED
  BY <1>2, <1>4, <1>5

-----------------------------------------------------------------------------
(***************************************************************************)
(* A reader, step by step.                                                 *)
(***************************************************************************)

Lists == {"request", "found", "shown", "exact", "todo", "groups"}

\* Only these of its lists change.
Changes(a, b, lists) == \A f \in Lists \ lists : b[f] = a[f]

\* What one step does to the record of its reader, on the committed tables.
Asks(a, b) ==
    /\ a.pc = "idle" /\ b.request \in Requests
    /\ b.pc \in {"open", FirstSelect(b.request)}
    /\ Changes(a, b, {"request"})
Moves(a, b) ==
    /\ \/ a.pc = "open" /\ b.pc \in {FirstSelect(a.request), "busyError"}
       \/ a.pc \in {"exact", "fuzzy", "total", "refine", "list", "shared", "groups"}
            /\ b.pc = "failed"
       \/ a.pc = "total" /\ b.pc = IF a.request.kind = "facets" THEN "refine" ELSE "shared"
       \/ a.pc = "refine" /\ b.pc \in {"list", "done"}
       \/ a.pc = "ids" /\ a.found = {} /\ b.pc = "done"
       \/ a.pc = "groups" /\ a.todo = {} /\ b.pc = "done"
    /\ Changes(a, b, {})
FindsExact(a, b) ==
    LET rows == SameSignature(db, a.request.canonical) IN
    /\ a.pc = "exact" /\ b.pc = "exactIds"
    /\ \E firsts \in Firsts(rows) : b.found = Collapsed(firsts, rows)
    /\ Changes(a, b, {"found"})
FindsFuzzy(a, b) ==
    LET c == a.request.canonical IN
    /\ a.pc = "fuzzy" /\ b.pc = "ids"
    /\ \E pool \in UpTo(PoolSize, Candidates(db, c)) :
       \E firsts \in Firsts(pool) :
       \E few \in UpTo(FuzzyLimit, firsts) :
         Best(few, firsts, c) /\ b.found = Collapsed(few, pool)
    /\ Changes(a, b, {"found"})
FindsList(a, b) ==
    LET rows == FilterList(db, a.request.selected) IN
    /\ a.pc = "list" /\ b.pc = "ids"
    /\ \E firsts \in Firsts(rows) : b.found = Collapsed(firsts, rows)
    /\ Changes(a, b, {"found"})
Fills(a, b) ==
    /\ a.pc \in {"exactIds", "ids"} /\ b.pc = a.pc
    /\ \E x \in a.found : \E identity \in SidesRead(db, x.formula.entry) :
         /\ b.found = a.found \ {x}
         /\ b.shown = a.shown \cup {[x EXCEPT !.identity = identity]}
    /\ Changes(a, b, {"found", "shown"})
TakesExact(a, b) ==
    /\ a.pc = "exactIds" /\ a.found = {} /\ b.pc = "fuzzy"
    /\ b.exact = a.shown /\ b.shown = {}
    /\ Changes(a, b, {"exact", "shown"})
Shared(a, b) ==
    /\ a.pc = "shared" /\ b.pc = "groups"
    /\ b.todo \subseteq SharedSignatures(db)
    /\ Changes(a, b, {"todo"})
Looks(a, b) ==
    /\ a.pc = "groups" /\ b.pc = "groups"
    /\ \E c \in a.todo :
         LET group == [signature |-> c, occurrences |-> SameSignature(db, c)] IN
         b.todo = a.todo \ {c} /\ b.groups = a.groups \cup {group}
    /\ Changes(a, b, {"todo", "groups"})

ReaderStep(a, b) ==
    Asks(a, b) \/ Moves(a, b) \/ FindsExact(a, b) \/ FindsFuzzy(a, b) \/ FindsList(a, b)
      \/ Fills(a, b) \/ TakesExact(a, b) \/ Shared(a, b) \/ Looks(a, b)

\* Where a reader stands, and what it can have collected by then.
ReaderControl(a) ==
    /\ a.pc # "idle" => a.request \in Requests
    /\ a.pc \in {"idle", "open", "exact", "total", "refine", "list", "shared", "busyError"}
         => a.found = {} /\ a.shown = {} /\ a.exact = {} /\ a.todo = {} /\ a.groups = {}
    /\ a.pc \in {"groups", "done"} => a.found = {}
    /\ a.pc = "groups" => a.exact = {}
    /\ a.pc \in {"exact", "exactIds", "fuzzy"} => a.request.kind = "search"
    /\ a.pc \in {"refine", "list"} => a.request.kind = "facets"

ReaderInv ==
    /\ query \in [Readers -> QueryState]
    /\ \A q \in Readers : ReaderControl(query[q])

LEMMA FirstSelectTyped ==
    ASSUME NEW request \in Requests
    PROVE  /\ request \in Request
           /\ FirstSelect(request) \in {"total", "failed", "exact"}
           /\ FirstSelect(request) = "exact" => request.kind = "search"
BY QueryAssumption DEF FirstSelect

LEMMA CollapsedTyped ==
    ASSUME NEW rows \in SUBSET Row, NEW firsts \in SUBSET rows
    PROVE  Collapsed(firsts, rows) \subseteq Result
<1> SUFFICES ASSUME NEW x \in firsts
             PROVE  [formula |-> x,
                     occurrences |-> SameSignature([formulas |-> rows], x.canonical),
                     identity |-> NoIdentity] \in Result
  BY DEF Collapsed
<1>1. SameSignature([formulas |-> rows], x.canonical) \in SUBSET Row
  BY DEF SameSignature
<1>2. NoIdentity \in [Sides -> Texts \cup {Blank}]
  BY DEF NoIdentity
<1> QED
  BY <1>1, <1>2 DEF Result

LEMMA EntrySidesTyped ==
    ASSUME NEW d, d.formulas \subseteq Row, NEW e
    PROVE  EntrySides(d, e) \in [Sides -> Texts \cup {Blank}]
<1> SUFFICES ASSUME NEW s \in Sides
             PROVE  (IF Conflicting(d, e, s) = {} THEN Blank
                     ELSE (CHOOSE r \in Conflicting(d, e, s) : TRUE).text)
                        \in Texts \cup {Blank}
  BY DEF EntrySides
<1>1. Conflicting(d, e, s) \subseteq Row
  BY DEF Conflicting
<1>2. CASE Conflicting(d, e, s) # {}
  <2>1. (CHOOSE r \in Conflicting(d, e, s) : TRUE) \in Row
    BY <1>1, <1>2
  <2> QED
    BY <1>2, <2>1 DEF Row
<1> QED
  BY <1>2

\* The actions of a reader, as steps of its record.
LEMMA QueryNextIsReaderStep ==
    ASSUME TablesInv(db), IsFiniteSet(Ids(db.facets)), ReaderInv,
           NEW q \in Readers, QueryNext(q)
    PROVE  \E b \in QueryState :
              query' = [query EXCEPT ![q] = b] /\ ReaderStep(query[q], b)
<1> DEFINE a == query[q]
<1>0. /\ a \in QueryState /\ ReaderControl(a)
      /\ a.pc # "idle" => a.request \in Requests
      /\ db \in Tables /\ TablesInv(db) /\ IsFiniteSet(Ids(db.facets))
      /\ db.formulas \subseteq Row
  BY DEF ReaderInv, ReaderControl, TablesInv, Tables
<1> USE DEF Changes, Lists
<1>a. ASSUME NEW r \in QueryState, NEW pc \in {"open", "total", "failed", "exact"},
             NEW request \in Requests
      PROVE  [r EXCEPT !.request = request, !.pc = pc] \in QueryState
  BY DEF QueryState
<1>b. ASSUME NEW r \in QueryState,
             NEW pc \in {"total", "failed", "exact", "busyError", "done"}
      PROVE  [r EXCEPT !.pc = pc] \in QueryState
  BY DEF QueryState
<1>c. ASSUME NEW r \in QueryState, NEW pc \in {"exactIds", "ids"},
             NEW found \in SUBSET Result
      PROVE  [r EXCEPT !.found = found, !.pc = pc] \in QueryState
  BY DEF QueryState
<1>1. CASE QueryStart(q)
  <2>1. PICK request \in Requests :
           query' = [query EXCEPT ![q] = [query[q] EXCEPT
                        !.request = request,
                        !.pc = IF request.cli THEN "open" ELSE FirstSelect(request)]]
    BY <1>1 DEF QueryStart, Received
  <2> DEFINE pc == IF request.cli THEN "open" ELSE FirstSelect(request)
             b == [a EXCEPT !.request = request, !.pc = pc]
  <2>2. pc \in {"open", FirstSelect(request)} /\ a.pc = "idle"
    BY <1>1 DEF QueryStart
  <2> HIDE DEF pc
  <2>3. b \in QueryState
    BY <1>0, <1>a, <2>2, FirstSelectTyped
  <2>4. Asks(a, b)
    BY <1>0, <2>2 DEF Asks, QueryState
  <2>5. query' = [query EXCEPT ![q] = b]
    BY <2>1 DEF pc
  <2> QED
    BY <2>3, <2>4, <2>5 DEF ReaderStep
<1>2. CASE QueryOpen(q)
  <2> DEFINE b == [a EXCEPT !.pc = FirstSelect(a.request)]
  <2>1. a.pc = "open" /\ a.request \in Requests /\ query' = [query EXCEPT ![q] = b]
    BY <1>0, <1>2 DEF QueryOpen
  <2>2. b \in QueryState
    BY <1>0, <1>b, <2>1, FirstSelectTyped
  <2>3. Moves(a, b)
    BY <1>0, <2>1 DEF Moves, QueryState
  <2> QED
    BY <2>1, <2>2, <2>3 DEF ReaderStep
<1>3. CASE QueryBusy(q) \/ SelectFails(q) \/ FilledAll(q) \/ GroupsDone(q)
  <2>1. PICK pc \in {"busyError", "failed", "done"} :
           /\ \/ a.pc = "open" /\ pc = "busyError"
              \/ pc = "failed" /\ a.pc \in {"exact", "fuzzy", "total", "refine", "list",
                                            "shared", "groups"}
              \/ a.pc = "ids" /\ a.found = {} /\ pc = "done"
              \/ a.pc = "groups" /\ a.todo = {} /\ pc = "done"
           /\ query' = [query EXCEPT ![q].pc = pc]
    BY <1>3 DEF QueryBusy, SelectFails, FilledAll, GroupsDone
  <2> DEFINE b == [a EXCEPT !.pc = pc]
  <2>2. b \in QueryState
    BY <1>0, <1>b
  <2>3. Moves(a, b)
    BY <1>0, <2>1 DEF Moves, QueryState
  <2>4. query' = [query EXCEPT ![q] = b]
    BY <2>1
  <2> QED
    BY <2>2, <2>3, <2>4 DEF ReaderStep
<1>4. CASE QueryExact(q)
  <2> DEFINE rows == SameSignature(db, a.request.canonical)
  <2>1. PICK firsts \in Firsts(rows) :
           query' = [query EXCEPT ![q] = [query[q] EXCEPT !.found = Collapsed(firsts, rows),
                                                          !.pc = "exactIds"]]
    BY <1>4 DEF QueryExact
  <2> DEFINE b == [a EXCEPT !.found = Collapsed(firsts, rows), !.pc = "exactIds"]
  <2>2. rows \subseteq Row /\ firsts \subseteq rows
    BY <1>0 DEF SameSignature, Firsts
  <2> HIDE DEF rows
  <2>3. b \in QueryState
    BY <1>0, <1>c, <2>2, CollapsedTyped
  <2>4. a.pc = "exact" /\ b.pc = "exactIds" /\ b.found = Collapsed(firsts, rows)
    BY <1>0, <1>4 DEF QueryExact, QueryState
  <2>5. Changes(a, b, {"found"})
    BY <1>0 DEF QueryState
  <2>6. FindsExact(a, b)
    BY <2>4, <2>5 DEF FindsExact, rows
  <2> QED
    BY <2>1, <2>3, <2>6 DEF ReaderStep
<1>5. CASE QueryFuzzy(q)
  <2> DEFINE c == a.request.canonical
  <2>0. PICK pool \in UpTo(PoolSize, Candidates(db, c)) :
           \E firsts \in Firsts(pool) :
           \E few \in UpTo(FuzzyLimit, firsts) :
             /\ Best(few, firsts, c)
             /\ query' = [query EXCEPT ![q] =
                            [query[q] EXCEPT !.found = Collapsed(few, pool), !.pc = "ids"]]
    BY <1>5 DEF QueryFuzzy
  <2>a. PICK firsts \in Firsts(pool) :
           \E few \in UpTo(FuzzyLimit, firsts) :
             /\ Best(few, firsts, c)
             /\ query' = [query EXCEPT ![q] =
                            [query[q] EXCEPT !.found = Collapsed(few, pool), !.pc = "ids"]]
    BY <2>0
  <2>1. PICK few \in UpTo(FuzzyLimit, firsts) :
           /\ Best(few, firsts, c)
           /\ query' = [query EXCEPT ![q] =
                          [query[q] EXCEPT !.found = Collapsed(few, pool), !.pc = "ids"]]
    BY <2>a
  <2> DEFINE b == [a EXCEPT !.found = Collapsed(few, pool), !.pc = "ids"]
  <2>2. pool \subseteq Row /\ few \subseteq pool
    BY <1>0 DEF Candidates, Firsts, UpTo
  <2>3. b \in QueryState
    BY <1>0, <1>c, <2>2, CollapsedTyped
  <2>4. a.pc = "fuzzy" /\ b.pc = "ids" /\ b.found = Collapsed(few, pool)
    BY <1>0, <1>5 DEF QueryFuzzy, QueryState
  <2>5. Changes(a, b, {"found"})
    BY <1>0 DEF QueryState
  <2>6. FindsFuzzy(a, b)
    BY <2>1, <2>4, <2>5 DEF FindsFuzzy
  <2> QED
    BY <2>1, <2>3, <2>6 DEF ReaderStep
<1>6. CASE QueryTotal(q)
  <2> DEFINE facets == a.request.kind = "facets"
             n == IF facets THEN FilterTotal(db, a.request.selected)
                  ELSE Cardinality(SharedSignatures(db))
             b == [a EXCEPT !.total = n, !.pc = IF facets THEN "refine" ELSE "shared"]
  <2>1. a.pc = "total" /\ query' = [query EXCEPT ![q] = b]
    BY <1>6 DEF QueryTotal
  <2>2. a.request.selected \in Seq(FacetTags)
    BY <1>0, <2>1, FirstSelectTyped DEF Request
  <2>3. n \in Nat
    BY <1>0, <2>2, CountsTyped, SharedFinite
  <2> HIDE DEF n
  <2>4. b \in QueryState
    <3>1. ASSUME NEW r \in QueryState, NEW m \in Nat, NEW pc \in {"refine", "shared"}
          PROVE  [r EXCEPT !.total = m, !.pc = pc] \in QueryState
      BY DEF QueryState
    <3> QED
      BY <1>0, <2>3, <3>1
  <2>5. Moves(a, b)
    BY <1>0, <2>1 DEF Moves, QueryState
  <2> QED
    BY <2>1, <2>4, <2>5 DEF ReaderStep
<1>7. CASE QueryRefine(q)
  <2> DEFINE refine == Refinements(db, a.request.selected)
             pc == IF a.total \in 1..FuzzyLimit THEN "list" ELSE "done"
             b == [a EXCEPT !.refine = refine, !.pc = pc]
  <2>1. a.pc = "refine" /\ query' = [query EXCEPT ![q] = b]
    BY <1>7 DEF QueryRefine
  <2>2. a.request.selected \in Seq(FacetTags)
    BY <1>0, <2>1, FirstSelectTyped DEF Request
  <2>3. refine \subseteq FacetTags \X Nat /\ pc \in {"list", "done"}
    BY <1>0, <2>2, CountsTyped
  <2> HIDE DEF refine, pc
  <2>4. b \in QueryState
    <3>1. ASSUME NEW r \in QueryState, NEW set \in SUBSET (FacetTags \X Nat),
                 NEW next \in {"list", "done"}
          PROVE  [r EXCEPT !.refine = set, !.pc = next] \in QueryState
      BY DEF QueryState
    <3> QED
      BY <1>0, <2>3, <3>1
  <2>5. Moves(a, b)
    BY <1>0, <2>1, <2>3 DEF Moves, QueryState
  <2> QED
    BY <2>1, <2>4, <2>5 DEF ReaderStep
<1>8. CASE QueryList(q)
  <2> DEFINE rows == FilterList(db, a.request.selected)
  <2>1. PICK firsts \in Firsts(rows) :
           query' = [query EXCEPT ![q] = [query[q] EXCEPT !.found = Collapsed(firsts, rows),
                                                          !.pc = "ids"]]
    BY <1>8 DEF QueryList
  <2> DEFINE b == [a EXCEPT !.found = Collapsed(firsts, rows), !.pc = "ids"]
  <2>2. rows \subseteq Row /\ firsts \subseteq rows
    BY <1>0 DEF FilterList, Firsts
  <2> HIDE DEF rows
  <2>3. b \in QueryState
    BY <1>0, <1>c, <2>2, CollapsedTyped
  <2>4. a.pc = "list" /\ b.pc = "ids" /\ b.found = Collapsed(firsts, rows)
    BY <1>0, <1>8 DEF QueryList, QueryState
  <2>5. Changes(a, b, {"found"})
    BY <1>0 DEF QueryState
  <2>6. FindsList(a, b)
    BY <2>4, <2>5 DEF FindsList, rows
  <2> QED
    BY <2>1, <2>3, <2>6 DEF ReaderStep
<1>9. CASE FillIdentity(q)
  <2>0. PICK x \in a.found :
           \E identity \in SidesRead(db, x.formula.entry) :
             query' = [query EXCEPT ![q] =
                         [query[q] EXCEPT !.found = query[q].found \ {x},
                                          !.shown = query[q].shown
                                                      \cup {[x EXCEPT !.identity = identity]}]]
    BY <1>9 DEF FillIdentity
  <2>1. PICK identity \in SidesRead(db, x.formula.entry) :
           query' = [query EXCEPT ![q] =
                       [query[q] EXCEPT !.found = query[q].found \ {x},
                                        !.shown = query[q].shown
                                                    \cup {[x EXCEPT !.identity = identity]}]]
    BY <2>0
  <2> DEFINE filled == [x EXCEPT !.identity = identity]
             b == [a EXCEPT !.found = a.found \ {x}, !.shown = a.shown \cup {filled}]
  <2>2. x \in Result /\ a.found \subseteq Result /\ a.shown \subseteq Result
    BY <1>0 DEF QueryState
  <2>3. identity \in [Sides -> Texts \cup {Blank}]
    BY <1>0, EntrySidesTyped DEF SidesRead
  <2>4. filled \in Result
    BY <2>2, <2>3 DEF Result
  <2>5. b \in QueryState
    <3>1. ASSUME NEW r \in QueryState, NEW found \in SUBSET Result,
                 NEW shown \in SUBSET Result
          PROVE  [r EXCEPT !.found = found, !.shown = shown] \in QueryState
      BY DEF QueryState
    <3> HIDE DEF filled
    <3> QED
      BY <1>0, <2>2, <2>4, <3>1
  <2>6. a.pc \in {"exactIds", "ids"} /\ b.pc = a.pc
    BY <1>0, <1>9 DEF FillIdentity, QueryState
  <2>7. b.found = a.found \ {x} /\ b.shown = a.shown \cup {filled}
    BY <1>0 DEF QueryState
  <2>8. Changes(a, b, {"found", "shown"})
    BY <1>0 DEF QueryState
  <2>9. Fills(a, b)
    BY <2>6, <2>7, <2>8 DEF Fills
  <2> QED
    BY <2>1, <2>5, <2>9 DEF ReaderStep
<1>10. CASE FilledExact(q)
  <2> DEFINE b == [a EXCEPT !.exact = a.shown, !.shown = {}, !.pc = "fuzzy"]
  <2>1. a.pc = "exactIds" /\ a.found = {} /\ query' = [query EXCEPT ![q] = b]
    BY <1>10 DEF FilledExact
  <2>2. b \in QueryState
    <3>1. ASSUME NEW r \in QueryState, NEW exact \in SUBSET Result
          PROVE  [r EXCEPT !.exact = exact, !.shown = {}, !.pc = "fuzzy"] \in QueryState
      BY DEF QueryState
    <3>2. a.shown \in SUBSET Result
      BY <1>0 DEF QueryState
    <3> QED
      BY <1>0, <3>1, <3>2
  <2>3. TakesExact(a, b)
    BY <1>0, <2>1 DEF TakesExact, QueryState
  <2> QED
    BY <2>1, <2>2, <2>3 DEF ReaderStep
<1>11. CASE QueryShared(q)
  <2>1. PICK few \in UpTo(DupLimit, SharedSignatures(db)) :
           query' = [query EXCEPT ![q] = [query[q] EXCEPT !.todo = few, !.pc = "groups"]]
    BY <1>11 DEF QueryShared
  <2> DEFINE b == [a EXCEPT !.todo = few, !.pc = "groups"]
  <2>2. few \subseteq SharedSignatures(db) /\ SharedSignatures(db) \subseteq Canonicals
    BY DEF UpTo, SharedSignatures
  <2>3. b \in QueryState
    <3>1. ASSUME NEW r \in QueryState, NEW todo \in SUBSET Canonicals
          PROVE  [r EXCEPT !.todo = todo, !.pc = "groups"] \in QueryState
      BY DEF QueryState
    <3> QED
      BY <1>0, <2>2, <3>1
  <2>4. a.pc = "shared" /\ b.pc = "groups" /\ b.todo = few
    BY <1>0, <1>11 DEF QueryShared, QueryState
  <2>5. Changes(a, b, {"todo"})
    BY <1>0 DEF QueryState
  <2>6. Shared(a, b)
    BY <2>2, <2>4, <2>5 DEF Shared
  <2> QED
    BY <2>1, <2>3, <2>6 DEF ReaderStep
<1>12. CASE QueryGroup(q)
  <2>1. PICK c \in a.todo :
           LET group == [signature |-> c, occurrences |-> SameSignature(db, c)] IN
           query' = [query EXCEPT ![q] =
                       [query[q] EXCEPT !.todo = query[q].todo \ {c},
                                        !.groups = query[q].groups \cup {group}]]
    BY <1>12 DEF QueryGroup
  <2> DEFINE group == [signature |-> c, occurrences |-> SameSignature(db, c)]
             b == [a EXCEPT !.todo = a.todo \ {c}, !.groups = a.groups \cup {group}]
  <2>2. a.todo \subseteq Canonicals /\ a.groups \subseteq Group
    BY <1>0 DEF QueryState
  <2>3. group \in Group
    BY <1>0, <2>2 DEF Group, SameSignature
  <2>4. b \in QueryState
    <3>1. ASSUME NEW r \in QueryState, NEW todo \in SUBSET Canonicals,
                 NEW groups \in SUBSET Group
          PROVE  [r EXCEPT !.todo = todo, !.groups = groups] \in QueryState
      BY DEF QueryState
    <3> HIDE DEF group
    <3> QED
      BY <1>0, <2>2, <2>3, <3>1
  <2>5. a.pc = "groups" /\ b.pc = "groups"
    BY <1>0, <1>12 DEF QueryGroup, QueryState
  <2>6. b.todo = a.todo \ {c} /\ b.groups = a.groups \cup {group}
    BY <1>0 DEF QueryState
  <2>7. Changes(a, b, {"todo", "groups"})
    BY <1>0 DEF QueryState
  <2>8. Looks(a, b)
    BY <2>5, <2>6, <2>7 DEF Looks
  <2> QED
    BY <2>1, <2>4, <2>8 DEF ReaderStep
<1> QED
  BY <1>1, <1>2, <1>3, <1>4, <1>5, <1>6, <1>7, <1>8, <1>9, <1>10, <1>11, <1>12
     DEF QueryNext, QueryStep

\* What one step does to the counts of a reader.
Counts(a, b) ==
    LET selected == a.request.selected IN
    /\ b.pc # "idle"
    /\ \/ a.pc = "idle"
       \/ b.request = a.request
    /\ \/ b.total = a.total /\ b.refine = a.refine
       \/ /\ a.pc = "total" /\ a.request.kind = "facets"
          /\ b.total = FilterTotal(db, selected) /\ b.refine = a.refine
       \/ a.pc = "total" /\ a.request.kind # "facets"
       \/ /\ a.pc = "refine"
          /\ b.total = a.total /\ b.refine = Refinements(db, selected)

LEMMA QueryNextCounts ==
    ASSUME query \in [Readers -> QueryState], NEW q \in Readers, QueryNext(q),
           NEW p \in Readers
    PROVE  query'[p] = query[p] \/ (p = q /\ Counts(query[q], query'[q]))
<1> SUFFICES ASSUME p = q PROVE Counts(query[q], query'[q])
  BY DEF QueryNext, QueryStep, QueryStart, Received, QueryOpen, QueryBusy, SelectFails,
         QueryExact, QueryFuzzy, QueryTotal, QueryRefine, QueryList, FillIdentity,
         FilledExact, FilledAll, QueryShared, QueryGroup, GroupsDone
<1> USE DEF QueryState, Counts
<1>1. CASE QueryStart(q)
  <2>1. PICK request \in Requests : Received(q, request)
    BY <1>1 DEF QueryStart
  <2>2. FirstSelect(request) # "idle"
    BY DEF FirstSelect
  <2> QED
    BY <1>1, <2>1, <2>2 DEF QueryStart, Received
<1>2. CASE QueryOpen(q)
  BY <1>2 DEF QueryOpen, FirstSelect
<1>3. CASE QueryBusy(q) \/ SelectFails(q) \/ FilledAll(q) \/ GroupsDone(q)
  BY <1>3 DEF QueryBusy, SelectFails, FilledAll, GroupsDone
<1>4. CASE QueryExact(q)
  <2> DEFINE rows == SameSignature(db, query[q].request.canonical)
  <2>1. PICK firsts \in Firsts(rows) :
           query' = [query EXCEPT ![q] = [query[q] EXCEPT !.found = Collapsed(firsts, rows),
                                                          !.pc = "exactIds"]]
    BY <1>4 DEF QueryExact
  <2> QED
    BY <2>1
<1>5. CASE QueryFuzzy(q)
  BY <1>5 DEF QueryFuzzy
<1>6. CASE QueryTotal(q)
  BY <1>6 DEF QueryTotal
<1>7. CASE QueryRefine(q)
  BY <1>7 DEF QueryRefine
<1>8. CASE FillIdentity(q)
  BY <1>8 DEF FillIdentity
<1>9. CASE QueryGroup(q)
  BY <1>9 DEF QueryGroup
<1>10. CASE QueryList(q)
  <2> DEFINE rows == FilterList(db, query[q].request.selected)
  <2>1. PICK firsts \in Firsts(rows) :
           query' = [query EXCEPT ![q] = [query[q] EXCEPT !.found = Collapsed(firsts, rows),
                                                          !.pc = "ids"]]
    BY <1>10 DEF QueryList
  <2> QED
    BY <2>1
<1>11. CASE FilledExact(q)
  BY <1>11 DEF FilledExact
<1>12. CASE QueryShared(q)
  <2>1. PICK few :
           query' = [query EXCEPT ![q] = [query[q] EXCEPT !.todo = few, !.pc = "groups"]]
    BY <1>12 DEF QueryShared
  <2> QED
    BY <2>1
<1> QED
  BY <1>1, <1>2, <1>3, <1>4, <1>5, <1>6, <1>7, <1>8, <1>9, <1>10, <1>11, <1>12
     DEF QueryNext, QueryStep

LEMMA ReaderControlStep ==
    ASSUME NEW a, NEW b, ReaderControl(a), ReaderStep(a, b)
    PROVE  ReaderControl(b)
<1> USE DEF ReaderControl, Changes, Lists
<1>1. CASE Asks(a, b)
  BY <1>1, FirstSelectTyped DEF Asks
<1>2. CASE Moves(a, b)
  BY <1>2, FirstSelectTyped DEF Moves
<1>3. CASE FindsExact(a, b)
  BY <1>3 DEF FindsExact
<1>4. CASE FindsFuzzy(a, b)
  BY <1>4 DEF FindsFuzzy
<1>5. CASE FindsList(a, b)
  BY <1>5 DEF FindsList
<1>6. CASE Fills(a, b)
  BY <1>6 DEF Fills
<1>7. CASE TakesExact(a, b)
  BY <1>7 DEF TakesExact
<1>8. CASE Shared(a, b)
  BY <1>8 DEF Shared
<1>9. CASE Looks(a, b)
  BY <1>9 DEF Looks
<1> QED
  BY <1>1, <1>2, <1>3, <1>4, <1>5, <1>6, <1>7, <1>8, <1>9 DEF ReaderStep

CarriesSelected(a) ==
    a.request.kind = "facets" =>
        \A x \in a.found \cup a.shown : \A r \in x.occurrences :
            Chosen(a.request.selected) \subseteq FacetsOf[r.canonical]

LEMMA ListCarriesSelected ==
    ASSUME TablesInv(db), NEW a, a.request \in Requests, NEW firsts,
           NEW x \in Collapsed(firsts, FilterList(db, a.request.selected)),
           NEW r \in x.occurrences
    PROVE  Chosen(a.request.selected) \subseteq FacetsOf[r.canonical]
<1> DEFINE selected == a.request.selected
<1>1. selected \in Seq(FacetTags)
  BY QueryAssumption DEF Request
<1>2. r \in FilterList(db, selected)
  BY DEF Collapsed, SameSignature
<1>3. r \in db.formulas /\ r.id \in FilterIds(db, selected)
  BY <1>2 DEF FilterList
<1>4. CASE selected = <<>>
  BY <1>4 DEF Chosen
<1>5. CASE selected # <<>>
  <2>1. ASSUME NEW tag \in Chosen(selected)
        PROVE  tag \in FacetsOf[r.canonical]
    <3>1. [id |-> r.id, facet |-> tag] \in db.facets
      BY <1>1, <1>3, <1>5, FilterCarries DEF TablesInv
    <3> QED
      BY <1>3, <3>1 DEF TablesInv, SoundFacets
  <2> QED
    BY <2>1
<1> QED
  BY <1>4, <1>5

LEMMA CarriesStep ==
    ASSUME TablesInv(db), NEW a \in QueryState, NEW b \in QueryState, ReaderControl(a),
           CarriesSelected(a), ReaderStep(a, b)
    PROVE  CarriesSelected(b)
<1> USE DEF CarriesSelected, Changes, Lists
<1>1. CASE Asks(a, b)
  BY <1>1 DEF Asks, ReaderControl
<1>2. CASE Moves(a, b)
  BY <1>2 DEF Moves
<1>3. CASE FindsExact(a, b) \/ FindsFuzzy(a, b)
  BY <1>3 DEF FindsExact, FindsFuzzy, ReaderControl
<1>4. CASE FindsList(a, b)
  <2>1. a.shown = {} /\ a.request \in Requests /\ b.request = a.request /\ b.shown = a.shown
    BY <1>4 DEF FindsList, ReaderControl
  <2>2. PICK firsts : b.found = Collapsed(firsts, FilterList(db, a.request.selected))
    BY <1>4 DEF FindsList
  <2> QED
    BY <2>1, <2>2, ListCarriesSelected
<1>5. CASE Fills(a, b)
  <2>1. PICK x \in a.found : \E identity :
           /\ b.found = a.found \ {x}
           /\ b.shown = a.shown \cup {[x EXCEPT !.identity = identity]}
    BY <1>5 DEF Fills
  <2>2. PICK identity : b.shown = a.shown \cup {[x EXCEPT !.identity = identity]}
    BY <2>1
  <2>3. [x EXCEPT !.identity = identity].occurrences = x.occurrences
    BY DEF QueryState, Result
  <2>4. b.request = a.request
    BY <1>5 DEF Fills
  <2> QED
    BY <2>1, <2>2, <2>3, <2>4
<1>6. CASE TakesExact(a, b)
  BY <1>6 DEF TakesExact, ReaderControl
<1>7. CASE Shared(a, b) \/ Looks(a, b)
  BY <1>7 DEF Shared, Looks
<1> QED
  BY <1>1, <1>2, <1>3, <1>4, <1>5, <1>6, <1>7 DEF ReaderStep

=============================================================================
