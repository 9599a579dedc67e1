---------------------------- MODULE FormulaStore ----------------------------
(***************************************************************************)
(* The SQLite file behind package store, seen through the statements that  *)
(* store.go issues: three tables that must agree row by row (formulas,     *)
(* formula_fts, facets), the meta table, and SQLite's single writer lock.  *)
(*                                                                         *)
(* Tables are relations: sets of records whose id is the integer primary   *)
(* key of formulas, which is also the rowid of formula_fts and the         *)
(* formula_id of facets.  A canonical form stands for everything derived   *)
(* from it: the signature (its SHA-256, taken as injective) and the FTS    *)
(* document.  The display columns of formulas (label, source, class,       *)
(* latex, verified) are left out.                                          *)
(***************************************************************************)
EXTENDS Naturals, FiniteSetsExt

CONSTANTS
    EntryIds,          \* corpus entry ids
    Texts,             \* Mathematica texts of one side of an entry
    Engines,           \* versions of go-canonical (values of EngineProbe)
    Canonicals,        \* canonical forms
    FacetTags,         \* facet names
    Canon,             \* Canon[g][t]: canonical form of t under engine g
    FacetsOf,          \* FacetsOf[c]: the tags feature.FacetsFrom returns
    ParseError,        \* Canon[g][t] when canonical.Parse rejects t
    Blank,             \* the empty text
    None,              \* an absent meta value
    Free,              \* the writer lock when no transaction holds it
    ContentlessDelete  \* does formula_fts accept DELETE of a stored row?

SchemaVersion == "2"

(***************************************************************************)
(* The DDL declares formula_fts with content='' and no contentless_delete, *)
(* so SQLite refuses to delete a stored row: ContentlessDelete is FALSE in *)
(* this code.  TRUE is the table Add, Upsert and Reset are written for.    *)
(***************************************************************************)
ASSUME StoreAssumption ==
    /\ ContentlessDelete \in BOOLEAN
    /\ Canon \in [Engines -> [Texts -> Canonicals \cup {ParseError}]]
    /\ ParseError \notin Canonicals
    /\ Blank \notin Texts
    /\ None \notin Engines \cup {SchemaVersion}
    /\ FacetsOf \in [Canonicals -> SUBSET FacetTags]

VARIABLES
    db,     \* the committed tables
    txn,    \* the tables as the open write transaction sees them
    lock,   \* the process whose transaction holds the writer lock, or Free
    meta    \* the meta table

storeVars == <<db, txn, lock, meta>>

-----------------------------------------------------------------------------
\* The tables.

Sides == {"lhs", "rhs"}
RowIds == Nat \ {0}

Row == [id : RowIds, entry : EntryIds, side : Sides, text : Texts,
        canonical : Canonicals]
FtsRow == [id : RowIds, doc : Canonicals]
FacetRow == [id : RowIds, facet : FacetTags]

Tables == [formulas : SUBSET Row, fts : SUBSET FtsRow, facets : SUBSET FacetRow]
EmptyTables == [formulas |-> {}, fts |-> {}, facets |-> {}]

Ids(table) == {r.id : r \in table}

\* Mutant: the UNIQUE(entry_id, side) constraint is missing.
ConflictingNever(d, e, s) == {}

\* The row INSERT ... ON CONFLICT(entry_id, side) finds already there.
Conflicting(d, e, s) == {r \in d.formulas : r.entry = e /\ r.side = s}

\* Mutant: an id is never used again, as with AUTOINCREMENT.
NewRowIdFresh(d) == 1 + Max({0} \cup Ids(d.formulas) \cup Ids(d.fts))

\* INTEGER PRIMARY KEY without AUTOINCREMENT: one more than the largest id
\* present, so ids start again from 1 once the table has been emptied.
NewRowId(d) == 1 + Max({0} \cup Ids(d.formulas))

\* The id RETURNING yields: that of the updated row, or a new one.
UpsertId(d, e, s) ==
    IF Conflicting(d, e, s) = {} THEN NewRowId(d)
    ELSE (CHOOSE r \in Conflicting(d, e, s) : TRUE).id

\* Mutant: formula_fts accepts every DELETE.
CanDeleteDocsAlways(d, ids) == TRUE

\* DELETE FROM formula_fts is an error when it meets a row it cannot delete;
\* a DELETE that matches nothing always succeeds.
CanDeleteDocs(d, ids) == ContentlessDelete \/ Ids(d.fts) \cap ids = {}

\* Mutant: the document is replaced without a DELETE.
CanUpsertAlways(d, e, s) == TRUE

CanUpsert(d, e, s) == CanDeleteDocs(d, {UpsertId(d, e, s)})

\* Mutant: the facets of the row found are not deleted.
FacetsAfterKept(facets, id, c) ==
    facets \cup {[id |-> id, facet |-> tag] : tag \in FacetsOf[c]}

\* The facets of id, deleted and inserted.
FacetsAfter(facets, id, c) ==
    {x \in facets : x.id # id}
        \cup {[id |-> id, facet |-> tag] : tag \in FacetsOf[c]}

\* The statements of one upsert, in one transaction: the formula, then its
\* FTS row deleted and inserted, then its facets.
Upserted(d, e, s, t, c) ==
    LET id == UpsertId(d, e, s) IN
    [formulas |-> (d.formulas \ Conflicting(d, e, s))
                    \cup {[id |-> id, entry |-> e, side |-> s, text |-> t,
                           canonical |-> c]},
     fts      |-> {f \in d.fts : f.id # id} \cup {[id |-> id, doc |-> c]},
     facets   |-> FacetsAfter(d.facets, id, c)]

-----------------------------------------------------------------------------
\* How the three tables of d should agree.

UniqueKeys(d) ==
    \A x, y \in d.formulas :
        x.id = y.id \/ (x.entry = y.entry /\ x.side = y.side) => x = y

\* A document or tag whose id is that of a live formula is about that formula.
SoundDocs(d) ==
    \A r \in d.formulas, f \in d.fts : f.id = r.id => f.doc = r.canonical
SoundFacets(d) ==
    \A r \in d.formulas, x \in d.facets :
        x.id = r.id => x.facet \in FacetsOf[r.canonical]

\* Every live formula has its document, and all of its tags.
CompleteDocs(d) == Ids(d.formulas) \subseteq Ids(d.fts)
CompleteFacets(d) ==
    \A r \in d.formulas : \A tag \in FacetsOf[r.canonical] :
        [id |-> r.id, facet |-> tag] \in d.facets

\* Documents, but no formula they could belong to.
Wedged(d) == d.formulas = {} /\ d.fts # {}

-----------------------------------------------------------------------------
\* Locking.  A writer waits for the lock up to busy_timeout, then fails.

\* Mutant: no writer lock.
CanWriteAlways(w) == TRUE

CanWrite(w) == lock \in {Free, w}
Busy(w) == ~CanWrite(w)

\* What a statement of w's transaction reads: its own writes if it has any.
View(w) == IF lock = w THEN txn ELSE db

-----------------------------------------------------------------------------
\* Open's INSERT OR IGNORE, Stale, and the statements of Reset, each of which
\* is committed on its own.

RecordLayout ==
    meta' = [meta EXCEPT !.schema = IF @ = None THEN SchemaVersion ELSE @]

Stale(g) ==
    \/ meta.probe = None
    \/ meta.probe # g
    \/ meta.schema # SchemaVersion

DeleteFormulas == db' = [db EXCEPT !.formulas = {}]
DeleteFts      == db' = [db EXCEPT !.fts = {}]
DeleteFacets   == db' = [db EXCEPT !.facets = {}]

-----------------------------------------------------------------------------

StoreInit ==
    /\ db = EmptyTables
    /\ txn = EmptyTables
    /\ lock = Free
    /\ meta = [probe |-> None, schema |-> None]

=============================================================================
