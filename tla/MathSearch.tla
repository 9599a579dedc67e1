----------------------------- MODULE MathSearch -----------------------------
(***************************************************************************)
(* The whole write path over one database file: any number of `mathsearch  *)
(* ingest` processes and of `mathsearch serve` processes with concurrent   *)
(* POST /api/formulas requests, sharing the tables of package store.       *)
(***************************************************************************)
EXTENDS Ingest, Server

vars == <<storeVars, ing, serverVars>>

Init == StoreInit /\ IngestInit /\ ServerInit

Next ==
    \/ \E i \in Ingests : IngestNext(i) /\ UNCHANGED serverVars
    \/ ServerNext /\ UNCHANGED ing

Spec == Init /\ [][Next]_vars

\* A process that runs is scheduled: each of its steps either is enabled until
\* taken or, when it waits for the writer lock, ends in the busy timeout.
\* Nothing obliges a process to start, and nothing obliges one to crash.
Fairness ==
    /\ \A i \in Ingests : WF_vars(IngestStep(i) /\ UNCHANGED serverVars)
    /\ \A p \in Posts : WF_vars(PostStep(p) /\ UNCHANGED ing)

FairSpec == Spec /\ Fairness

ASSUME WriterAssumption == Free \notin Posts /\ Ingests \cap Posts = {}

TypeOK ==
    /\ db \in Tables
    /\ txn \in Tables
    /\ lock \in Ingests \cup {Free}
    /\ meta \in [probe : Engines \cup {None}, schema : {SchemaVersion, None}]
    /\ ing \in [Ingests -> IngestState]
    /\ serving \subseteq Servers
    /\ post \in [Posts -> PostState]

-----------------------------------------------------------------------------
(***************************************************************************)
(* Agreement of the tables.                                                *)
(***************************************************************************)

\* No search attributes to a formula a document or a tag of another one.  Ids
\* are reused after a rebuild and a rebuild deletes table by table, so a new
\* formula may find rows of a deleted one under its id: Add and Upsert must
\* clear them.  In the committed tables and inside an open batch.
SearchSound ==
    \A d \in {db, txn} : UniqueKeys(d) /\ SoundDocs(d) /\ SoundFacets(d)

\* A formula exact search finds can be found by fuzzy search too, at every
\* point of every rebuild, ingest and POST.
FuzzyComplete == \A d \in {db, txn} : CompleteDocs(d)

\* A formula has all of its tags, or has lost them all to the DELETE FROM facets of
\* a rebuild that another process began before it was stored; never only some.
FacetsAllOrNone ==
    \A d \in {db, txn} : \A r \in d.formulas :
        {x.facet : x \in {y \in d.facets : y.id = r.id}} \in {{}, FacetsOf[r.canonical]}

\* The writer lock is held exactly by the ingest that has uncommitted formulas:
\* no error path, crash or finished run leaves the store locked.
LockHolderActive ==
    \A i \in Ingests :
        lock = i <=> ing[i].pc = "ingesting" /\ ing[i].inBatch > 0

-----------------------------------------------------------------------------
(***************************************************************************)
(* What an ingest run achieves.                                            *)
(***************************************************************************)

\* Item k of i's corpus as a row of d.
Stored(d, i, k) ==
    LET item == ing[i].corpus[k] IN
    \E r \in d.formulas :
        /\ r.entry = item.entry /\ r.side = item.side /\ r.text = item.text
        /\ r.canonical = Canon[IngestEngine[i]][item.text]

ToStore(i, k) ==
    /\ ing[i].corpus[k].text # Blank
    /\ Canon[IngestEngine[i]][ing[i].corpus[k].text] # ParseError

\* The same side of the same entry was read again later.
Superseded(i, k) ==
    \E j \in k + 1..ing[i].pos :
        /\ ing[i].corpus[j].entry = ing[i].corpus[k].entry
        /\ ing[i].corpus[j].side = ing[i].corpus[k].side
        /\ ToStore(i, j)

\* What an ingest has read is in the store, across batch boundaries and up to
\* the end of the run, unless another process emptied the store meanwhile.
NothingSkipped ==
    \A i \in Ingests :
        ing[i].pc \in {"ingesting", "done"} =>
            \/ \A k \in 1..ing[i].pos :
                 ToStore(i, k) /\ ~Superseded(i, k) => Stored(View(i), i, k)
            \/ View(i).formulas = {}

\* An ingest that starts always ends, whatever the others do.
IngestEnds ==
    \A i \in Ingests : ing[i].pc \in ActivePcs ~> ing[i].pc \in EndPcs

-----------------------------------------------------------------------------
(***************************************************************************)
(* What a POST achieves.                                                   *)
(***************************************************************************)

\* A side the server answered 200 for is never replaced by anything else: it
\* is what the client posted, or the store was emptied since.
AcknowledgedKept ==
    \A p \in Posts, s \in Sides :
        post[p].pc = "200" /\ post[p].body[s] # Blank =>
            \A r \in Conflicting(db, post[p].body.entry, s) :
                r.text = post[p].body[s]

\* Every request the server accepted is answered, or its server died.
PostsAnswered ==
    \A p \in Posts : post[p].pc \in HandlerPcs ~> post[p].pc \in Answers

-----------------------------------------------------------------------------
(***************************************************************************)
(* What the comments of the code say of it.                                *)
(***************************************************************************)

\* "Upsert inserts or replaces a formula": a POST is never refused because of
\* what is already stored.
UpsertReplaces == \A p \in Posts : post[p].pc # "fts500"

\* The filter "returns the number of formulas carrying all selected facets": every
\* formula has all of its tags, so that the filter can count it.
FacetsComplete == CompleteFacets(db)

-----------------------------------------------------------------------------
(***************************************************************************)
(* A formula is written once.                                              *)
(***************************************************************************)

\* Committed formulas never change and never vanish one by one: a step keeps
\* them all as they are, or empties the table.
FormulasImmutable ==
    [][db.formulas \subseteq db'.formulas \/ db'.formulas = {}]_vars

\* Once a rebuild has emptied formulas but could not empty formula_fts, the
\* store never holds a formula again: ids start again at 1, where the
\* documents of the deleted formulas still are.
WedgedForever == [][Wedged(db) => Wedged(db')]_vars

\* The two ways of searching, seen together, implement SearchIndex.
ExactView == {<<r.entry, r.side, r.canonical>> : r \in db.formulas}
Hits == {hit \in db.formulas \X db.fts : hit[1].id = hit[2].id}
FuzzyView == {<<hit[1].entry, hit[1].side, hit[2].doc>> : hit \in Hits}

Index == INSTANCE SearchIndex
    WITH exact <- ExactView, fuzzy <- FuzzyView, retired <- Wedged(db)

ImplementsSearchIndex == Index!Spec

=============================================================================
