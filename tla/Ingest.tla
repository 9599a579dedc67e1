------------------------------- MODULE Ingest -------------------------------
(***************************************************************************)
(* `mathsearch ingest` (cmdIngest): open the store, rebuild it when it is  *)
(* stale or -rebuild is given, then add every side of every corpus entry   *)
(* in transactions of BatchSize formulas.  Several ingest processes may    *)
(* run against one file, and each may die at any point and be run again.   *)
(***************************************************************************)
EXTENDS FormulaStore, Sequences

CONSTANTS
    Ingests,       \* the ingest processes
    Corpora,       \* corpora: sequences of [entry, side, text]
    IngestEngine,  \* the engine each process was built with
    BatchSize,     \* formulas per transaction (1000 in the code)
    MaxRuns        \* bound: times one process is run

CorpusItem == [entry : EntryIds, side : Sides, text : Texts \cup {Blank}]

ASSUME IngestAssumption ==
    /\ Corpora \subseteq Seq(CorpusItem)
    /\ IngestEngine \in [Ingests -> Engines]
    /\ BatchSize \in Nat \ {0}
    /\ MaxRuns \in Nat
    /\ Free \notin Ingests

VARIABLE ing   \* ing[i]: the control state of process i

ResetPcs  == {"delFormulas", "delFts", "delFacets", "stampProbe", "stampSchema"}
EndPcs    == {"done", "busyError", "ftsError", "pathError", "crashed"}
ActivePcs == {"open", "stale", "expand", "ingesting"} \cup ResetPcs

IngestState ==
    [pc      : {"off"} \cup ActivePcs \cup EndPcs,
     corpus  : Corpora \cup {<<>>},
     rebuild : BOOLEAN,
     pos     : Nat,             \* items read so far
     inBatch : 0..BatchSize,    \* formulas added since the last commit
     runs    : 0..MaxRuns]

IngestInit ==
    ing = [i \in Ingests |-> [pc |-> "off", corpus |-> <<>>, rebuild |-> FALSE,
                              pos |-> 0, inBatch |-> 0, runs |-> 0]]

Goto(i, pc) == ing' = [ing EXCEPT ![i].pc = pc]

-----------------------------------------------------------------------------

IngestStart(i) ==
    /\ ing[i].pc \in {"off"} \cup EndPcs
    /\ ing[i].runs < MaxRuns
    /\ \E c \in Corpora, rebuild \in BOOLEAN :
         ing' = [ing EXCEPT ![i] =
                   [pc |-> "open", corpus |-> c, rebuild |-> rebuild, pos |-> 0,
                    inBatch |-> 0, runs |-> @.runs + 1]]
    /\ UNCHANGED storeVars

\* store.Open: the DDL is idempotent; INSERT OR IGNORE records the layout.
IngestOpen(i) ==
    /\ ing[i].pc = "open"
    /\ CanWrite(i)
    /\ RecordLayout
    /\ Goto(i, "stale")
    /\ UNCHANGED <<db, txn, lock>>

IngestCheckStale(i) ==
    /\ ing[i].pc = "stale"
    /\ Goto(i, IF Stale(IngestEngine[i]) \/ ing[i].rebuild
               THEN "delFormulas" ELSE "expand")
    /\ UNCHANGED storeVars

ResetFormulas(i) ==
    /\ ing[i].pc = "delFormulas"
    /\ CanWrite(i)
    /\ DeleteFormulas
    /\ Goto(i, "delFts")
    /\ UNCHANGED <<txn, lock, meta>>

ResetFts(i) ==
    /\ ing[i].pc = "delFts"
    /\ CanWrite(i)
    /\ CanDeleteDocs(db, Ids(db.fts))
    /\ DeleteFts
    /\ Goto(i, "delFacets")
    /\ UNCHANGED <<txn, lock, meta>>

\* DELETE FROM formula_fts is refused: Reset returns, and so does cmdIngest.
ResetFtsFails(i) ==
    /\ ing[i].pc = "delFts"
    /\ CanWrite(i)
    /\ ~CanDeleteDocs(db, Ids(db.fts))
    /\ Goto(i, "ftsError")
    /\ UNCHANGED storeVars

ResetFacets(i) ==
    /\ ing[i].pc = "delFacets"
    /\ CanWrite(i)
    /\ DeleteFacets
    /\ Goto(i, "stampProbe")
    /\ UNCHANGED <<txn, lock, meta>>

StampProbe(i) ==
    /\ ing[i].pc = "stampProbe"
    /\ CanWrite(i)
    /\ meta' = [meta EXCEPT !.probe = IngestEngine[i]]
    /\ Goto(i, "stampSchema")
    /\ UNCHANGED <<db, txn, lock>>

StampSchema(i) ==
    /\ ing[i].pc = "stampSchema"
    /\ CanWrite(i)
    /\ meta' = [meta EXCEPT !.schema = SchemaVersion]
    /\ Goto(i, "expand")
    /\ UNCHANGED <<db, txn, lock>>

\* expand(targets) runs after the rebuild: a target that does not exist ends
\* the run with the store already emptied.
IngestExpand(i) ==
    /\ ing[i].pc = "expand"
    /\ \E next \in {"ingesting", "pathError"} : Goto(i, next)
    /\ UNCHANGED storeVars

-----------------------------------------------------------------------------
\* The corpus loop.  BEGIN is deferred: the first Add of a batch takes the
\* writer lock and the snapshot, and Commit gives the lock back.

Item(i) == ing[i].corpus[ing[i].pos + 1]
ItemCanon(i) == Canon[IngestEngine[i]][Item(i).text]

\* Mutant: a full batch is not flushed before the next formula.
HasItemAnyBatch(i) ==
    /\ ing[i].pc = "ingesting"
    /\ ing[i].pos < Len(ing[i].corpus)

HasItem(i) ==
    /\ ing[i].pc = "ingesting"
    /\ ing[i].inBatch < BatchSize
    /\ ing[i].pos < Len(ing[i].corpus)

Indexable(i) == Item(i).text # Blank /\ ItemCanon(i) # ParseError

\* A blank side, or one that does not parse, is skipped.
IngestSkip(i) ==
    /\ HasItem(i)
    /\ ~Indexable(i)
    /\ ing' = [ing EXCEPT ![i].pos = @ + 1]
    /\ UNCHANGED storeVars

IngestAdd(i) ==
    /\ HasItem(i)
    /\ Indexable(i)
    /\ CanWrite(i)
    /\ CanUpsert(View(i), Item(i).entry, Item(i).side)
    /\ txn' = Upserted(View(i), Item(i).entry, Item(i).side, Item(i).text,
                       ItemCanon(i))
    /\ lock' = i
    /\ ing' = [ing EXCEPT ![i] = [ing[i] EXCEPT !.pos = ing[i].pos + 1,
                                                !.inBatch = ing[i].inBatch + 1]]
    /\ UNCHANGED <<db, meta>>

\* Mutant: the batch is left open when Add fails.
IngestAddFailsKeepsBatch(i) ==
    /\ HasItem(i)
    /\ Indexable(i)
    /\ CanWrite(i)
    /\ ~CanUpsert(View(i), Item(i).entry, Item(i).side)
    /\ Goto(i, "ftsError")
    /\ UNCHANGED storeVars

\* Add reports an error: the batch is rolled back and cmdIngest returns.
IngestAddFails(i) ==
    /\ HasItem(i)
    /\ Indexable(i)
    /\ CanWrite(i)
    /\ ~CanUpsert(View(i), Item(i).entry, Item(i).side)
    /\ txn' = EmptyTables
    /\ lock' = Free
    /\ Goto(i, "ftsError")
    /\ UNCHANGED <<db, meta>>

\* Mutant: flush does not reset inBatch.
IngestFlushKeepsCount(i) ==
    /\ ing[i].pc = "ingesting"
    /\ \/ ing[i].inBatch = BatchSize
       \/ ing[i].pos = Len(ing[i].corpus) /\ ing[i].inBatch > 0
    /\ db' = txn
    /\ txn' = EmptyTables
    /\ lock' = Free
    /\ UNCHANGED <<ing, meta>>

\* Mutant: flush rolls the batch back.
IngestFlushRollsBack(i) ==
    /\ ing[i].pc = "ingesting"
    /\ \/ ing[i].inBatch = BatchSize
       \/ ing[i].pos = Len(ing[i].corpus) /\ ing[i].inBatch > 0
    /\ txn' = EmptyTables
    /\ lock' = Free
    /\ ing' = [ing EXCEPT ![i].inBatch = 0]
    /\ UNCHANGED <<db, meta>>

IngestFlush(i) ==
    /\ ing[i].pc = "ingesting"
    /\ \/ ing[i].inBatch = BatchSize
       \/ ing[i].pos = Len(ing[i].corpus) /\ ing[i].inBatch > 0
    /\ db' = txn
    /\ txn' = EmptyTables
    /\ lock' = Free
    /\ ing' = [ing EXCEPT ![i].inBatch = 0]
    /\ UNCHANGED meta

\* Mutant: the flush after the loop is missing, and Rollback discards the
\* last batch.
IngestFinishNoFlush(i) ==
    /\ ing[i].pc = "ingesting"
    /\ ing[i].pos = Len(ing[i].corpus)
    /\ Goto(i, "done")
    /\ txn' = IF lock = i THEN EmptyTables ELSE txn
    /\ lock' = IF lock = i THEN Free ELSE lock
    /\ UNCHANGED <<db, meta>>

IngestFinish(i) ==
    /\ ing[i].pc = "ingesting"
    /\ ing[i].pos = Len(ing[i].corpus)
    /\ ing[i].inBatch = 0
    /\ Goto(i, "done")
    /\ UNCHANGED storeVars

-----------------------------------------------------------------------------

\* A write statement that meets another transaction may outlast busy_timeout.
\* Only a batch's first Add can: later ones already hold the lock.
IngestBusy(i) ==
    /\ \/ ing[i].pc \in {"open"} \cup ResetPcs
       \/ HasItem(i) /\ Indexable(i)
    /\ Busy(i)
    /\ Goto(i, "busyError")
    /\ UNCHANGED storeVars

\* The process dies: SQLite discards its open transaction.
IngestCrash(i) ==
    /\ ing[i].pc \in ActivePcs
    /\ Goto(i, "crashed")
    /\ txn' = IF lock = i THEN EmptyTables ELSE txn
    /\ lock' = IF lock = i THEN Free ELSE lock
    /\ UNCHANGED <<db, meta>>

\* The steps a running process takes by itself.
IngestStep(i) ==
    \/ IngestOpen(i) \/ IngestCheckStale(i)
    \/ ResetFormulas(i) \/ ResetFts(i) \/ ResetFtsFails(i) \/ ResetFacets(i)
    \/ StampProbe(i) \/ StampSchema(i) \/ IngestExpand(i)
    \/ IngestSkip(i) \/ IngestAdd(i) \/ IngestAddFails(i)
    \/ IngestFlush(i) \/ IngestFinish(i) \/ IngestBusy(i)

IngestNext(i) == IngestStart(i) \/ IngestStep(i) \/ IngestCrash(i)

=============================================================================
