-------------------------- MODULE MathSearchProofs --------------------------
(***************************************************************************)
(* Theorems about MathSearch for any number of ingests, servers, requests, *)
(* engines, entries and any batch size.                                    *)
(*                                                                         *)
(* The argument has two parts.  ControlInv, about the processes and the    *)
(* lock, is inductive by itself; under it, every step of the system is one *)
(* of the few steps of StoreStep on the tables.  Everything about the      *)
(* tables is then proved of StoreStep, without looking at a process again. *)
(***************************************************************************)
EXTENDS MathSearch, FormulaStoreProofs

\* A run comes to the corpus loop with an empty batch.
BatchStartsEmpty ==
    \A i \in Ingests :
        ing[i].pc \in ActivePcs \ {"ingesting"} => ing[i].inBatch = 0

\* A request that is being handled names its entry.
PostsHaveIds ==
    \A p \in Posts : post[p].pc \in HandlerPcs => post[p].body.entry \in EntryIds

ControlInv ==
    /\ lock \in Ingests \cup {Free}
    /\ meta \in [probe : Engines \cup {None}, schema : {SchemaVersion, None}]
    /\ ing \in [Ingests -> IngestState]
    /\ serving \subseteq Servers
    /\ post \in [Posts -> PostState]
    /\ LockHolderActive
    /\ BatchStartsEmpty
    /\ PostsHaveIds

\* d2 is d after one upsert that SQLite accepts.
UpsertInto(d, d2) ==
    \E e \in EntryIds, s \in Sides, t \in Texts, c \in Canonicals :
        CanUpsert(d, e, s) /\ d2 = Upserted(d, e, s, t, c)

\* The steps of the tables.  A statement outside a batch needs the lock free; a
\* batch is built in txn by the holder of the lock and then committed whole or
\* discarded whole.
Autocommit ==
    /\ lock = Free
    /\ \/ DeleteFormulas
       \/ CanDeleteDocs(db, Ids(db.fts)) /\ DeleteFts
       \/ DeleteFacets
       \/ UpsertInto(db, db')
    /\ UNCHANGED <<txn, lock>>
BatchAdd ==
    \E i \in Ingests :
        /\ lock \in {Free, i}
        /\ lock' = i
        /\ UpsertInto(View(i), txn')
        /\ UNCHANGED db
BatchCommit ==
    /\ lock # Free
    /\ lock' = Free
    /\ db' = txn
    /\ txn' = EmptyTables
BatchDiscard ==
    /\ lock' = Free
    /\ txn' = EmptyTables
    /\ UNCHANGED db

StoreStep ==
    Autocommit \/ BatchAdd \/ BatchCommit \/ BatchDiscard
      \/ UNCHANGED <<db, txn, lock>>

-----------------------------------------------------------------------------
(***************************************************************************)
(* The processes and the lock.                                             *)
(***************************************************************************)

LEMMA ControlInvInit == Init => ControlInv
<1> SUFFICES ASSUME Init PROVE ControlInv
  OBVIOUS
<1> USE DEF Init, StoreInit, IngestInit, ServerInit
<1>1. ing \in [Ingests -> IngestState]
  BY IngestAssumption DEF IngestState, EndPcs
<1>2. post \in [Posts -> PostState]
  BY DEF PostState
<1>3. LockHolderActive
  BY IngestAssumption DEF LockHolderActive
<1>4. BatchStartsEmpty
  BY DEF BatchStartsEmpty
<1>5. PostsHaveIds
  BY DEF PostsHaveIds, HandlerPcs, Sides
<1> QED
  BY <1>1, <1>2, <1>3, <1>4, <1>5 DEF ControlInv

\* Only the record of the process that steps changes, and only this of it
\* matters to the lock.
LEMMA ControlInvIngest ==
    ASSUME ControlInv, NEW i \in Ingests, IngestNext(i), UNCHANGED serverVars
    PROVE  ControlInv'
<1>0. /\ ing[i] \in IngestState
      /\ meta \in [probe : Engines \cup {None}, schema : {SchemaVersion, None}]
      /\ IngestEngine[i] \in Engines
      /\ lock = i <=> ing[i].pc = "ingesting" /\ ing[i].inBatch > 0
      /\ \A j \in Ingests \ {i} :
            lock = j <=> ing[j].pc = "ingesting" /\ ing[j].inBatch > 0
      /\ \A j \in Ingests : ing[j].pc \in ActivePcs \ {"ingesting"} => ing[j].inBatch = 0
      /\ BatchSize \in Nat \ {0} /\ MaxRuns \in Nat /\ Free \notin Ingests
  BY IngestAssumption DEF ControlInv, LockHolderActive, BatchStartsEmpty
<1>1. serving' \subseteq Servers /\ post' \in [Posts -> PostState] /\ PostsHaveIds'
  BY DEF ControlInv, serverVars, PostsHaveIds
<1>2. /\ ing'[i] \in IngestState
      /\ ing' = [ing EXCEPT ![i] = ing'[i]]
      /\ lock' \in {lock, i, Free}
      /\ lock' = i <=> ing'[i].pc = "ingesting" /\ ing'[i].inBatch > 0
      /\ lock' = lock \/ lock \in {i, Free}
      /\ ing'[i].pc \in ActivePcs \ {"ingesting"} => ing'[i].inBatch = 0
      /\ meta' \in [probe : Engines \cup {None}, schema : {SchemaVersion, None}]
  <2>0. ASSUME NEW pc \in ActivePcs \cup EndPcs, Goto(i, pc)
        PROVE  /\ ing'[i] \in IngestState
               /\ ing' = [ing EXCEPT ![i] = ing'[i]]
               /\ ing'[i].pc = pc /\ ing'[i].inBatch = ing[i].inBatch
    <3> DEFINE rec == [ing[i] EXCEPT !.pc = pc]
    <3>1. rec \in IngestState
      BY <1>0, <2>0 DEF IngestState
    <3>2. ing' = [ing EXCEPT ![i] = rec]
      BY <2>0 DEF Goto
    <3>3. ing'[i] = rec
      BY <3>2 DEF ControlInv
    <3>4. rec.pc = pc /\ rec.inBatch = ing[i].inBatch
      BY <1>0 DEF IngestState
    <3> HIDE DEF rec
    <3> QED
      BY <3>1, <3>2, <3>3, <3>4
  <2>a. ASSUME NEW rec \in IngestState, ing' = [ing EXCEPT ![i] = rec]
        PROVE  ing'[i] = rec
    BY <2>a DEF ControlInv
  <2> USE DEF ActivePcs, EndPcs, ResetPcs, Goto
  <2>1. CASE IngestStart(i)
    <3>1. PICK c \in Corpora, rebuild \in BOOLEAN :
             ing' = [ing EXCEPT ![i] =
                       [pc |-> "open", corpus |-> c, rebuild |-> rebuild, pos |-> 0,
                        inBatch |-> 0, runs |-> ing[i].runs + 1]]
      BY <2>1 DEF IngestStart
    <3> DEFINE rec == [pc |-> "open", corpus |-> c, rebuild |-> rebuild, pos |-> 0,
                       inBatch |-> 0, runs |-> ing[i].runs + 1]
    <3>2. /\ ing[i].pc \in {"off"} \cup EndPcs /\ ing[i].runs < MaxRuns
          /\ UNCHANGED <<lock, meta>>
      BY <2>1 DEF IngestStart, storeVars
    <3>3. rec \in IngestState /\ rec.pc = "open" /\ rec.inBatch = 0
      BY <1>0, <3>2 DEF IngestState
    <3>4. lock # i
      BY <1>0, <3>2
    <3>5. ing' = [ing EXCEPT ![i] = rec]
      BY <3>1
    <3> HIDE DEF rec
    <3>6. ing'[i] = rec
      BY <2>a, <3>3, <3>5
    <3> QED
      BY <1>0, <3>2, <3>3, <3>4, <3>5, <3>6
  <2>2. CASE IngestOpen(i)
    BY <1>0, <2>0, <2>2 DEF IngestOpen, RecordLayout
  <2>3. CASE IngestCheckStale(i)
    <3>1. PICK pc \in {"delFormulas", "expand"} : Goto(i, pc)
      BY <2>3 DEF IngestCheckStale
    <3>2. ing[i].pc = "stale" /\ UNCHANGED <<lock, meta>>
      BY <2>3 DEF IngestCheckStale, storeVars
    <3> QED
      BY <1>0, <2>0, <3>1, <3>2
  <2>4. CASE ResetFormulas(i)
    BY <1>0, <2>0, <2>4 DEF ResetFormulas
  <2>5. CASE ResetFts(i)
    BY <1>0, <2>0, <2>5 DEF ResetFts
  <2>6. CASE ResetFtsFails(i)
    BY <1>0, <2>0, <2>6 DEF ResetFtsFails, storeVars
  <2>7. CASE ResetFacets(i)
    BY <1>0, <2>0, <2>7 DEF ResetFacets
  <2>8. CASE StampProbe(i)
    BY <1>0, <2>0, <2>8 DEF StampProbe
  <2>9. CASE StampSchema(i)
    BY <1>0, <2>0, <2>9 DEF StampSchema
  <2>10. CASE IngestExpand(i)
    <3>1. PICK pc \in {"ingesting", "pathError"} : Goto(i, pc)
      BY <2>10 DEF IngestExpand
    <3>2. ing[i].pc = "expand" /\ UNCHANGED <<lock, meta>>
      BY <2>10 DEF IngestExpand, storeVars
    <3>3. ing[i].inBatch = 0 /\ lock # i
      BY <1>0, <3>2
    <3>4. /\ ing'[i] \in IngestState
          /\ ing' = [ing EXCEPT ![i] = ing'[i]]
          /\ ing'[i].inBatch = 0
      BY <2>0, <3>1, <3>3
    <3> QED
      BY <1>0, <3>2, <3>3, <3>4
  <2>11. CASE IngestSkip(i)
    <3> DEFINE rec == [ing[i] EXCEPT !.pos = ing[i].pos + 1]
    <3>1. ing' = [ing EXCEPT ![i] = rec] /\ UNCHANGED <<lock, meta>>
      BY <2>11 DEF IngestSkip, storeVars
    <3>2. /\ rec \in IngestState
          /\ rec.pc = ing[i].pc /\ rec.inBatch = ing[i].inBatch
      BY <1>0 DEF IngestState
    <3> HIDE DEF rec
    <3>3. ing'[i] = rec
      BY <2>a, <3>1, <3>2
    <3>4. lock' = i <=> ing'[i].pc = "ingesting" /\ ing'[i].inBatch > 0
      BY <1>0, <3>1, <3>2, <3>3
    <3>5. ing'[i].pc \in ActivePcs \ {"ingesting"} => ing'[i].inBatch = 0
      BY <1>0, <3>2, <3>3
    <3> QED
      BY <1>0, <3>1, <3>2, <3>3, <3>4, <3>5
  <2>12. CASE IngestAdd(i)
    <3> DEFINE rec == [ing[i] EXCEPT !.pos = ing[i].pos + 1,
                                     !.inBatch = ing[i].inBatch + 1]
    <3>a. ing' = [ing EXCEPT ![i] = rec]
      BY <2>12 DEF IngestAdd
    <3>1. /\ ing[i].pc = "ingesting" /\ ing[i].inBatch < BatchSize
          /\ lock \in {Free, i} /\ lock' = i /\ UNCHANGED meta
      BY <2>12 DEF IngestAdd, HasItem, CanWrite
    <3>0. ing[i].inBatch + 1 \in 0..BatchSize /\ ing[i].inBatch + 1 > 0
      <4>1. ing[i].inBatch \in 0..BatchSize
        BY <1>0 DEF IngestState
      <4> QED
        BY <1>0, <3>1, <4>1
    <3>b. rec.pc = ing[i].pc /\ rec.inBatch = ing[i].inBatch + 1
      BY <1>0 DEF IngestState
    <3>2. rec \in IngestState
      <4>1. \A r \in IngestState, m \in Nat, n \in 0..BatchSize :
              [r EXCEPT !.pos = m, !.inBatch = n] \in IngestState
        BY DEF IngestState
      <4>2. ing[i].pos + 1 \in Nat
        BY <1>0 DEF IngestState
      <4> QED
        BY <1>0, <3>0, <4>1, <4>2
    <3> HIDE DEF rec
    <3>3. ing'[i] = rec
      BY <2>a, <3>a, <3>2
    <3> QED
      BY <1>0, <3>0, <3>1, <3>2, <3>3, <3>a, <3>b
  <2>13. CASE IngestAddFails(i)
    <3>1. Goto(i, "ftsError") /\ lock \in {Free, i} /\ lock' = Free /\ UNCHANGED meta
      BY <2>13 DEF IngestAddFails, CanWrite
    <3> QED
      BY <1>0, <2>0, <3>1
  <2>14. CASE IngestFlush(i)
    <3> DEFINE rec == [ing[i] EXCEPT !.inBatch = 0]
    <3>1. /\ ing' = [ing EXCEPT ![i] = rec]
          /\ ing[i].pc = "ingesting" /\ ing[i].inBatch > 0
          /\ lock' = Free /\ UNCHANGED meta
      BY <1>0, <2>14 DEF IngestFlush
    <3>2. rec \in IngestState /\ rec.pc = "ingesting" /\ rec.inBatch = 0
      BY <1>0, <3>1 DEF IngestState
    <3> HIDE DEF rec
    <3>3. ing'[i] = rec
      BY <2>a, <3>1, <3>2
    <3>4. lock = i /\ lock' # i
      BY <1>0, <3>1
    <3>5. ~(ing'[i].inBatch > 0)
      BY <3>2, <3>3
    <3> QED
      BY <1>0, <3>1, <3>2, <3>3, <3>4, <3>5
  <2>15. CASE IngestFinish(i)
    <3>1. Goto(i, "done") /\ ing[i].inBatch = 0 /\ UNCHANGED <<lock, meta>>
      BY <2>15 DEF IngestFinish, storeVars
    <3>2. lock # i
      BY <1>0, <3>1
    <3> QED
      BY <1>0, <2>0, <3>1, <3>2
  <2>16. CASE IngestBusy(i)
    <3>1. Goto(i, "busyError") /\ lock # i /\ UNCHANGED <<lock, meta>>
      BY <2>16 DEF IngestBusy, Busy, CanWrite, storeVars
    <3> QED
      BY <1>0, <2>0, <3>1
  <2>17. CASE IngestCrash(i)
    <3>1. Goto(i, "crashed") /\ UNCHANGED meta
      BY <2>17 DEF IngestCrash
    <3>2. lock' # i /\ lock' \in {lock, Free} /\ (lock' = lock \/ lock = i)
      BY <1>0, <2>17 DEF IngestCrash
    <3> QED
      BY <1>0, <2>0, <3>1, <3>2
  <2> QED
    BY <2>1, <2>2, <2>3, <2>4, <2>5, <2>6, <2>7, <2>8, <2>9, <2>10, <2>11,
       <2>12, <2>13, <2>14, <2>15, <2>16, <2>17 DEF IngestNext, IngestStep
<1>3. ing' \in [Ingests -> IngestState]
  BY <1>2 DEF ControlInv
<1>4. LockHolderActive'
  <2> SUFFICES ASSUME NEW j \in Ingests, j # i
               PROVE  lock' = j <=> ing'[j].pc = "ingesting" /\ ing'[j].inBatch > 0
    BY <1>2 DEF LockHolderActive
  <2>1. ing'[j] = ing[j]
    BY <1>2 DEF ControlInv
  <2>2. lock' = j <=> lock = j
    BY <1>0, <1>2
  <2> QED
    BY <1>0, <2>1, <2>2
<1>5. BatchStartsEmpty'
  BY <1>0, <1>2 DEF ControlInv, BatchStartsEmpty
<1> QED
  BY <1>0, <1>1, <1>2, <1>3, <1>4, <1>5 DEF ControlInv

\* Requests and servers leave the lock and the ingests alone.
LEMMA ControlInvServer ==
    ASSUME ControlInv, ServerNext, UNCHANGED ing
    PROVE  ControlInv'
<1>1. /\ serving' \subseteq Servers
      /\ post' \in [Posts -> PostState]
      /\ meta' \in [probe : Engines \cup {None}, schema : {SchemaVersion, None}]
      /\ UNCHANGED lock
  <2> USE DEF HandlerPcs, Answers, Sides
  <2>0. /\ serving \subseteq Servers /\ post \in [Posts -> PostState]
        /\ meta \in [probe : Engines \cup {None}, schema : {SchemaVersion, None}]
    BY DEF ControlInv
  <2>1. ASSUME NEW p \in Posts, PostStart(p)
        PROVE  /\ post' \in [Posts -> PostState]
               /\ UNCHANGED <<serving, meta, lock>>
    <3>1. PICK b \in Submissions :
            post' = [post EXCEPT ![p] =
                       [post[p] EXCEPT !.body = b,
                                       !.pc = IF b.entry = Blank THEN "400"
                                              ELSE "lhs"]]
      BY <2>1 DEF PostStart
    <3> DEFINE pc == IF b.entry = Blank THEN "400" ELSE "lhs"
               rec == [post[p] EXCEPT !.body = b, !.pc = pc]
    <3>2. pc \in HandlerPcs \cup Answers
      OBVIOUS
    <3> HIDE DEF pc
    <3>3. \A r \in PostState : [r EXCEPT !.body = b, !.pc = pc] \in PostState
      BY <3>2 DEF PostState
    <3>4. post[p] \in PostState
      BY <2>0
    <3>5. rec \in PostState
      BY <3>3, <3>4
    <3>6. post' = [post EXCEPT ![p] = rec]
      BY <3>1 DEF pc
    <3> HIDE DEF rec
    <3>7. post' \in [Posts -> PostState]
      BY <2>0, <3>5, <3>6
    <3> QED
      BY <2>1, <3>7 DEF PostStart, storeVars
  <2>2. ASSUME NEW p \in Posts, NEW s \in Sides, PostSide(p, s)
        PROVE  /\ post' \in [Posts -> PostState]
               /\ UNCHANGED <<serving, meta, lock>>
    <3> USE <2>0 DEF PostState, storeVars, AfterSide
    <3>1. CASE PostSkipSide(p, s)
      BY <3>1 DEF PostSkipSide
    <3>2. CASE PostParseError(p, s)
      BY <3>2 DEF PostParseError
    <3>3. CASE PostUpsert(p, s)
      <4> DEFINE rec == [post[p] EXCEPT !.pc = AfterSide(s), !.indexed = post[p].indexed + 1]
      <4>1. post' = [post EXCEPT ![p] = rec] /\ UNCHANGED <<serving, meta, lock>>
        BY <3>3 DEF PostUpsert
      <4>2. rec \in PostState
        <5>1. \A r \in PostState, pc \in HandlerPcs, n \in Nat :
                [r EXCEPT !.pc = pc, !.indexed = n] \in PostState
          OBVIOUS
        <5>2. post[p] \in PostState /\ post[p].indexed + 1 \in Nat
          OBVIOUS
        <5> QED
          BY <5>1, <5>2
      <4> HIDE DEF rec
      <4> QED
        BY <4>1, <4>2
    <3>4. CASE PostUpsertFails(p, s)
      BY <3>4 DEF PostUpsertFails
    <3>5. CASE PostBusy(p, s)
      BY <3>5 DEF PostBusy
    <3> QED
      BY <2>2, <3>1, <3>2, <3>3, <3>4, <3>5 DEF PostSide
  <2>3. ASSUME NEW p \in Posts, PostRespond(p)
        PROVE  /\ post' \in [Posts -> PostState]
               /\ UNCHANGED <<serving, meta, lock>>
    BY <2>0, <2>3 DEF PostRespond, PostState, storeVars
  <2>4. ASSUME NEW g \in Servers, ServerStart(g)
        PROVE  /\ serving' \subseteq Servers /\ UNCHANGED <<post, lock>>
               /\ meta' \in [probe : Engines \cup {None}, schema : {SchemaVersion, None}]
    BY <2>0, <2>4 DEF ServerStart, RecordLayout
  <2>5. ASSUME NEW g \in Servers, ServerCrash(g)
        PROVE  /\ serving' \subseteq Servers /\ UNCHANGED <<meta, lock>>
               /\ post' \in [Posts -> PostState]
    BY <2>0, <2>5 DEF ServerCrash, PostState, storeVars
  <2>6. CASE \E p \in Posts : PostStart(p) \/ PostStep(p)
    BY <2>0, <2>1, <2>2, <2>3, <2>6 DEF PostStep
  <2>7. CASE \E g \in Servers : ServerStart(g) \/ ServerCrash(g)
    BY <2>0, <2>4, <2>5, <2>7
  <2> QED
    BY <2>6, <2>7 DEF ServerNext
<1>2. PostsHaveIds'
  <2> SUFFICES ASSUME NEW p \in Posts, post'[p].pc \in HandlerPcs
               PROVE  post'[p].body.entry \in EntryIds
    BY DEF PostsHaveIds
  <2> USE DEF HandlerPcs, Sides, ControlInv, PostsHaveIds
  <2>1. ASSUME NEW q \in Posts, PostStart(q)
        PROVE  post'[p].body.entry \in EntryIds
    <3>1. PICK b \in Submissions :
             post' = [post EXCEPT ![q] =
                        [post[q] EXCEPT !.body = b,
                                        !.pc = IF b.entry = Blank THEN "400" ELSE "lhs"]]
      BY <2>1 DEF PostStart
    <3>2. b.entry \in EntryIds \cup {Blank}
      BY ServerAssumption
    <3>3. CASE p = q
      BY <3>1, <3>2, <3>3 DEF PostState
    <3>4. CASE p # q
      BY <3>1, <3>4
    <3> QED
      BY <3>3, <3>4
  <2>2. ASSUME NEW q \in Posts, NEW s \in Sides, PostSide(q, s)
        PROVE  post'[p].body = post[p].body /\ post[p].pc \in HandlerPcs
    <3> USE <2>2 DEF PostState, storeVars, AfterSide
    <3>1. CASE PostSkipSide(q, s)
      BY <3>1 DEF PostSkipSide
    <3>2. CASE PostParseError(q, s)
      BY <3>2 DEF PostParseError
    <3>3. CASE PostUpsert(q, s)
      BY <3>3 DEF PostUpsert
    <3>4. CASE PostUpsertFails(q, s)
      BY <3>4 DEF PostUpsertFails
    <3>5. CASE PostBusy(q, s)
      BY <3>5 DEF PostBusy
    <3> QED
      BY <2>2, <3>1, <3>2, <3>3, <3>4, <3>5 DEF PostSide
  <2>3. ASSUME NEW q \in Posts, PostRespond(q)
        PROVE  post'[p].body = post[p].body /\ post[p].pc \in HandlerPcs
    BY <2>3 DEF PostRespond, PostState
  <2>4. ASSUME NEW g \in Servers, ServerStart(g) \/ ServerCrash(g)
        PROVE  post'[p].body = post[p].body /\ post[p].pc \in HandlerPcs
    BY <2>4 DEF ServerStart, ServerCrash, PostState
  <2>5. CASE \E q \in Posts : PostStart(q) \/ PostStep(q)
    BY <2>1, <2>2, <2>3, <2>5 DEF PostStep
  <2>6. CASE \E g \in Servers : ServerStart(g) \/ ServerCrash(g)
    BY <2>4, <2>6
  <2> QED
    BY <2>5, <2>6 DEF ServerNext
<1> QED
  BY <1>1, <1>2 DEF ControlInv, LockHolderActive, BatchStartsEmpty

LEMMA ControlInvStep == ControlInv /\ [Next]_vars => ControlInv'
<1> SUFFICES ASSUME ControlInv, [Next]_vars PROVE ControlInv'
  OBVIOUS
<1>1. CASE UNCHANGED vars
  BY <1>1 DEF ControlInv, LockHolderActive, BatchStartsEmpty, PostsHaveIds, vars, storeVars, serverVars
<1>2. CASE Next
  BY <1>2, ControlInvIngest, ControlInvServer DEF Next
<1> QED
  BY <1>1, <1>2

-----------------------------------------------------------------------------
(***************************************************************************)
(* The tables: every step of the system is a StoreStep.                    *)
(***************************************************************************)

\* The corpus item at hand can be stored: its text parses under the engine.
LEMMA ItemTyped ==
    ASSUME ControlInv, NEW i \in Ingests, HasItem(i), Indexable(i)
    PROVE  /\ Item(i).entry \in EntryIds /\ Item(i).side \in Sides
           /\ Item(i).text \in Texts /\ ItemCanon(i) \in Canonicals
<1>1. ing[i] \in IngestState
  BY DEF ControlInv
<1>2. ing[i].pos \in Nat /\ ing[i].corpus \in Corpora \cup {<<>>}
  BY <1>1 DEF IngestState
<1>3. ing[i].corpus \in Seq(CorpusItem)
  <2>1. <<>> \in Seq(CorpusItem)
    OBVIOUS
  <2> QED
    BY <1>2, <2>1, IngestAssumption
<1>4. ing[i].pos + 1 \in 1..Len(ing[i].corpus)
  BY <1>2, <1>3 DEF HasItem
<1>5. Item(i) \in CorpusItem
  BY <1>3, <1>4 DEF Item
<1>6. Item(i).text \in Texts
  BY <1>5 DEF CorpusItem, Indexable
<1>7. Canon[IngestEngine[i]][Item(i).text] \in Canonicals \cup {ParseError}
  BY <1>6, IngestAssumption, StoreAssumption
<1> QED
  BY <1>5, <1>6, <1>7 DEF CorpusItem, Indexable, ItemCanon

LEMMA IngestStoreStep ==
    ASSUME ControlInv, NEW i \in Ingests, IngestNext(i)
    PROVE  StoreStep
<1>1. /\ Free \notin Ingests
      /\ lock \in Ingests \cup {Free}
      /\ lock = i <=> ing[i].pc = "ingesting" /\ ing[i].inBatch > 0
  BY IngestAssumption DEF ControlInv, LockHolderActive
<1>2. CASE UNCHANGED <<db, txn, lock>>
  BY <1>2 DEF StoreStep
<1>3. CASE ResetFormulas(i)
  BY <1>1, <1>3 DEF ResetFormulas, CanWrite, Autocommit, StoreStep
<1>4. CASE ResetFts(i)
  BY <1>1, <1>4 DEF ResetFts, CanWrite, Autocommit, StoreStep
<1>5. CASE ResetFacets(i)
  BY <1>1, <1>5 DEF ResetFacets, CanWrite, Autocommit, StoreStep
<1>6. CASE IngestAdd(i)
  <2>1. HasItem(i) /\ Indexable(i) /\ CanUpsert(View(i), Item(i).entry, Item(i).side)
    BY <1>6 DEF IngestAdd
  <2>2. txn' = Upserted(View(i), Item(i).entry, Item(i).side, Item(i).text, ItemCanon(i))
    BY <1>6 DEF IngestAdd
  <2>3. UpsertInto(View(i), txn')
    BY <2>1, <2>2, ItemTyped DEF UpsertInto
  <2>4. lock \in {Free, i} /\ lock' = i /\ UNCHANGED db
    BY <1>6 DEF IngestAdd, CanWrite
  <2> QED
    BY <2>3, <2>4 DEF BatchAdd, StoreStep
<1>7. CASE IngestAddFails(i)
  BY <1>7 DEF IngestAddFails, BatchDiscard, StoreStep
<1>8. CASE IngestFlush(i)
  <2>1. lock = i
    BY <1>1, <1>8, IngestAssumption DEF IngestFlush
  <2> QED
    BY <1>1, <1>8, <2>1 DEF IngestFlush, BatchCommit, StoreStep
<1>9. CASE IngestCrash(i)
  BY <1>9 DEF IngestCrash, BatchDiscard, StoreStep
<1>10. IngestStart(i) \/ IngestOpen(i) \/ IngestCheckStale(i) \/ ResetFtsFails(i)
         \/ StampProbe(i) \/ StampSchema(i) \/ IngestExpand(i) \/ IngestSkip(i)
         \/ IngestFinish(i) \/ IngestBusy(i)
       => UNCHANGED <<db, txn, lock>>
  BY DEF IngestStart, IngestOpen, IngestCheckStale, ResetFtsFails, StampProbe,
         StampSchema, IngestExpand, IngestSkip, IngestFinish, IngestBusy, storeVars
<1> QED
  BY <1>2, <1>3, <1>4, <1>5, <1>6, <1>7, <1>8, <1>9, <1>10
     DEF IngestNext, IngestStep

LEMMA ServerStoreStep ==
    ASSUME ControlInv, ServerNext
    PROVE  StoreStep
<1>1. CASE UNCHANGED <<db, txn, lock>>
  BY <1>1 DEF StoreStep
<1>2. ASSUME NEW p \in Posts, NEW s \in Sides, PostUpsert(p, s)
      PROVE  StoreStep
  <2>1. lock = Free
    BY <1>2, WriterAssumption DEF PostUpsert, CanWrite, ControlInv
  <2>2. /\ post[p].body[s] # Blank /\ PostCanon(p, s) # ParseError
        /\ post[p].pc = s
        /\ CanUpsert(db, post[p].body.entry, s)
        /\ db' = Upserted(db, post[p].body.entry, s, post[p].body[s], PostCanon(p, s))
        /\ UNCHANGED <<txn, lock>>
    BY <1>2 DEF PostUpsert
  <2>3. post[p].body.entry \in EntryIds
    BY <2>2 DEF ControlInv, PostsHaveIds, HandlerPcs
  <2>4. post[p].body \in Submissions \cup {NoBody}
    BY DEF ControlInv, PostState
  <2>5. post[p].body[s] \in Texts
    BY <2>2, <2>4, ServerAssumption DEF NoBody, Sides
  <2>6. PostCanon(p, s) \in Canonicals
    BY <2>2, <2>5, ServerAssumption, StoreAssumption DEF PostCanon
  <2>7. UpsertInto(db, db')
    BY <2>2, <2>3, <2>5, <2>6 DEF UpsertInto
  <2> QED
    BY <2>1, <2>2, <2>7 DEF Autocommit, StoreStep
<1>3. CASE \E p \in Posts, s \in Sides : PostUpsert(p, s)
  BY <1>2, <1>3
<1>4. CASE \A p \in Posts, s \in Sides : ~PostUpsert(p, s)
  <2>1. ASSUME NEW p \in Posts, PostStart(p) \/ PostStep(p)
        PROVE  UNCHANGED <<db, txn, lock>>
    BY <1>4, <2>1 DEF PostStart, PostStep, PostRespond, PostSide, PostSkipSide,
                      PostParseError, PostUpsertFails, PostBusy, storeVars
  <2>2. ASSUME NEW g \in Servers, ServerStart(g) \/ ServerCrash(g)
        PROVE  UNCHANGED <<db, txn, lock>>
    BY <2>2 DEF ServerStart, ServerCrash, storeVars
  <2> QED
    BY <1>1, <2>1, <2>2 DEF ServerNext
<1> QED
  BY <1>3, <1>4

LEMMA NextIsStoreStep == ControlInv /\ [Next]_vars => StoreStep
<1>1. UNCHANGED vars => StoreStep
  BY DEF vars, storeVars, StoreStep
<1> QED
  BY <1>1, IngestStoreStep, ServerStoreStep DEF Next

-----------------------------------------------------------------------------
(***************************************************************************)
(* Whatever formula_fts accepts: types, soundness of searches, the lock.   *)
(***************************************************************************)

TablesAgree == TablesInv(db) /\ TablesInv(txn)

LEMMA EmptyTablesInv == TablesInv(EmptyTables)
<1>1. 1..0 = {} /\ 0 \in Nat
  OBVIOUS
<1>2. Ids(EmptyTables.formulas) = 1..0
  BY <1>1 DEF Ids, EmptyTables
<1>3. Dense(EmptyTables)
  BY <1>1, <1>2 DEF Dense
<1> QED
  BY <1>3 DEF TablesInv, EmptyTables, Tables, UniqueKeys, SoundDocs, SoundFacets

\* Reset's statements, alone or interrupted after any of them.
LEMMA DeletesKeepTablesInv ==
    ASSUME TablesInv(db), DeleteFormulas \/ DeleteFts \/ DeleteFacets
    PROVE  TablesInv(db')
<1>1. CASE DeleteFormulas
  <2>1. /\ db'.formulas = {} /\ db' \in Tables
    BY <1>1 DEF DeleteFormulas, TablesInv, Tables
  <2>2. Ids(db'.formulas) = 1..0 /\ 0 \in Nat
    BY <2>1 DEF Ids
  <2> QED
    BY <2>1, <2>2 DEF TablesInv, Dense, UniqueKeys, SoundDocs, SoundFacets
<1>2. CASE DeleteFts
  <2>1. /\ db'.formulas = db.formulas /\ db'.facets = db.facets
        /\ db'.fts = {} /\ db' \in Tables
    BY <1>2 DEF DeleteFts, TablesInv, Tables
  <2> QED
    BY <2>1 DEF TablesInv, Dense, UniqueKeys, SoundDocs, SoundFacets
<1>3. CASE DeleteFacets
  <2>1. /\ db'.formulas = db.formulas /\ db'.fts = db.fts
        /\ db'.facets = {} /\ db' \in Tables
    BY <1>3 DEF DeleteFacets, TablesInv, Tables
  <2> QED
    BY <2>1 DEF TablesInv, Dense, UniqueKeys, SoundDocs, SoundFacets
<1> QED
  BY <1>1, <1>2, <1>3

LEMMA StoreStepKeepsTables ==
    ASSUME TablesAgree, StoreStep
    PROVE  TablesAgree'
<1>1. ASSUME NEW d, TablesInv(d), NEW d2, UpsertInto(d, d2)
      PROVE  TablesInv(d2)
  BY <1>1, UpsertKeepsTablesInv DEF UpsertInto
<1>2. CASE Autocommit
  <2>1. TablesInv(db')
    BY <1>1, <1>2, DeletesKeepTablesInv DEF Autocommit, TablesAgree
  <2> QED
    BY <1>2, <2>1 DEF Autocommit, TablesAgree
<1>3. CASE BatchAdd
  <2>1. PICK i \in Ingests : UpsertInto(View(i), txn') /\ UNCHANGED db
    BY <1>3 DEF BatchAdd
  <2>2. TablesInv(View(i))
    BY DEF View, TablesAgree
  <2>3. TablesInv(txn')
    BY <1>1, <2>1, <2>2
  <2> QED
    BY <2>1, <2>3 DEF TablesAgree
<1>4. CASE BatchCommit
  BY <1>4, EmptyTablesInv DEF BatchCommit, TablesAgree
<1>5. CASE BatchDiscard
  BY <1>5, EmptyTablesInv DEF BatchDiscard, TablesAgree
<1>6. CASE UNCHANGED <<db, txn, lock>>
  BY <1>6 DEF TablesAgree
<1> QED
  BY <1>2, <1>3, <1>4, <1>5, <1>6 DEF StoreStep

Inv == ControlInv /\ TablesAgree

LEMMA Invariance == Spec => []Inv
<1>1. Init => Inv
  BY ControlInvInit, EmptyTablesInv DEF Inv, TablesAgree, Init, StoreInit
<1>2. Inv /\ [Next]_vars => Inv'
  BY ControlInvStep, NextIsStoreStep, StoreStepKeepsTables DEF Inv
<1> QED
  BY <1>1, <1>2, PTL DEF Spec

\* Every variable keeps its type: ids stay positive numbers, batches within
\* BatchSize, runs within MaxRuns.
THEOREM TypeCorrect == Spec => []TypeOK
<1>1. Inv => TypeOK
  BY DEF Inv, ControlInv, TablesAgree, TablesInv, TypeOK
<1> QED
  BY <1>1, Invariance, PTL

\* No search attributes to a formula a document or a tag of another one, even
\* though ids are used again after a rebuild that other processes write into.
THEOREM SearchIsSound == Spec => []SearchSound
<1>1. Inv => SearchSound
  BY DEF Inv, TablesAgree, TablesInv, SearchSound
<1> QED
  BY <1>1, Invariance, PTL

\* The writer lock belongs to the ingest with an uncommitted batch: no path out
\* of an ingest, an error or a crash included, leaves the store locked.
THEOREM LockIsHeldByAnActiveIngest == Spec => []LockHolderActive
<1>1. Inv => LockHolderActive
  BY DEF Inv, ControlInv
<1> QED
  BY <1>1, Invariance, PTL

-----------------------------------------------------------------------------
(***************************************************************************)
(* The facets of a formula, whoever rebuilds beside it.                    *)
(***************************************************************************)

FacetsKept(d, r) ==
    \/ \A x \in d.facets : x.id # r.id
    \/ \A tag \in FacetsOf[r.canonical] : [id |-> r.id, facet |-> tag] \in d.facets

FacetsWhole(d) == \A r \in d.formulas : FacetsKept(d, r)

\* An upsert touches the facets of the formula it stores only, and inserts all.
LEMMA UpsertKeepsWhole ==
    ASSUME NEW d, TablesInv(d), FacetsWhole(d), NEW d2, UpsertInto(d, d2)
    PROVE  FacetsWhole(d2)
<1>1. PICK e \in EntryIds, s \in Sides, t \in Texts, c \in Canonicals :
         d2 = Upserted(d, e, s, t, c)
  BY DEF UpsertInto
<1> DEFINE id == UpsertId(d, e, s)
           new == [id |-> id, entry |-> e, side |-> s, text |-> t, canonical |-> c]
           old == Conflicting(d, e, s)
<1>2. /\ d2.formulas = (d.formulas \ old) \cup {new}
      /\ d2.facets = {x \in d.facets : x.id # id}
                        \cup {[id |-> id, facet |-> tag] : tag \in FacetsOf[c]}
  BY <1>1 DEF Upserted, FacetsAfter
<1>3. \A r \in d.formulas \ old : r.id # id
  BY UpsertIdCases DEF Conflicting, Ids, TablesInv, UniqueKeys
<1>4. new.id = id /\ new.canonical = c
  OBVIOUS
<1> HIDE DEF id, new, old
<1>5. ASSUME NEW r \in d2.formulas
      PROVE  FacetsKept(d2, r)
  <2>1. CASE r = new
    BY <1>2, <1>4, <2>1 DEF FacetsKept
  <2>2. CASE r # new
    <3>1. r \in d.formulas /\ r.id # id /\ FacetsKept(d, r)
      BY <1>2, <1>3, <2>2 DEF FacetsWhole
    <3>2. ASSUME \A x \in d.facets : x.id # r.id
          PROVE  \A x \in d2.facets : x.id # r.id
      BY <1>2, <3>1, <3>2
    <3>3. ASSUME NEW tag, [id |-> r.id, facet |-> tag] \in d.facets
          PROVE  [id |-> r.id, facet |-> tag] \in d2.facets
      BY <1>2, <3>1, <3>3
    <3> QED
      BY <3>1, <3>2, <3>3 DEF FacetsKept
  <2> QED
    BY <2>1, <2>2
<1> QED
  BY <1>5 DEF FacetsWhole

WholeInv == FacetsWhole(db) /\ FacetsWhole(txn)

\* However rebuilds, batches and requests of any number of processes interleave, and
\* whether or not formula_fts accepts DELETE, no formula has only some of its facets:
\* the filter finds it by each of them, or by none.
THEOREM FacetsAreAllOrNone == Spec => []FacetsAllOrNone
<1>1. Init => WholeInv
  BY DEF Init, StoreInit, EmptyTables, WholeInv, FacetsWhole
<1>2. Inv /\ WholeInv /\ [Next]_vars => WholeInv'
  <2> SUFFICES ASSUME Inv, WholeInv, StoreStep PROVE WholeInv'
    BY NextIsStoreStep DEF Inv
  <2>1. FacetsWhole(EmptyTables)
    BY DEF FacetsWhole, EmptyTables
  <2>2. CASE DeleteFormulas /\ UNCHANGED txn
    BY <2>2 DEF DeleteFormulas, Inv, TablesAgree, TablesInv, Tables, WholeInv, FacetsWhole
  <2>3. CASE DeleteFts /\ UNCHANGED txn
    <3>1. db'.formulas = db.formulas /\ db'.facets = db.facets
      BY <2>3 DEF DeleteFts, Inv, TablesAgree, TablesInv, Tables
    <3> QED
      BY <2>3, <3>1 DEF WholeInv, FacetsWhole, FacetsKept
  <2>4. CASE DeleteFacets /\ UNCHANGED txn
    <3>1. db'.facets = {}
      BY <2>4 DEF DeleteFacets, Inv, TablesAgree, TablesInv, Tables
    <3> QED
      BY <2>4, <3>1 DEF WholeInv, FacetsWhole, FacetsKept
  <2>5. CASE UpsertInto(db, db') /\ UNCHANGED txn
    BY <2>5, UpsertKeepsWhole DEF Inv, TablesAgree, WholeInv
  <2>6. CASE BatchAdd
    <3>1. PICK i \in Ingests : UpsertInto(View(i), txn') /\ UNCHANGED db
      BY <2>6 DEF BatchAdd
    <3>2. TablesInv(View(i)) /\ FacetsWhole(View(i))
      BY DEF View, Inv, TablesAgree, WholeInv
    <3> QED
      BY <3>1, <3>2, UpsertKeepsWhole DEF WholeInv
  <2>7. CASE BatchCommit \/ BatchDiscard \/ UNCHANGED <<db, txn, lock>>
    BY <2>1, <2>7 DEF BatchCommit, BatchDiscard, WholeInv
  <2> QED
    BY <2>2, <2>3, <2>4, <2>5, <2>6, <2>7 DEF StoreStep, Autocommit
<1>3. Inv /\ WholeInv => FacetsAllOrNone
  <2> SUFFICES ASSUME Inv, WholeInv, NEW d \in {db, txn}, NEW r \in d.formulas
               PROVE  {x.facet : x \in {y \in d.facets : y.id = r.id}}
                        \in {{}, FacetsOf[r.canonical]}
    BY DEF FacetsAllOrNone
  <2>1. FacetsKept(d, r) /\ SoundFacets(d)
    BY DEF WholeInv, FacetsWhole, Inv, TablesAgree, TablesInv
  <2> DEFINE tags == {x.facet : x \in {y \in d.facets : y.id = r.id}}
  <2>2. tags \subseteq FacetsOf[r.canonical]
    BY <2>1 DEF SoundFacets
  <2>3. CASE \A x \in d.facets : x.id # r.id
    <3>1. tags = {}
      BY <2>3
    <3> QED
      BY <3>1
  <2>4. CASE \A tag \in FacetsOf[r.canonical] : [id |-> r.id, facet |-> tag] \in d.facets
    <3>1. ASSUME NEW tag \in FacetsOf[r.canonical]
          PROVE  tag \in tags
      <4> DEFINE row == [id |-> r.id, facet |-> tag]
      <4>1. row \in d.facets /\ row.id = r.id /\ row.facet = tag
        BY <2>4
      <4> QED
        BY <4>1
    <3> QED
      BY <2>2, <3>1
  <2> QED
    BY <2>1, <2>3, <2>4 DEF FacetsKept
<1> QED
  BY <1>1, <1>2, <1>3, Invariance, PTL DEF Spec

-----------------------------------------------------------------------------
(***************************************************************************)
(* What a run reads.                                                       *)
(***************************************************************************)

\* A run comes to the corpus loop at the first item.
StartsAtFirst ==
    \A i \in Ingests : ing[i].pc \in ActivePcs \ {"ingesting"} => ing[i].pos = 0

\* The run of i goes on reading: it has read no other item to store.
ReadsNothing(i) ==
    /\ ing'[i].corpus = ing[i].corpus
    /\ ing[i].pc = "ingesting"
    /\ View(i)' = View(i)
    /\ \/ ing'[i].pos = ing[i].pos
       \/ ing'[i].pos = ing[i].pos + 1 /\ ~ToStore(i, ing[i].pos + 1)

\* What one step of its own does to what i has read.
LEMMA RunReads ==
    ASSUME Inv, StartsAtFirst, NEW i \in Ingests, IngestNext(i)
    PROVE  /\ ing' = [ing EXCEPT ![i] = ing'[i]]
           /\ ing'[i].pc \in ActivePcs \ {"ingesting"} => ing'[i].pos = 0
           /\ ing'[i].pc \in {"ingesting", "done"} =>
                 IngestAdd(i) \/ ReadsNothing(i) \/ ing'[i].pos = 0
<1>0. /\ ing \in [Ingests -> IngestState] /\ ing[i] \in IngestState
      /\ ing[i].pc \in ActivePcs \ {"ingesting"} => ing[i].pos = 0
      /\ lock = i <=> ing[i].pc = "ingesting" /\ ing[i].inBatch > 0
  BY DEF Inv, ControlInv, StartsAtFirst, LockHolderActive
<1>1. ASSUME NEW pc \in ActivePcs \cup EndPcs, Goto(i, pc)
      PROVE  /\ ing' = [ing EXCEPT ![i] = ing'[i]]
             /\ ing'[i].pc = pc /\ ing'[i].pos = ing[i].pos
             /\ ing'[i].corpus = ing[i].corpus
  BY <1>0, <1>1 DEF Goto, IngestState
<1>2. ASSUME NEW pc \in {"busyError", "ftsError", "crashed"}, Goto(i, pc)
      PROVE  /\ ing' = [ing EXCEPT ![i] = ing'[i]]
             /\ ing'[i].pc = pc /\ ing'[i].pc \notin ActivePcs \cup {"ingesting", "done"}
  BY <1>1, <1>2 DEF EndPcs, ActivePcs, ResetPcs
<1>3. ASSUME NEW pc \in ActivePcs \cup EndPcs, Goto(i, pc), ing[i].pc \in ActivePcs \ {"ingesting"}
      PROVE  /\ ing' = [ing EXCEPT ![i] = ing'[i]]
             /\ ing'[i].pos = 0
  BY <1>0, <1>1, <1>3
<1>4. CASE IngestStart(i)
  <2>1. PICK c \in Corpora, rebuild \in BOOLEAN :
           ing' = [ing EXCEPT ![i] =
                     [pc |-> "open", corpus |-> c, rebuild |-> rebuild, pos |-> 0,
                      inBatch |-> 0, runs |-> ing[i].runs + 1]]
    BY <1>4 DEF IngestStart
  <2> QED
    BY <1>0, <2>1
<1>5. CASE \/ IngestOpen(i) \/ IngestCheckStale(i) \/ ResetFormulas(i) \/ ResetFts(i)
           \/ ResetFacets(i) \/ StampProbe(i) \/ StampSchema(i) \/ IngestExpand(i)
  <2>1. /\ \E pc \in ActivePcs \cup EndPcs : Goto(i, pc)
        /\ ing[i].pc \in ActivePcs \ {"ingesting"}
    BY <1>5 DEF IngestOpen, IngestCheckStale, ResetFormulas, ResetFts, ResetFacets,
                StampProbe, StampSchema, IngestExpand, ActivePcs, EndPcs, ResetPcs
  <2> QED
    BY <1>3, <2>1
<1>6. CASE ResetFtsFails(i) \/ IngestAddFails(i) \/ IngestBusy(i) \/ IngestCrash(i)
  <2>1. \E pc \in {"busyError", "ftsError", "crashed"} : Goto(i, pc)
    BY <1>6 DEF ResetFtsFails, IngestAddFails, IngestBusy, IngestCrash
  <2> QED
    BY <1>2, <2>1
<1>7. CASE IngestSkip(i)
  <2>1. /\ ing' = [ing EXCEPT ![i] = ing'[i]]
        /\ ing'[i].pc = "ingesting" /\ ing[i].pc = "ingesting"
        /\ ing'[i].pos = ing[i].pos + 1 /\ ing'[i].corpus = ing[i].corpus
    BY <1>0, <1>7 DEF IngestSkip, HasItem, IngestState
  <2>2. View(i)' = View(i)
    BY <1>7 DEF IngestSkip, View, storeVars
  <2>3. ~ToStore(i, ing[i].pos + 1)
    BY <1>7 DEF IngestSkip, Indexable, Item, ItemCanon, ToStore
  <2> QED
    BY <2>1, <2>2, <2>3 DEF ReadsNothing
<1>8. CASE IngestAdd(i)
  <2>1. ing' = [ing EXCEPT ![i] = ing'[i]] /\ ing'[i].pc = "ingesting"
    <3>1. ing[i].pc = "ingesting"
      BY <1>8 DEF IngestAdd, HasItem
    <3>2. ing' = [ing EXCEPT ![i] = [ing[i] EXCEPT !.pos = ing[i].pos + 1,
                                                   !.inBatch = ing[i].inBatch + 1]]
      BY <1>8 DEF IngestAdd
    <3> QED
      BY <1>0, <3>1, <3>2 DEF IngestState
  <2> QED
    BY <1>8, <2>1
<1>9. CASE IngestFlush(i)
  <2>1. /\ ing' = [ing EXCEPT ![i] = ing'[i]]
        /\ ing'[i].pc = "ingesting" /\ ing[i].pc = "ingesting"
        /\ ing'[i].pos = ing[i].pos /\ ing'[i].corpus = ing[i].corpus
    BY <1>0, <1>9 DEF IngestFlush, IngestState
  <2>2. lock = i /\ lock' # i /\ db' = txn
    BY <1>0, <1>9, IngestAssumption DEF IngestFlush
  <2>3. View(i)' = View(i)
    BY <2>2 DEF View
  <2> QED
    BY <2>1, <2>3 DEF ReadsNothing
<1>10. CASE IngestFinish(i)
  <2>1. /\ ing' = [ing EXCEPT ![i] = ing'[i]]
        /\ ing'[i].pc = "done" /\ ing[i].pc = "ingesting"
        /\ ing'[i].pos = ing[i].pos /\ ing'[i].corpus = ing[i].corpus
    BY <1>1, <1>10 DEF IngestFinish, EndPcs
  <2>2. View(i)' = View(i)
    BY <1>10 DEF IngestFinish, View, storeVars
  <2> QED
    BY <2>1, <2>2 DEF ReadsNothing, ActivePcs, ResetPcs
<1> QED
  BY <1>4, <1>5, <1>6, <1>7, <1>8, <1>9, <1>10 DEF IngestNext, IngestStep

LEMMA StartsAtFirstStep ==
    ASSUME Inv, StartsAtFirst, [Next]_vars
    PROVE  StartsAtFirst'
<1>1. ing \in [Ingests -> IngestState]
  BY DEF Inv, ControlInv
<1>2. ASSUME NEW i \in Ingests, IngestNext(i)
      PROVE  StartsAtFirst'
  BY <1>1, <1>2, RunReads DEF StartsAtFirst
<1>3. UNCHANGED vars \/ (ServerNext /\ UNCHANGED ing) => UNCHANGED ing
  BY DEF vars
<1> QED
  BY <1>2, <1>3 DEF Next, StartsAtFirst

LEMMA StartsInvariance == Spec => []StartsAtFirst
<1>1. Init => StartsAtFirst
  BY DEF Init, IngestInit, StartsAtFirst, ActivePcs, ResetPcs
<1>2. Inv /\ StartsAtFirst /\ [Next]_vars => StartsAtFirst'
  BY StartsAtFirstStep
<1> QED
  BY <1>1, <1>2, Invariance, PTL DEF Spec

-----------------------------------------------------------------------------
(***************************************************************************)
(* One ingest alone, run any number of times: what holds whatever          *)
(* formula_fts accepts, that is, also where a formula can be replaced.     *)
(***************************************************************************)

SoleWriter == Posts = {} /\ \A i, j \in Ingests : i = j

LEMMA SoleSteps ==
    ASSUME SoleWriter, [Next]_vars
    PROVE  UNCHANGED vars \/ \E i \in Ingests : IngestNext(i)
<1>1. ~ServerNext
  BY DEF SoleWriter, ServerNext, Servers
<1> QED
  BY <1>1 DEF Next

\* Between the statements of a rebuild there is no formula.
FacetsInv ==
    /\ CompleteFacets(db) /\ CompleteFacets(txn)
    /\ \A i \in Ingests :
          ing[i].pc \in {"delFts", "delFacets"} => db.formulas = {}

\* Where the control of a rebuild goes.
LEMMA RebuildControl ==
    ASSUME ControlInv, NEW i \in Ingests, IngestNext(i),
           ing'[i].pc \in {"delFts", "delFacets"}
    PROVE  ResetFormulas(i) \/ ResetFts(i)
<1>0. ing \in [Ingests -> IngestState] /\ ing[i] \in IngestState
  BY DEF ControlInv
<1>1. ASSUME NEW pc, Goto(i, pc)
      PROVE  ing'[i].pc = pc
  BY <1>0, <1>1 DEF Goto, IngestState
<1>2. IngestStart(i) => ing'[i].pc = "open"
  <2>1. ASSUME NEW c \in Corpora, NEW rebuild \in BOOLEAN,
               ing' = [ing EXCEPT ![i] =
                        [pc |-> "open", corpus |-> c, rebuild |-> rebuild, pos |-> 0,
                         inBatch |-> 0, runs |-> ing[i].runs + 1]]
        PROVE  ing'[i].pc = "open"
    BY <1>0, <2>1
  <2> QED
    BY <2>1 DEF IngestStart
<1>3. IngestOpen(i) \/ IngestCheckStale(i) \/ ResetFtsFails(i) \/ ResetFacets(i)
        \/ StampProbe(i) \/ StampSchema(i) \/ IngestExpand(i) \/ IngestAddFails(i)
        \/ IngestFinish(i) \/ IngestBusy(i) \/ IngestCrash(i)
      => \E pc \in {"stale", "delFormulas", "expand", "ftsError", "stampProbe",
                    "stampSchema", "ingesting", "pathError", "done", "busyError",
                    "crashed"} : Goto(i, pc)
  BY DEF IngestOpen, IngestCheckStale, ResetFtsFails, ResetFacets, StampProbe,
         StampSchema, IngestExpand, IngestAddFails, IngestFinish, IngestBusy, IngestCrash
<1>4. IngestSkip(i) \/ IngestAdd(i) \/ IngestFlush(i) => ing'[i].pc = "ingesting"
  <2>1. IngestSkip(i) => ing'[i].pc = "ingesting"
    BY <1>0 DEF IngestSkip, HasItem, IngestState
  <2>2. IngestAdd(i) => ing'[i].pc = "ingesting"
    BY <1>0 DEF IngestAdd, HasItem, IngestState
  <2>3. IngestFlush(i) => ing'[i].pc = "ingesting"
    BY <1>0 DEF IngestFlush, IngestState
  <2> QED
    BY <2>1, <2>2, <2>3
<1> QED
  BY <1>1, <1>2, <1>3, <1>4 DEF IngestNext, IngestStep

LEMMA FacetsOfTables ==
    ASSUME TablesAgree, FacetsInv, NEW i \in Ingests, IngestNext(i), ControlInv
    PROVE  CompleteFacets(db') /\ CompleteFacets(txn')
<1>0. /\ TablesInv(db) /\ CompleteFacets(db) /\ TablesInv(txn) /\ CompleteFacets(txn)
      /\ TablesInv(View(i)) /\ CompleteFacets(View(i)) /\ CompleteFacets(EmptyTables)
      /\ db \in Tables
  BY DEF TablesAgree, TablesInv, FacetsInv, View, CompleteFacets, EmptyTables
<1>1. CASE UNCHANGED <<db, txn>>
  BY <1>0, <1>1
<1>2. CASE ResetFormulas(i)
  BY <1>0, <1>2 DEF ResetFormulas, DeleteFormulas, CompleteFacets, Tables
<1>3. CASE ResetFts(i)
  BY <1>0, <1>3 DEF ResetFts, DeleteFts, CompleteFacets, Tables
<1>4. CASE ResetFacets(i)
  <2>1. db.formulas = {} /\ db'.formulas = {} /\ txn' = txn
    BY <1>0, <1>4 DEF ResetFacets, DeleteFacets, FacetsInv, Tables
  <2> QED
    BY <1>0, <2>1 DEF CompleteFacets
<1>5. CASE IngestAdd(i)
  <2>1. /\ HasItem(i) /\ Indexable(i) /\ db' = db
        /\ txn' = Upserted(View(i), Item(i).entry, Item(i).side, Item(i).text, ItemCanon(i))
    BY <1>5 DEF IngestAdd
  <2> QED
    BY <1>0, <2>1, ItemTyped, UpsertKeepsFacets
<1>6. CASE IngestAddFails(i) \/ IngestCrash(i)
  BY <1>0, <1>6 DEF IngestAddFails, IngestCrash
<1>7. CASE IngestFlush(i)
  BY <1>0, <1>7 DEF IngestFlush
<1>8. IngestStart(i) \/ IngestOpen(i) \/ IngestCheckStale(i) \/ ResetFtsFails(i)
        \/ StampProbe(i) \/ StampSchema(i) \/ IngestExpand(i) \/ IngestSkip(i)
        \/ IngestFinish(i) \/ IngestBusy(i)
      => UNCHANGED <<db, txn>>
  BY DEF IngestStart, IngestOpen, IngestCheckStale, ResetFtsFails, StampProbe,
         StampSchema, IngestExpand, IngestSkip, IngestFinish, IngestBusy, storeVars
<1> QED
  BY <1>1, <1>2, <1>3, <1>4, <1>5, <1>6, <1>7, <1>8 DEF IngestNext, IngestStep

\* An ingest that has the file to itself leaves every formula with all of its facets,
\* however often it is run: also after runs that died between the statements of a
\* rebuild, and over the facets and documents such a run left behind.
THEOREM FacetsAreComplete ==
    ASSUME SoleWriter
    PROVE  Spec => []FacetsComplete
<1>1. Init => FacetsInv
  BY DEF Init, StoreInit, IngestInit, EmptyTables, FacetsInv, CompleteFacets
<1>2. Inv /\ FacetsInv /\ [Next]_vars => FacetsInv'
  <2> SUFFICES ASSUME Inv, FacetsInv, [Next]_vars PROVE FacetsInv'
    OBVIOUS
  <2>1. CASE UNCHANGED vars
    BY <2>1 DEF vars, storeVars, FacetsInv
  <2>2. ASSUME NEW i \in Ingests, IngestNext(i)
        PROVE  FacetsInv'
    <3>1. CompleteFacets(db') /\ CompleteFacets(txn')
      BY <2>2, FacetsOfTables DEF Inv
    <3>2. ASSUME NEW j \in Ingests, ing'[j].pc \in {"delFts", "delFacets"}
          PROVE  db'.formulas = {}
      <4>1. j = i /\ db \in Tables
        BY DEF SoleWriter, Inv, TablesAgree, TablesInv
      <4>2. ResetFormulas(i) \/ ResetFts(i)
        BY <2>2, <3>2, <4>1, RebuildControl DEF Inv
      <4> QED
        BY <4>1, <4>2 DEF ResetFormulas, ResetFts, DeleteFormulas, DeleteFts, FacetsInv, Tables
    <3> QED
      BY <3>1, <3>2 DEF FacetsInv
  <2> QED
    BY <2>1, <2>2, SoleSteps
<1>3. FacetsInv => FacetsComplete
  BY DEF FacetsInv, FacetsComplete
<1> QED
  BY <1>1, <1>2, <1>3, Invariance, PTL DEF Spec

\* What a run has read is in the store as it sees it, in its last version.
SoleRead ==
    \A i \in Ingests :
        ing[i].pc \in {"ingesting", "done"} =>
            \A k \in 1..ing[i].pos :
                ToStore(i, k) /\ ~Superseded(i, k) => Stored(View(i), i, k)

\* An upsert stores the item at hand, and takes away only what it supersedes.
LEMMA AddReplaces ==
    ASSUME NEW i \in Ingests, IngestAdd(i), ing \in [Ingests -> IngestState]
    PROVE  /\ ing[i].pc = "ingesting" /\ Indexable(i)
           /\ ing'[i].pos = ing[i].pos + 1 /\ ing'[i].corpus = ing[i].corpus
           /\ \A r \in View(i).formulas :
                 r \in View(i)'.formulas \/ (r.entry = Item(i).entry /\ r.side = Item(i).side)
           /\ \E r \in View(i)'.formulas :
                 /\ r.entry = Item(i).entry /\ r.side = Item(i).side
                 /\ r.text = Item(i).text /\ r.canonical = ItemCanon(i)
<1> DEFINE new == [id |-> UpsertId(View(i), Item(i).entry, Item(i).side),
                   entry |-> Item(i).entry, side |-> Item(i).side,
                   text |-> Item(i).text, canonical |-> ItemCanon(i)]
<1>1. /\ HasItem(i) /\ Indexable(i) /\ lock' = i
      /\ txn' = Upserted(View(i), Item(i).entry, Item(i).side, Item(i).text, ItemCanon(i))
  BY DEF IngestAdd
<1>2. View(i)' = txn'
  BY <1>1 DEF View
<1>3. /\ txn'.formulas = (View(i).formulas \ Conflicting(View(i), Item(i).entry, Item(i).side))
                            \cup {new}
      /\ new.entry = Item(i).entry /\ new.side = Item(i).side
      /\ new.text = Item(i).text /\ new.canonical = ItemCanon(i)
  BY <1>1 DEF Upserted
<1> HIDE DEF new
<1>4. ing'[i].pos = ing[i].pos + 1 /\ ing'[i].corpus = ing[i].corpus
  <2>1. ing' = [ing EXCEPT ![i] = [ing[i] EXCEPT !.pos = ing[i].pos + 1,
                                                 !.inBatch = ing[i].inBatch + 1]]
    BY DEF IngestAdd
  <2> QED
    BY <2>1 DEF IngestState
<1> QED
  BY <1>1, <1>2, <1>3, <1>4 DEF HasItem, Conflicting

LEMMA SoleReadStep ==
    ASSUME Inv, StartsAtFirst, SoleRead, NEW i \in Ingests, IngestNext(i),
           ing'[i].pc \in {"ingesting", "done"}, NEW k \in 1..ing'[i].pos,
           ToStore(i, k)', ~Superseded(i, k)'
    PROVE  Stored(View(i), i, k)'
<1>1. ing \in [Ingests -> IngestState]
  BY DEF Inv, ControlInv
<1>2. PICK n \in Nat : n = ing[i].pos
  BY <1>1 DEF IngestState
<1>3. CASE IngestAdd(i)
  <2>1. /\ ing[i].pc = "ingesting" /\ Indexable(i)
        /\ ing'[i].pos = n + 1 /\ ing'[i].corpus = ing[i].corpus
        /\ \A r \in View(i).formulas :
              r \in View(i)'.formulas \/ (r.entry = Item(i).entry /\ r.side = Item(i).side)
    BY <1>1, <1>2, <1>3, AddReplaces
  <2>2. Item(i) = ing'[i].corpus[n + 1]
    BY <1>2, <2>1 DEF Item
  <2>3. CASE k = n + 1
    <3>1. PICK r \in View(i)'.formulas :
            /\ r.entry = Item(i).entry /\ r.side = Item(i).side
            /\ r.text = Item(i).text /\ r.canonical = ItemCanon(i)
      BY <1>1, <1>3, AddReplaces
    <3> QED
      BY <2>2, <2>3, <3>1 DEF Stored, ItemCanon
  <2>4. CASE k \in 1..n
    <3>1. ToStore(i, k) /\ ToStore(i, n + 1)'
      BY <2>1, <2>2 DEF ToStore, Indexable, ItemCanon
    <3>2. ~(/\ ing'[i].corpus[n + 1].entry = ing'[i].corpus[k].entry
            /\ ing'[i].corpus[n + 1].side = ing'[i].corpus[k].side)
      <4>1. n + 1 \in (k + 1)..ing'[i].pos
        BY <2>1, <2>4
      <4> QED
        BY <3>1, <4>1 DEF Superseded
    <3>3. ~Superseded(i, k)
      <4>1. (k + 1)..ing[i].pos \subseteq (k + 1)..ing'[i].pos
        BY <1>2, <2>1
      <4>2. \A j : ToStore(i, j) = ToStore(i, j)'
        BY <2>1 DEF ToStore
      <4> QED
        BY <2>1, <4>1, <4>2 DEF Superseded
    <3>4. Stored(View(i), i, k)
      BY <1>2, <2>1, <2>4, <3>1, <3>3 DEF SoleRead
    <3> QED
      BY <2>1, <2>2, <3>2, <3>4 DEF Stored
  <2> QED
    BY <2>1, <2>3, <2>4
<1>4. CASE ReadsNothing(i)
  <2>1. /\ ing'[i].corpus = ing[i].corpus /\ ing[i].pc = "ingesting"
        /\ View(i)' = View(i)
        /\ ing'[i].pos = n \/ (ing'[i].pos = n + 1 /\ ~ToStore(i, n + 1))
    BY <1>2, <1>4 DEF ReadsNothing
  <2>2. \A j : ToStore(i, j) = ToStore(i, j)'
    BY <2>1 DEF ToStore
  <2>3. k \in 1..n
    BY <2>1, <2>2
  <2>4. ~Superseded(i, k)
    <3>1. (k + 1)..ing[i].pos \subseteq (k + 1)..ing'[i].pos
      BY <1>2, <2>1
    <3> QED
      BY <2>1, <2>2, <3>1 DEF Superseded
  <2>5. Stored(View(i), i, k)
    BY <1>2, <2>1, <2>2, <2>3, <2>4 DEF SoleRead
  <2> QED
    BY <2>1, <2>5 DEF Stored
<1>5. CASE ing'[i].pos = 0
  BY <1>5
<1> QED
  BY <1>3, <1>4, <1>5, RunReads

\* An ingest that has the file to itself skips nothing, even where a later item
\* replaces an earlier one: what was read and not read again later is in the store.
THEOREM SoleIngestSkipsNothing ==
    ASSUME SoleWriter
    PROVE  Spec => []NothingSkipped
<1>1. Init => SoleRead
  BY DEF Init, IngestInit, SoleRead
<1>2. Inv /\ StartsAtFirst /\ SoleRead /\ [Next]_vars => SoleRead'
  <2> SUFFICES ASSUME Inv, StartsAtFirst, SoleRead, [Next]_vars PROVE SoleRead'
    OBVIOUS
  <2>1. CASE UNCHANGED vars
    <3>1. ing' = ing /\ db' = db /\ txn' = txn /\ lock' = lock
      BY <2>1 DEF vars, storeVars
    <3>2. \A i, k : /\ ToStore(i, k)' = ToStore(i, k)
                    /\ Superseded(i, k)' = Superseded(i, k)
                    /\ Stored(View(i), i, k)' = Stored(View(i), i, k)
      BY <3>1 DEF ToStore, Superseded, Stored, View
    <3> QED
      BY <3>1, <3>2 DEF SoleRead
  <2>2. ASSUME NEW i \in Ingests, IngestNext(i)
        PROVE  SoleRead'
    <3> SUFFICES ASSUME NEW j \in Ingests, ing'[j].pc \in {"ingesting", "done"},
                        NEW k \in 1..ing'[j].pos, ToStore(j, k)', ~Superseded(j, k)'
                 PROVE  Stored(View(j), j, k)'
      BY DEF SoleRead
    <3>1. j = i
      BY DEF SoleWriter
    <3> QED
      BY <2>2, <3>1, SoleReadStep
  <2> QED
    BY <2>1, <2>2, SoleSteps
<1>3. SoleRead => NothingSkipped
  BY DEF SoleRead, NothingSkipped
<1> QED
  BY <1>1, <1>2, <1>3, Invariance, StartsInvariance, PTL DEF Spec

-----------------------------------------------------------------------------
(***************************************************************************)
(* The store as its DDL declares it, with a formula_fts that accepts no    *)
(* DELETE: it implements SearchIndex, where a formula is written once and  *)
(* an emptied index is retired.                                            *)
(***************************************************************************)

\* The documents are those of the formulas; or the formulas are gone and the
\* documents left behind include that of id 1, the next id to be given out.
OneDocEach(d) ==
    /\ d.formulas # {} => Ids(d.fts) = Ids(d.formulas)
    /\ d.formulas = {} /\ d.fts # {} => 1 \in Ids(d.fts)

\* An open batch contains everything committed, and something of its own.
BatchExtends ==
    /\ lock = Free => txn = EmptyTables
    /\ lock # Free => /\ db.formulas \subseteq txn.formulas
                      /\ txn.formulas # {}
                      /\ ~Wedged(db)

OnceInv == TablesAgree /\ OneDocEach(db) /\ OneDocEach(txn) /\ BatchExtends

LEMMA IdsOfAdded ==
    ASSUME NEW table, NEW row
    PROVE  Ids(table \cup {row}) = Ids(table) \cup {row.id}
BY DEF Ids

\* An upsert that is not refused adds one formula and its document, to a store
\* that is not wedged, and leaves all others alone.
LEMMA UpsertAddsOne ==
    ASSUME ContentlessDelete = FALSE,
           NEW d, TablesInv(d), OneDocEach(d), NEW d2, UpsertInto(d, d2)
    PROVE  /\ TablesInv(d2) /\ OneDocEach(d2)
           /\ d.formulas \subseteq d2.formulas /\ d2.formulas # {}
           /\ ~Wedged(d)
<1>1. PICK e \in EntryIds, s \in Sides, t \in Texts, c \in Canonicals :
         CanUpsert(d, e, s) /\ d2 = Upserted(d, e, s, t, c)
  BY DEF UpsertInto
<1> DEFINE id == UpsertId(d, e, s)
           new == [id |-> id, entry |-> e, side |-> s, text |-> t, canonical |-> c]
<1>2. id \notin Ids(d.fts)
  BY <1>1 DEF CanUpsert, CanDeleteDocs
<1>3. /\ Conflicting(d, e, s) = {} /\ id \notin Ids(d.formulas)
      /\ \E n \in Nat : Ids(d.formulas) = 1..n /\ id = n + 1
  <2>1. ASSUME NEW r \in d.formulas, id = r.id
        PROVE  FALSE
    <3>1. r.id \in Ids(d.formulas) /\ d.formulas # {}
      BY DEF Ids
    <3> QED
      BY <1>2, <2>1, <3>1 DEF OneDocEach
  <2> QED
    BY <2>1, UpsertIdCases
<1>4. d.formulas = {} => d.fts = {}
  <2> SUFFICES ASSUME d.formulas = {}, d.fts # {} PROVE FALSE
    OBVIOUS
  <2>1. Ids(d.formulas) = {}
    BY DEF Ids
  <2>2. PICK n \in Nat : {} = 1..n /\ id = n + 1
    BY <1>3, <2>1
  <2>3. id = 1
    BY <2>2
  <2> QED
    BY <1>2, <2>3 DEF OneDocEach
<1> HIDE DEF id
<1>5. /\ d2.formulas = d.formulas \cup {new}
      /\ d2.fts = {f \in d.fts : f.id # id} \cup {[id |-> id, doc |-> c]}
  BY <1>1, <1>3 DEF Upserted, id
<1>6. Ids(d2.formulas) = Ids(d.formulas) \cup {id}
  <2>1. new.id = id
    BY DEF new
  <2> HIDE DEF new
  <2> QED
    BY <1>5, <2>1, IdsOfAdded
<1>7. Ids(d2.fts) = Ids(d.fts) \cup {id}
  <2>1. d2.fts = d.fts \cup {[id |-> id, doc |-> c]}
    BY <1>2, <1>5 DEF Ids
  <2> DEFINE doc == [id |-> id, doc |-> c]
  <2>2. doc.id = id
    OBVIOUS
  <2> HIDE DEF doc
  <2>3. d2.fts = d.fts \cup {doc}
    BY <2>1 DEF doc
  <2>4. Ids(d.fts \cup {doc}) = Ids(d.fts) \cup {doc.id}
    BY IdsOfAdded
  <2> QED
    BY <2>2, <2>3, <2>4
<1>8. Ids(d.fts) = Ids(d.formulas)
  BY <1>4 DEF OneDocEach, Ids
<1>9. OneDocEach(d2)
  BY <1>5, <1>6, <1>7, <1>8 DEF OneDocEach
<1>10. TablesInv(d2)
  BY <1>1, UpsertKeepsTablesInv
<1> QED
  BY <1>4, <1>5, <1>9, <1>10 DEF Wedged

\* What the steps that may change db do to it.
Grows ==
    /\ db.formulas \subseteq db'.formulas /\ db'.formulas # {}
    /\ ~Wedged(db)
Empties == db'.formulas = {} /\ db'.fts = db.fts
KeepsRows == db'.formulas = db.formulas /\ db'.fts = db.fts

LEMMA StoreStepOnce ==
    ASSUME ContentlessDelete = FALSE, OnceInv, StoreStep
    PROVE  OnceInv' /\ (Grows \/ Empties \/ KeepsRows)
<1> USE DEF OnceInv
<1>1. TablesAgree'
  BY StoreStepKeepsTables
<1>2. OneDocEach(EmptyTables)
  BY DEF OneDocEach, EmptyTables
<1>3. db \in Tables /\ TablesInv(db) /\ TablesInv(txn)
  BY DEF TablesAgree, TablesInv
<1>4. CASE Autocommit
  <2>0. lock = Free /\ lock' = Free /\ txn' = txn /\ txn = EmptyTables
    BY <1>4 DEF Autocommit, BatchExtends
  <2>1. CASE DeleteFormulas
    <3>1. db'.formulas = {} /\ db'.fts = db.fts
      BY <1>3, <2>1 DEF DeleteFormulas, Tables
    <3>2. OneDocEach(db')
      <4>1. CASE db.formulas = {}
        BY <3>1, <4>1 DEF OneDocEach
      <4>2. CASE db.formulas # {}
        <5>1. PICK n \in Nat : Ids(db.formulas) = 1..n
          BY <1>3 DEF TablesInv, Dense
        <5>2. n # 0
          <6>1. Ids(db.formulas) # {}
            BY <4>2 DEF Ids
          <6> QED
            BY <5>1, <6>1
        <5>3. 1 \in Ids(db.fts)
          BY <4>2, <5>1, <5>2 DEF OneDocEach
        <5> QED
          BY <3>1, <5>3 DEF OneDocEach
      <4> QED
        BY <4>1, <4>2
    <3> QED
      BY <1>1, <1>2, <2>0, <3>1, <3>2 DEF BatchExtends, Empties
  <2>2. CASE CanDeleteDocs(db, Ids(db.fts)) /\ DeleteFts
    <3>1. db.fts = {}
      BY <2>2 DEF CanDeleteDocs, Ids
    <3>2. db'.formulas = db.formulas /\ db'.fts = db.fts
      BY <1>3, <2>2, <3>1 DEF DeleteFts, Tables
    <3> QED
      BY <1>1, <1>2, <2>0, <3>2 DEF BatchExtends, KeepsRows, OneDocEach
  <2>3. CASE DeleteFacets
    <3>1. db'.formulas = db.formulas /\ db'.fts = db.fts
      BY <1>3, <2>3 DEF DeleteFacets, Tables
    <3> QED
      BY <1>1, <1>2, <2>0, <3>1 DEF BatchExtends, KeepsRows, OneDocEach
  <2>4. CASE UpsertInto(db, db')
    <3>1. OneDocEach(db') /\ Grows
      BY <1>3, <2>4, UpsertAddsOne DEF Grows
    <3> QED
      BY <1>1, <1>2, <2>0, <3>1 DEF BatchExtends
  <2> QED
    BY <1>4, <2>1, <2>2, <2>3, <2>4 DEF Autocommit
<1>5. CASE BatchAdd
  <2>1. PICK i \in Ingests : /\ lock \in {Free, i} /\ lock' = i
                             /\ UpsertInto(View(i), txn') /\ db' = db
    BY <1>5 DEF BatchAdd
  <2>2. i # Free
    BY IngestAssumption
  <2>3. TablesInv(View(i)) /\ OneDocEach(View(i))
    BY <1>3 DEF View
  <2>4. /\ OneDocEach(txn') /\ txn'.formulas # {}
        /\ View(i).formulas \subseteq txn'.formulas /\ ~Wedged(View(i))
    BY <2>1, <2>3, UpsertAddsOne
  <2>5. db.formulas \subseteq txn'.formulas /\ ~Wedged(db)
    BY <2>1, <2>2, <2>4 DEF View, BatchExtends
  <2> QED
    BY <1>1, <2>1, <2>2, <2>4, <2>5 DEF BatchExtends, KeepsRows
<1>6. CASE BatchCommit
  BY <1>1, <1>2, <1>6 DEF BatchCommit, BatchExtends, Grows
<1>7. CASE BatchDiscard
  BY <1>1, <1>2, <1>7 DEF BatchDiscard, BatchExtends, KeepsRows
<1>8. CASE UNCHANGED <<db, txn, lock>>
  BY <1>1, <1>8 DEF BatchExtends, KeepsRows
<1> QED
  BY <1>4, <1>5, <1>6, <1>7, <1>8 DEF StoreStep

-----------------------------------------------------------------------------
(***************************************************************************)
(* From here on, the invariant of every behaviour, and what it gives.      *)
(***************************************************************************)

LEMMA OnceStep ==
    ASSUME ContentlessDelete = FALSE, Inv, OnceInv, [Next]_vars
    PROVE  OnceInv' /\ (Grows \/ Empties \/ KeepsRows)
BY NextIsStoreStep, StoreStepOnce DEF Inv

LEMMA OnceInvariance ==
    ASSUME ContentlessDelete = FALSE
    PROVE  Spec => []OnceInv
<1>1. Init => OnceInv
  BY EmptyTablesInv DEF OnceInv, TablesAgree, OneDocEach, BatchExtends, Init,
                        StoreInit, EmptyTables
<1>2. Inv /\ OnceInv /\ [Next]_vars => OnceInv'
  BY OnceStep
<1> QED
  BY <1>1, <1>2, Invariance, PTL DEF Spec

\* Every formula exact search finds, committed or in an open batch, has its
\* document in formula_fts, at every point of a rebuild that other processes
\* write into.
THEOREM FuzzyIsComplete ==
    ASSUME ContentlessDelete = FALSE
    PROVE  Spec => []FuzzyComplete
<1>1. OnceInv => FuzzyComplete
  <2> SUFFICES ASSUME NEW d, OneDocEach(d) PROVE CompleteDocs(d)
    BY DEF OnceInv, FuzzyComplete
  <2> QED
    BY DEF OneDocEach, CompleteDocs, Ids
<1> QED
  BY <1>1, OnceInvariance, PTL

\* A committed formula is never changed: a POST or a later ingest of the same
\* side does not replace it, and it goes only when all of them go.
THEOREM FormulasAreImmutable ==
    ASSUME ContentlessDelete = FALSE
    PROVE  Spec => FormulasImmutable
<1>1. Inv /\ OnceInv /\ [Next]_vars =>
        [db.formulas \subseteq db'.formulas \/ db'.formulas = {}]_vars
  BY OnceStep DEF Grows, Empties, KeepsRows
<1> QED
  BY <1>1, Invariance, OnceInvariance, PTL DEF Spec, FormulasImmutable

\* A rebuild that emptied formulas but not formula_fts leaves a store no process
\* can ever index into again.
THEOREM WedgedStays ==
    ASSUME ContentlessDelete = FALSE
    PROVE  Spec => WedgedForever
<1>1. Inv /\ OnceInv /\ [Next]_vars => [Wedged(db) => Wedged(db')]_vars
  BY OnceStep DEF Grows, Empties, KeepsRows, Wedged
<1> QED
  BY <1>1, Invariance, OnceInvariance, PTL DEF Spec, WedgedForever

-----------------------------------------------------------------------------
(***************************************************************************)
(* Refinement.                                                             *)
(***************************************************************************)

\* Where documents and formulas agree, both ways of searching see the same.
LEMMA ViewsAgree ==
    ASSUME SoundDocs(db), CompleteDocs(db)
    PROVE  FuzzyView = ExactView
<1>1. ASSUME NEW hit \in Hits
      PROVE  <<hit[1].entry, hit[1].side, hit[2].doc>> \in ExactView
  <2>1. /\ hit[1] \in db.formulas
        /\ hit[2].doc = hit[1].canonical
    BY DEF Hits, SoundDocs
  <2> QED
    BY <2>1 DEF ExactView
<1>2. ASSUME NEW r \in db.formulas
      PROVE  <<r.entry, r.side, r.canonical>> \in FuzzyView
  <2>1. PICK f \in db.fts : f.id = r.id /\ f.doc = r.canonical
    <3>1. r.id \in Ids(db.fts)
      BY DEF CompleteDocs, Ids
    <3> QED
      BY <3>1 DEF Ids, SoundDocs
  <2> DEFINE hit == <<r, f>>
  <2>2. hit \in Hits /\ hit[1] = r /\ hit[2] = f
    BY <2>1 DEF Hits
  <2> QED
    BY <2>1, <2>2 DEF FuzzyView
<1>3. FuzzyView \subseteq ExactView
  BY <1>1 DEF FuzzyView
<1>4. ExactView \subseteq FuzzyView
  BY <1>2 DEF ExactView
<1> QED
  BY <1>3, <1>4

\* What the invariant says of the two views.
ViewsMatch ==
    /\ FuzzyView = ExactView
    /\ ExactView \subseteq Index!Entries
    /\ Index!Functional(ExactView)

LEMMA ViewsOfInv == OnceInv => ViewsMatch
<1> SUFFICES ASSUME OnceInv PROVE ViewsMatch
  OBVIOUS
<1>1. TablesInv(db) /\ OneDocEach(db)
  BY DEF OnceInv, TablesAgree
<1>2. CompleteDocs(db)
  BY <1>1 DEF OneDocEach, CompleteDocs, Ids
<1>3. FuzzyView = ExactView
  BY <1>1, <1>2, ViewsAgree DEF TablesInv
<1>4. \A r \in db.formulas : <<r.entry, r.side, r.canonical>> \in Index!Entries
  BY <1>1 DEF TablesInv, Tables, Row, Index!Entries
<1>5. ExactView \subseteq Index!Entries
  BY <1>4 DEF ExactView
<1>6. Index!Functional(ExactView)
  <2> SUFFICES ASSUME NEW x \in ExactView, NEW y \in ExactView,
                      x[1] = y[1], x[2] = y[2]
               PROVE  x = y
    BY DEF Index!Functional
  <2>1. PICK r \in db.formulas : x = <<r.entry, r.side, r.canonical>>
    BY DEF ExactView
  <2>2. PICK q \in db.formulas : y = <<q.entry, q.side, q.canonical>>
    BY DEF ExactView
  <2>3. r.entry = q.entry /\ r.side = q.side
    BY <2>1, <2>2
  <2>4. r = q
    BY <1>1, <2>3 DEF TablesInv, UniqueKeys
  <2> QED
    BY <2>1, <2>2, <2>4
<1> QED
  BY <1>3, <1>5, <1>6 DEF ViewsMatch

\* The views of a table without formulas are empty, and only of such a table.
LEMMA ViewsOfEmpty ==
    /\ db.formulas = {} => ExactView = {} /\ FuzzyView = {}
    /\ db.formulas # {} => ExactView # {}
<1>1. ASSUME db.formulas = {}
      PROVE  ExactView = {} /\ FuzzyView = {}
  BY <1>1 DEF ExactView, FuzzyView, Hits
<1>2. ASSUME NEW r \in db.formulas
      PROVE  <<r.entry, r.side, r.canonical>> \in ExactView
  BY DEF ExactView
<1> QED
  BY <1>1, <1>2

\* Both ways of searching show the same formulas at every moment, each written
\* once, until a rebuild drops all of them and retires the index.
THEOREM RefinesSearchIndex ==
    ASSUME ContentlessDelete = FALSE
    PROVE  Spec => ImplementsSearchIndex
<1>1. Init => Index!Init
  BY ViewsOfEmpty DEF Init, StoreInit, EmptyTables, Wedged, Index!Init
<1>2. OnceInv => ViewsMatch
  BY ViewsOfInv
<1>3. Inv /\ OnceInv /\ ViewsMatch /\ ViewsMatch' /\ [Next]_vars
        => [Index!Next]_(Index!vars)
  <2> SUFFICES ASSUME Inv, OnceInv, ViewsMatch, ViewsMatch', [Next]_vars
               PROVE  [Index!Next]_(Index!vars)
    OBVIOUS
  <2>1. FuzzyView = ExactView /\ FuzzyView' = ExactView'
    BY DEF ViewsMatch
  <2>2. CASE KeepsRows
    BY <2>2 DEF KeepsRows, ExactView, FuzzyView, Hits, Wedged, Index!vars
  <2>3. CASE Grows
    <3>1. ExactView \subseteq ExactView'
      BY <2>3 DEF Grows, ExactView
    <3>2. ~Wedged(db) /\ ~Wedged(db)'
      BY <2>3 DEF Grows, Wedged
    <3>3. ExactView' \subseteq Index!Entries
      BY DEF ViewsMatch, Index!Entries
    <3>4. Index!Functional(ExactView')
      BY DEF ViewsMatch, Index!Functional
    <3>5. Wedged(db)' = Wedged(db)
      BY <2>3 DEF Grows, Wedged
    <3>6. Index!Publish
      BY <2>1, <3>1, <3>2, <3>3, <3>4, <3>5 DEF Index!Publish
    <3> QED
      BY <3>6 DEF Index!Next
  <2>4. CASE Empties /\ db.formulas = {}
    BY <2>2, <2>4 DEF Empties, KeepsRows
  <2>5. CASE Empties /\ db.formulas # {}
    <3>1. ExactView' = {} /\ FuzzyView' = {} /\ ExactView # {}
      <4>1. ExactView # {}
        BY <2>5, ViewsOfEmpty
      <4>2. ExactView' = {}
        BY <2>5 DEF Empties, ExactView
      <4> QED
        BY <2>1, <4>1, <4>2
    <3>2. db.fts # {}
      BY <2>5 DEF OnceInv, OneDocEach, Ids
    <3>3. Wedged(db)' = TRUE
      BY <2>5, <3>2 DEF Empties, Wedged
    <3> QED
      BY <3>1, <3>3 DEF Index!Next, Index!Drop
  <2> QED
    BY <2>2, <2>3, <2>4, <2>5, OnceStep
<1> QED
  BY <1>1, <1>2, <1>3, Invariance, OnceInvariance, PTL
     DEF Spec, ImplementsSearchIndex, Index!Spec

-----------------------------------------------------------------------------
(***************************************************************************)
(* What a POST achieves.                                                   *)
(***************************************************************************)

\* Side s of entry e reads t, or the store was emptied since it did.
KeptText(e, s, t) ==
    \/ Wedged(db)
    \/ \E r \in db.formulas : r.entry = e /\ r.side = s /\ r.text = t

\* Request p is past side s.
Handled(p, s) ==
    post[p].pc \in {"respond", "200"} \/ (s = "lhs" /\ post[p].pc = "rhs")

\* What a request has stored stays, from the moment it is stored: while the other
\* side is handled and after the answer.
AckInv ==
    \A p \in Posts, s \in Sides :
        Handled(p, s) /\ post[p].body[s] # Blank =>
            KeptText(post[p].body.entry, s, post[p].body[s])

\* A text that is kept is kept for good.
LEMMA TextStaysKept ==
    ASSUME OnceInv, Grows \/ Empties \/ KeepsRows, NEW e, NEW s, NEW t, KeptText(e, s, t)
    PROVE  KeptText(e, s, t)'
<1>1. CASE Grows
  BY <1>1 DEF Grows, KeptText
<1>2. CASE Empties
  BY <1>2 DEF Empties, KeptText, Wedged, OnceInv, OneDocEach, Ids
<1>3. CASE KeepsRows
  BY <1>3 DEF KeepsRows, KeptText, Wedged
<1> QED
  BY <1>1, <1>2, <1>3

LEMMA UpsertKeepsText ==
    ASSUME NEW p \in Posts, NEW s \in Sides, PostUpsert(p, s),
           NEW e, e = post[p].body.entry, NEW t, t = post[p].body[s]
    PROVE  KeptText(e, s, t)'
<1> DEFINE new == [id |-> UpsertId(db, e, s), entry |-> e, side |-> s, text |-> t,
                   canonical |-> PostCanon(p, s)]
<1>1. new \in db'.formulas
  BY DEF PostUpsert, Upserted
<1>2. new.entry = e /\ new.side = s /\ new.text = t
  OBVIOUS
<1> HIDE DEF new
<1> QED
  BY <1>1, <1>2 DEF KeptText

LEMMA PostProgress ==
    ASSUME ControlInv, [Next]_vars, NEW p \in Posts, NEW s \in Sides,
           Handled(p, s)', post'[p].body[s] # Blank
    PROVE  post'[p].body = post[p].body /\ (Handled(p, s) \/ PostUpsert(p, s))
<1> USE DEF Handled
<1>0. post \in [Posts -> PostState]
  BY DEF ControlInv
<1>1. CASE UNCHANGED post
  BY <1>1
<1>2. ASSUME NEW q \in Posts, PostStart(q)
      PROVE  post'[p].body = post[p].body /\ Handled(p, s)
  <2>1. PICK b \in Submissions :
           post' = [post EXCEPT ![q] =
                      [post[q] EXCEPT !.body = b,
                                      !.pc = IF b.entry = Blank THEN "400" ELSE "lhs"]]
    BY <1>2 DEF PostStart
  <2>2. CASE q = p
    BY <1>0, <2>1, <2>2 DEF PostState
  <2>3. CASE q # p
    BY <1>0, <2>1, <2>3
  <2> QED
    BY <2>2, <2>3
<1>3. ASSUME NEW q \in Posts, NEW t \in Sides, PostSide(q, t)
      PROVE  post'[p].body = post[p].body /\ (Handled(p, s) \/ PostUpsert(p, s))
  <2> USE <1>0 DEF PostState, Sides, AfterSide
  <2>1. CASE q # p
    BY <1>3, <2>1 DEF PostSide, PostSkipSide, PostParseError, PostUpsert, PostUpsertFails, PostBusy
  <2>2. CASE q = p /\ PostSkipSide(p, t)
    BY <2>2 DEF PostSkipSide
  <2>3. CASE q = p /\ (PostParseError(p, t) \/ PostUpsertFails(p, t) \/ PostBusy(p, t))
    BY <2>3 DEF PostParseError, PostUpsertFails, PostBusy
  <2>4. CASE q = p /\ PostUpsert(p, t)
    <3>1. /\ post[p].pc = t /\ post'[p].pc = AfterSide(t) /\ post'[p].body = post[p].body
      BY <2>4 DEF PostUpsert
    <3>2. s = t \/ Handled(p, s)
      BY <3>1
    <3> QED
      BY <2>4, <3>1, <3>2
  <2> QED
    BY <1>3, <2>1, <2>2, <2>3, <2>4 DEF PostSide
<1>4. ASSUME NEW q \in Posts, PostRespond(q)
      PROVE  post'[p].body = post[p].body /\ Handled(p, s)
  BY <1>0, <1>4 DEF PostRespond, PostState
<1>5. ASSUME NEW g \in Servers, ServerStart(g) \/ ServerCrash(g)
      PROVE  post'[p].body = post[p].body /\ Handled(p, s)
  BY <1>0, <1>5 DEF ServerStart, ServerCrash, PostState
<1>6. UNCHANGED vars \/ (\E i \in Ingests : IngestNext(i) /\ UNCHANGED serverVars)
        => UNCHANGED post
  BY DEF vars, serverVars
<1> QED
  BY <1>1, <1>2, <1>3, <1>4, <1>5, <1>6 DEF Next, ServerNext, PostStep

\* What the server has acknowledged is never replaced: the formula stored for a
\* side is the one the client was told is indexed, whatever else is posted or
\* ingested for that side, or the store was emptied since.
THEOREM AcknowledgedStaysKept ==
    ASSUME ContentlessDelete = FALSE
    PROVE  Spec => []AcknowledgedKept
<1>1. Init => AckInv
  BY DEF Init, ServerInit, AckInv, Handled
<1>2. Inv /\ OnceInv /\ AckInv /\ [Next]_vars => AckInv'
  <2> SUFFICES ASSUME Inv, OnceInv, AckInv, [Next]_vars, NEW p \in Posts, NEW s \in Sides,
                      Handled(p, s)', post'[p].body[s] # Blank,
                      NEW e, e = post'[p].body.entry, NEW t, t = post'[p].body[s]
               PROVE  KeptText(e, s, t)'
    BY DEF AckInv
  <2>1. post'[p].body = post[p].body /\ (Handled(p, s) \/ PostUpsert(p, s))
    BY PostProgress DEF Inv
  <2>2. CASE Handled(p, s)
    <3>1. KeptText(e, s, t)
      BY <2>1, <2>2 DEF AckInv
    <3> QED
      BY <3>1, OnceStep, TextStaysKept
  <2>3. CASE PostUpsert(p, s)
    BY <2>1, <2>3, UpsertKeepsText
  <2> QED
    BY <2>1, <2>2, <2>3
<1>3. Inv /\ AckInv => AcknowledgedKept
  <2> SUFFICES ASSUME Inv, AckInv, NEW p \in Posts, NEW s \in Sides,
                      post[p].pc = "200", post[p].body[s] # Blank,
                      NEW r \in Conflicting(db, post[p].body.entry, s)
               PROVE  r.text = post[p].body[s]
    BY DEF AcknowledgedKept
  <2>1. r \in db.formulas /\ r.entry = post[p].body.entry /\ r.side = s
    BY DEF Conflicting
  <2>2. KeptText(post[p].body.entry, s, post[p].body[s])
    BY DEF AckInv, Handled
  <2>3. PICK x \in db.formulas : /\ x.entry = post[p].body.entry /\ x.side = s
                                 /\ x.text = post[p].body[s]
    BY <2>1, <2>2 DEF KeptText, Wedged
  <2>4. x = r
    BY <2>1, <2>3 DEF Inv, TablesAgree, TablesInv, UniqueKeys
  <2> QED
    BY <2>3, <2>4
<1> QED
  BY <1>1, <1>2, <1>3, Invariance, OnceInvariance, PTL DEF Spec

-----------------------------------------------------------------------------
(***************************************************************************)
(* What an ingest run achieves.                                            *)
(***************************************************************************)

\* What a run has read so far and could parse is in the store as it sees it,
\* or the store was emptied since.
ReadInv ==
    \A i \in Ingests :
        ing[i].pc \in {"ingesting", "done"} =>
            \/ Wedged(db)
            \/ \A k \in 1..ing[i].pos : ToStore(i, k) => Stored(View(i), i, k)

\* The steps of all others: i keeps its place and its batch, and without a batch
\* it sees the committed tables.
LEMMA OthersRead ==
    ASSUME ControlInv, NEW i \in Ingests, [Next]_vars, ~IngestNext(i)
    PROVE  /\ ing'[i] = ing[i]
           /\ \/ View(i)' = View(i)
              \/ View(i) = db /\ View(i)' = db'
<1>0. /\ ing \in [Ingests -> IngestState] /\ Free \notin Ingests
      /\ \A j \in Ingests : lock = j <=> ing[j].pc = "ingesting" /\ ing[j].inBatch > 0
  BY IngestAssumption DEF ControlInv, LockHolderActive
<1>1. CASE UNCHANGED vars
  BY <1>1 DEF vars, storeVars, View
<1>2. ASSUME NEW j \in Ingests \ {i}, IngestNext(j)
      PROVE  /\ ing'[i] = ing[i]
             /\ lock = i => lock' = i /\ txn' = txn
             /\ lock # i => lock' # i
  <2> USE DEF CanWrite
  <2>1. ing'[i] = ing[i]
    BY <1>0, <1>2 DEF IngestNext, IngestStep, IngestStart, IngestOpen, IngestCheckStale,
                      ResetFormulas, ResetFts, ResetFtsFails, ResetFacets, StampProbe,
                      StampSchema, IngestExpand, IngestSkip, IngestAdd, IngestAddFails,
                      IngestFlush, IngestFinish, IngestBusy, IngestCrash, Goto
  <2>2. /\ IngestFlush(j) => lock = j
        /\ lock' # i \/ lock' = lock
    BY <1>0, <1>2, IngestAssumption
       DEF IngestNext, IngestStep, IngestStart, IngestOpen, IngestCheckStale,
           ResetFormulas, ResetFts, ResetFtsFails, ResetFacets, StampProbe,
           StampSchema, IngestExpand, IngestSkip, IngestAdd, IngestAddFails,
           IngestFlush, IngestFinish, IngestBusy, IngestCrash, Goto, storeVars
  <2>3. lock = i => lock' = i /\ txn' = txn
    BY <1>0, <1>2, <2>2
       DEF IngestNext, IngestStep, IngestStart, IngestOpen, IngestCheckStale,
           ResetFormulas, ResetFts, ResetFtsFails, ResetFacets, StampProbe,
           StampSchema, IngestExpand, IngestSkip, IngestAdd, IngestAddFails,
           IngestFinish, IngestBusy, IngestCrash, storeVars
  <2> QED
    BY <2>1, <2>2, <2>3
<1>3. CASE ServerNext /\ UNCHANGED ing
  BY <1>3 DEF ServerNext, PostStart, PostStep, PostRespond, PostSide, PostSkipSide, PostParseError,
              PostUpsert, PostUpsertFails, PostBusy, ServerStart, ServerCrash, storeVars, View
<1> QED
  BY <1>1, <1>2, <1>3 DEF Next, View

\* The item an upsert adds is stored, and those stored before still are.
LEMMA AddStores ==
    ASSUME ContentlessDelete = FALSE, Inv, OnceInv, NEW i \in Ingests, IngestAdd(i)
    PROVE  /\ ~Wedged(db)
           /\ View(i).formulas \subseteq View(i)'.formulas
           /\ ing'[i].pos = ing[i].pos + 1 /\ ing'[i].corpus = ing[i].corpus
           /\ ing[i].pc = "ingesting"
           /\ \E r \in View(i)'.formulas :
                 /\ r.entry = Item(i).entry /\ r.side = Item(i).side
                 /\ r.text = Item(i).text /\ r.canonical = ItemCanon(i)
<1> DEFINE new == [id |-> UpsertId(View(i), Item(i).entry, Item(i).side),
                   entry |-> Item(i).entry, side |-> Item(i).side,
                   text |-> Item(i).text, canonical |-> ItemCanon(i)]
<1>1. /\ HasItem(i) /\ Indexable(i) /\ lock \in {Free, i} /\ lock' = i
      /\ CanUpsert(View(i), Item(i).entry, Item(i).side)
      /\ txn' = Upserted(View(i), Item(i).entry, Item(i).side, Item(i).text, ItemCanon(i))
  BY DEF IngestAdd, CanWrite
<1>2. UpsertInto(View(i), txn')
  BY <1>1, ItemTyped DEF UpsertInto, Inv
<1>3. TablesInv(View(i)) /\ OneDocEach(View(i))
  BY DEF View, OnceInv, TablesAgree
<1>4. View(i).formulas \subseteq txn'.formulas /\ ~Wedged(View(i))
  BY <1>2, <1>3, UpsertAddsOne
<1>5. View(i)' = txn' /\ ~Wedged(db)
  BY <1>1, <1>4, IngestAssumption DEF View, OnceInv, BatchExtends
<1>6. /\ new \in txn'.formulas
      /\ new.entry = Item(i).entry /\ new.side = Item(i).side
      /\ new.text = Item(i).text /\ new.canonical = ItemCanon(i)
  BY <1>1 DEF Upserted
<1> HIDE DEF new
<1>7. /\ ing'[i].pos = ing[i].pos + 1 /\ ing'[i].corpus = ing[i].corpus
      /\ ing[i].pc = "ingesting"
  <2>1. ing \in [Ingests -> IngestState]
    BY DEF Inv, ControlInv
  <2>2. ing' = [ing EXCEPT ![i] = [ing[i] EXCEPT !.pos = ing[i].pos + 1,
                                                 !.inBatch = ing[i].inBatch + 1]]
    BY DEF IngestAdd
  <2> QED
    BY <1>1, <2>1, <2>2 DEF HasItem, IngestState
<1> QED
  BY <1>4, <1>5, <1>6, <1>7

\* What i sees changes as the committed tables do, or not at all.
LEMMA ReadStays ==
    ASSUME Inv, OnceInv, Grows \/ Empties \/ KeepsRows, NEW i \in Ingests,
           ing'[i] = ing[i], View(i)' = View(i) \/ (View(i) = db /\ View(i)' = db'),
           ~Wedged(db)', NEW k, Stored(View(i), i, k)
    PROVE  Stored(View(i), i, k)'
<1>1. View(i).formulas \subseteq View(i)'.formulas \/ View(i)' = View(i)
  BY DEF Grows, Empties, KeepsRows, Wedged, OnceInv, OneDocEach, Ids, Stored
<1> QED
  BY <1>1 DEF Stored

LEMMA ReadStep ==
    ASSUME ContentlessDelete = FALSE, Inv, OnceInv, StartsAtFirst, ReadInv, [Next]_vars
    PROVE  ReadInv'
<1>0. /\ ing \in [Ingests -> IngestState]
      /\ Grows \/ Empties \/ KeepsRows
  BY OnceStep DEF Inv, ControlInv
<1>1. Wedged(db) => Wedged(db)'
  BY <1>0 DEF Grows, Empties, KeepsRows, Wedged
<1>2. ASSUME NEW i \in Ingests, ~IngestNext(i)
      PROVE  /\ ing'[i] = ing[i]
             /\ ing[i].pc \in {"ingesting", "done"} =>
                  \/ Wedged(db)'
                  \/ \A k \in 1..ing[i].pos : ToStore(i, k)' => Stored(View(i), i, k)'
  <2>1. /\ ing'[i] = ing[i]
        /\ View(i)' = View(i) \/ (View(i) = db /\ View(i)' = db')
    BY <1>2, OthersRead DEF Inv
  <2>2. ASSUME NEW k, ToStore(i, k)' PROVE ToStore(i, k)
    BY <2>1, <2>2 DEF ToStore
  <2>3. ASSUME ~Wedged(db)', NEW k, Stored(View(i), i, k)
        PROVE  Stored(View(i), i, k)'
    BY <1>0, <2>1, <2>3, ReadStays
  <2> QED
    BY <1>1, <2>1, <2>2, <2>3 DEF ReadInv
<1>3. ASSUME NEW i \in Ingests, IngestNext(i)
      PROVE  ing'[i].pc \in {"ingesting", "done"} =>
                \/ Wedged(db)'
                \/ \A k \in 1..ing'[i].pos : ToStore(i, k)' => Stored(View(i), i, k)'
  <2>0. PICK n \in Nat : n = ing[i].pos
    BY <1>0 DEF IngestState
  <2>a. ASSUME ing'[i].corpus = ing[i].corpus, NEW k
        PROVE  /\ ToStore(i, k)' = ToStore(i, k)
               /\ Stored(View(i), i, k) /\ View(i).formulas \subseteq View(i)'.formulas
                    => Stored(View(i), i, k)'
    BY <2>a DEF ToStore, Stored
  <2>1. CASE IngestAdd(i)
    <3>1. /\ ~Wedged(db) /\ ing[i].pc = "ingesting"
          /\ View(i).formulas \subseteq View(i)'.formulas
          /\ ing'[i].pos = n + 1 /\ ing'[i].corpus = ing[i].corpus
      BY <2>0, <2>1, AddStores
    <3>2. Stored(View(i), i, n + 1)'
      <4>1. PICK r \in View(i)'.formulas :
              /\ r.entry = Item(i).entry /\ r.side = Item(i).side
              /\ r.text = Item(i).text /\ r.canonical = ItemCanon(i)
        BY <2>1, AddStores
      <4>2. Item(i) = ing'[i].corpus[n + 1]
        BY <2>0, <3>1 DEF Item
      <4> QED
        BY <4>1, <4>2 DEF Stored, ItemCanon
    <3>3. \A k \in 1..n : ToStore(i, k) => Stored(View(i), i, k)
      BY <2>0, <3>1 DEF ReadInv
    <3>4. \A k \in 1..(n + 1) : ToStore(i, k)' => Stored(View(i), i, k)'
      <4> SUFFICES ASSUME NEW k \in 1..(n + 1), ToStore(i, k)'
                   PROVE  Stored(View(i), i, k)'
        OBVIOUS
      <4>1. CASE k = n + 1
        BY <3>2, <4>1
      <4>2. CASE k \in 1..n
        BY <2>a, <3>1, <3>3, <4>2
      <4> QED
        BY <2>0, <4>1, <4>2
    <3> QED
      BY <3>1, <3>4
  <2>2. CASE ReadsNothing(i)
    <3>1. /\ ing'[i].corpus = ing[i].corpus /\ ing[i].pc = "ingesting"
          /\ View(i)' = View(i)
          /\ ing'[i].pos = n \/ (ing'[i].pos = n + 1 /\ ~ToStore(i, n + 1))
      BY <2>0, <2>2 DEF ReadsNothing
    <3>2. Wedged(db) \/ \A k \in 1..n : ToStore(i, k) => Stored(View(i), i, k)
      BY <2>0, <3>1 DEF ReadInv
    <3>3. ASSUME NEW k \in 1..ing'[i].pos, ToStore(i, k)', ~Wedged(db)'
          PROVE  Stored(View(i), i, k)'
      <4>1. ToStore(i, k)
        BY <2>a, <3>1, <3>3
      <4>2. k \in 1..n
        BY <2>0, <3>1, <3>3, <4>1
      <4>3. Stored(View(i), i, k)
        BY <1>1, <3>2, <3>3, <4>1, <4>2
      <4> QED
        BY <2>a, <3>1, <4>3
    <3> QED
      BY <3>3
  <2>3. CASE ing'[i].pos = 0
    BY <2>3
  <2> QED
    BY <1>3, <2>1, <2>2, <2>3, RunReads
<1> QED
  BY <1>2, <1>3 DEF ReadInv

\* What an ingest has read is in the store, across batch boundaries, between the
\* batches of other processes and after the end of the run, unless the store was
\* emptied meanwhile.
THEOREM NothingIsSkipped ==
    ASSUME ContentlessDelete = FALSE
    PROVE  Spec => []NothingSkipped
<1>1. Init => ReadInv
  BY DEF Init, IngestInit, ReadInv
<1>2. Inv /\ OnceInv /\ StartsAtFirst /\ ReadInv /\ [Next]_vars => ReadInv'
  BY ReadStep
<1>3. OnceInv /\ ReadInv => NothingSkipped
  <2> SUFFICES ASSUME OnceInv, ReadInv, NEW i \in Ingests,
                      ing[i].pc \in {"ingesting", "done"}
               PROVE  \/ \A k \in 1..ing[i].pos :
                           ToStore(i, k) /\ ~Superseded(i, k) => Stored(View(i), i, k)
                      \/ View(i).formulas = {}
    BY DEF NothingSkipped
  <2>1. CASE Wedged(db)
    BY <2>1, IngestAssumption DEF OnceInv, BatchExtends, View, Wedged
  <2>2. CASE ~Wedged(db)
    BY <2>2 DEF ReadInv
  <2> QED
    BY <2>1, <2>2
<1> QED
  BY <1>1, <1>2, <1>3, Invariance, StartsInvariance, OnceInvariance, PTL DEF Spec

=============================================================================
