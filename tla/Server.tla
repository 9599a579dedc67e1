------------------------------- MODULE Server -------------------------------
(***************************************************************************)
(* The write side of `mathsearch serve`: POST /api/formulas                *)
(* (handleAddFormula).  Requests run concurrently, each over a connection  *)
(* of its own from database/sql's pool; one request upserts its two sides  *)
(* in two separate transactions.  The request is past auth.Require here.   *)
(***************************************************************************)
EXTENDS FormulaStore

CONSTANTS
    Posts,         \* the requests
    Submissions,   \* the bodies they may carry: [entry, lhs, rhs]
    ServerEngine   \* the engine of the server handling each request

ASSUME ServerAssumption ==
    /\ Submissions \subseteq [entry : EntryIds \cup {Blank},
                              lhs : Texts \cup {Blank}, rhs : Texts \cup {Blank}]
    /\ ServerEngine \in [Posts -> Engines]

VARIABLES
    serving,  \* the engines of the servers that are up
    post      \* post[p]: the request, how far its handler is, its answer

serverVars == <<serving, post>>

\* One server per engine that some request is sent to.
Servers == {ServerEngine[p] : p \in Posts}

NoBody == [entry |-> Blank, lhs |-> Blank, rhs |-> Blank]

\* pc is the side being handled, "respond", or how the request ended: the
\* status sent (fts500: an upsert refused by FTS5; busy500: the lock not
\* obtained) or "dead" when the server died first.
HandlerPcs == Sides \cup {"respond"}
Answers    == {"200", "400", "fts500", "busy500", "dead"}

PostState == [pc : {"idle"} \cup HandlerPcs \cup Answers,
              body : Submissions \cup {NoBody},
              indexed : Nat]

ServerInit ==
    /\ serving = {}
    /\ post = [p \in Posts |-> [pc |-> "idle", body |-> NoBody, indexed |-> 0]]

\* Mutant: the loop over the sides does not advance past rhs.
AfterSideStuck(s) == "rhs"

AfterSide(s) == IF s = "lhs" THEN "rhs" ELSE "respond"

PostCanon(p, s) == Canon[ServerEngine[p]][post[p].body[s]]

-----------------------------------------------------------------------------

\* cmdServe: store.Open, which needs the writer lock for its DDL.  A stale
\* index is only warned about: the server goes on to serve it.
ServerStart(g) ==
    /\ g \notin serving
    /\ lock = Free
    /\ serving' = serving \cup {g}
    /\ RecordLayout
    /\ UNCHANGED <<db, txn, lock, post>>

\* Decoding the body; an entry without an id is answered 400 at once.
PostStart(p) ==
    /\ post[p].pc = "idle"
    /\ ServerEngine[p] \in serving
    /\ \E b \in Submissions :
         post' = [post EXCEPT ![p] =
                    [post[p] EXCEPT !.body = b,
                                    !.pc = IF b.entry = Blank THEN "400" ELSE "lhs"]]
    /\ UNCHANGED <<storeVars, serving>>

PostSkipSide(p, s) ==
    /\ post[p].pc = s
    /\ post[p].body[s] = Blank
    /\ post' = [post EXCEPT ![p].pc = AfterSide(s)]
    /\ UNCHANGED <<storeVars, serving>>

\* A side that does not parse ends the request; what an earlier side stored
\* stays stored.
PostParseError(p, s) ==
    /\ post[p].pc = s
    /\ post[p].body[s] # Blank
    /\ PostCanon(p, s) = ParseError
    /\ post' = [post EXCEPT ![p].pc = "400"]
    /\ UNCHANGED <<storeVars, serving>>

\* Store.Upsert: one transaction, visible only once committed.
PostUpsert(p, s) ==
    /\ post[p].pc = s
    /\ post[p].body[s] # Blank
    /\ PostCanon(p, s) # ParseError
    /\ CanWrite(p)
    /\ CanUpsert(db, post[p].body.entry, s)
    /\ db' = Upserted(db, post[p].body.entry, s, post[p].body[s], PostCanon(p, s))
    /\ post' = [post EXCEPT ![p] = [post[p] EXCEPT !.pc = AfterSide(s),
                                                   !.indexed = post[p].indexed + 1]]
    /\ UNCHANGED <<txn, lock, meta, serving>>

PostUpsertFails(p, s) ==
    /\ post[p].pc = s
    /\ post[p].body[s] # Blank
    /\ PostCanon(p, s) # ParseError
    /\ CanWrite(p)
    /\ ~CanUpsert(db, post[p].body.entry, s)
    /\ post' = [post EXCEPT ![p].pc = "fts500"]
    /\ UNCHANGED <<storeVars, serving>>

PostBusy(p, s) ==
    /\ post[p].pc = s
    /\ post[p].body[s] # Blank
    /\ PostCanon(p, s) # ParseError
    /\ Busy(p)
    /\ post' = [post EXCEPT ![p].pc = "busy500"]
    /\ UNCHANGED <<storeVars, serving>>

PostRespond(p) ==
    /\ post[p].pc = "respond"
    /\ post' = [post EXCEPT ![p].pc = IF post[p].indexed = 0 THEN "400" ELSE "200"]
    /\ UNCHANGED <<storeVars, serving>>

-----------------------------------------------------------------------------

\* A server dies with every request it is handling.
ServerCrash(g) ==
    /\ g \in serving
    /\ serving' = serving \ {g}
    /\ post' = [p \in Posts |->
                  IF ServerEngine[p] = g /\ post[p].pc \in HandlerPcs
                  THEN [post[p] EXCEPT !.pc = "dead"] ELSE post[p]]
    /\ UNCHANGED storeVars

PostSide(p, s) ==
    \/ PostSkipSide(p, s) \/ PostParseError(p, s)
    \/ PostUpsert(p, s) \/ PostUpsertFails(p, s) \/ PostBusy(p, s)

PostStep(p) == PostRespond(p) \/ \E s \in Sides : PostSide(p, s)

ServerNext ==
    \/ \E p \in Posts : PostStart(p) \/ PostStep(p)
    \/ \E g \in Servers : ServerStart(g) \/ ServerCrash(g)

=============================================================================
