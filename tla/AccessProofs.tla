---------------------------- MODULE AccessProofs ----------------------------
(***************************************************************************)
(* Theorems about Access: who is let through to a write, and for whom a    *)
(* social token is, for any number of sign-ins, requests and restarts.     *)
(***************************************************************************)
EXTENDS Access, TLAPS

\* A sign-in that has come back keeps its browser and, if it was authorised,
\* its person; a callback past the state check belongs to such a one.
CallbackInv ==
    \A k \in Callbacks :
        callback[k].pc \in {"exchange", "identity", "200"} =>
            LET s == callback[k].signIn IN
            /\ s \in SignIns
            /\ signIn[s].pc \in {"back", "spent"}
            /\ signIn[s].who \in People
            /\ callback[k].browser = signIn[s].browser
            /\ callback[k].pc = "200" =>
                 callback[k].token.sub = <<signIn[s].provider, signIn[s].who>>

\* The cookie of a browser is that of a sign-in started there.
CookieInv ==
    \A b \in Browsers :
        cookie[b] # None => /\ signIn[cookie[b].state].pc # "new"
                            /\ signIn[cookie[b].state].browser = b

\* A token has an origin: a password, which also says until when, or a sign-in.
FromLogin(token, l) ==
    /\ token.sub = l.user
    /\ token.role = "privileged"
    /\ token.secret = l.secret
    /\ token.expires = l.at + TTL
    /\ l.at <= now

FromCallback(token, k) ==
    /\ callback[k].pc = "200"
    /\ callback[k].token = token
    /\ token.role = "social"
    /\ token.secret = callback[k].secret
    /\ token.expires = callback[k].at + TTL
    /\ callback[k].at <= now

IssuedInv ==
    \A token \in issued :
        \/ \E l \in logins : FromLogin(token, l)
        \/ \E k \in Callbacks : FromCallback(token, k)

\* A request in its handler was let through by a server with authentication on,
\* and a restart does not spare it.
HandlerInv == \A w \in Writes : write[w].pc = "handler" => server.enabled

IInv == /\ TypeOK /\ CookieInv /\ CallbackInv /\ IssuedInv /\ HandlerInv
        /\ WriterWasEntitled

-----------------------------------------------------------------------------

LEMMA IInvInit == Init => IInv
<1> SUFFICES ASSUME Init PROVE IInv
  OBVIOUS
<1> USE DEF Init
<1>1. TypeOK
  <2>1. signIn \in [SignIns -> SignInState]
    BY DEF SignInState
  <2>2. callback \in [Callbacks -> CallbackState]
    BY DEF CallbackState
  <2>3. write \in [Writes -> WriteState]
    BY DEF WriteState
  <2> QED
    BY <2>1, <2>2, <2>3, AccessAssumption DEF TypeOK
<1>2. CookieInv
  BY DEF CookieInv
<1>3. CallbackInv
  BY DEF CallbackInv
<1>4. IssuedInv
  BY DEF IssuedInv
<1>5. HandlerInv /\ WriterWasEntitled
  <2>1. \A w \in Writes : write[w].pc = "new"
    OBVIOUS
  <2> QED
    BY <2>1 DEF HandlerInv, WriterWasEntitled
<1> QED
  BY <1>1, <1>2, <1>3, <1>4, <1>5 DEF IInv

\* A token that is issued is typed.
LEMMA IssueTyped ==
    ASSUME TypeOK, NEW sub \in Subjects, NEW role \in {"privileged", "social"}
    PROVE  /\ Issue(sub, role) \in Token
           /\ Issue(sub, role).sub = sub
           /\ Issue(sub, role).role = role
           /\ Issue(sub, role).secret = server.secret
           /\ Issue(sub, role).expires = now + TTL
BY AccessAssumption DEF TypeOK, Issue, Token, Config

-----------------------------------------------------------------------------
(***************************************************************************)
(* Types.                                                                  *)
(***************************************************************************)

\* The records of a sign-in and of a callback, with some fields replaced.
LEMMA SignInWith ==
    ASSUME NEW r \in SignInState, NEW pc \in {"provider", "back", "spent"}
    PROVE  /\ [r EXCEPT !.pc = pc] \in SignInState
           /\ \A b \in Browsers : [r EXCEPT !.pc = pc, !.browser = b] \in SignInState
           /\ \A w \in People \cup {None} :
                [r EXCEPT !.pc = pc, !.who = w] \in SignInState
BY DEF SignInState

LEMMA CallbackWith ==
    ASSUME NEW r \in CallbackState,
           NEW pc \in {"exchange", "identity", "200", "400", "502", "dead"}
    PROVE  /\ [r EXCEPT !.pc = pc] \in CallbackState
           /\ \A s \in SignIns, b \in Browsers :
                [r EXCEPT !.pc = pc, !.signIn = s, !.browser = b] \in CallbackState
           /\ \A t \in Token, n \in Nat, x \in Secrets :
                [r EXCEPT !.pc = pc, !.token = t, !.at = n, !.secret = x]
                    \in CallbackState
BY DEF CallbackState

LEMMA TypeStep ==
    ASSUME TypeOK, CallbackInv, [Next]_vars
    PROVE  TypeOK'
<1> USE DEF TypeOK
<1>1. CASE UNCHANGED vars
  BY <1>1 DEF vars
<1>2. CASE Tick
  BY <1>2, AccessAssumption DEF Tick
<1>3. ASSUME NEW c \in Configs, Restart(c)
      PROVE  TypeOK'
  <2>1. callback' \in [Callbacks -> CallbackState]
    BY <1>3 DEF Restart, CallbackState
  <2>2. write' \in [Writes -> WriteState]
    BY <1>3 DEF Restart, WriteState
  <2> QED
    BY <1>3, <2>1, <2>2, AccessAssumption DEF Restart
<1>4. ASSUME NEW u \in Users, Login(u)
      PROVE  TypeOK'
  <2>1. Issue(u, "privileged") \in Token
    BY IssueTyped DEF Subjects
  <2>2. server.secret \in Secrets /\ now \in Nat
    BY AccessAssumption DEF Config
  <2> QED
    BY <1>4, <2>1, <2>2 DEF Login
<1>5. ASSUME NEW s \in SignIns, Authorise(s)
      PROVE  TypeOK'
  <2>1. PICK who \in People \cup {None} :
          signIn' = [signIn EXCEPT ![s] = [signIn[s] EXCEPT !.pc = "back",
                                                            !.who = who]]
    BY <1>5 DEF Authorise
  <2>2. [signIn[s] EXCEPT !.pc = "back", !.who = who] \in SignInState
    BY SignInWith
  <2>3. signIn' \in [SignIns -> SignInState]
    BY <2>1, <2>2
  <2> QED
    BY <1>5, <2>3 DEF Authorise
<1>6. ASSUME NEW s \in SignIns, NEW b \in Browsers, OAuthStart(s, b)
      PROVE  TypeOK'
  <2>0. [signIn[s] EXCEPT !.pc = "provider", !.browser = b] \in SignInState
    BY SignInWith
  <2>1. signIn' \in [SignIns -> SignInState]
    BY <1>6, <2>0 DEF OAuthStart
  <2>2. now + CookieAge \in Nat
    BY AccessAssumption
  <2>3. cookie' \in [Browsers -> [state : SignIns, until : Nat] \cup {None}]
    BY <1>6, <2>2 DEF OAuthStart
  <2> QED
    BY <1>6, <2>1, <2>3 DEF OAuthStart
<1>7. ASSUME NEW k \in Callbacks, NEW s \in SignIns, NEW b \in Browsers,
             OAuthCallback(k, s, b)
      PROVE  TypeOK'
  <2>0. /\ [callback[k] EXCEPT !.pc = "exchange", !.signIn = s, !.browser = b]
             \in CallbackState
        /\ [callback[k] EXCEPT !.pc = "400"] \in CallbackState
    BY CallbackWith
  <2>1. callback' \in [Callbacks -> CallbackState]
    BY <1>7, <2>0 DEF OAuthCallback, CallbackTo
  <2> QED
    BY <1>7, <2>1 DEF OAuthCallback
<1>8. ASSUME NEW k \in Callbacks, Exchange(k)
      PROVE  TypeOK'
  <2>0. [callback[k] EXCEPT !.pc = "identity"] \in CallbackState
    BY CallbackWith
  <2>1. callback' \in [Callbacks -> CallbackState]
    BY <1>8, <2>0 DEF Exchange, CallbackTo
  <2>2. signIn' \in [SignIns -> SignInState]
    <3>1. \A t \in SignIns : [signIn[t] EXCEPT !.pc = "spent"] \in SignInState
      BY SignInWith
    <3> QED
      BY <1>8, <3>1 DEF Exchange
  <2> QED
    BY <1>8, <2>1, <2>2 DEF Exchange
<1>9. ASSUME NEW k \in Callbacks, Identity(k)
      PROVE  TypeOK'
  <2> DEFINE s == callback[k].signIn
             token == Issue(<<signIn[s].provider, signIn[s].who>>, "social")
  <2>1. s \in SignIns /\ signIn[s].who \in People
    BY <1>9 DEF Identity, CallbackInv
  <2>2. <<signIn[s].provider, signIn[s].who>> \in Subjects
    BY <2>1 DEF SignInState, Subjects
  <2>3. token \in Token
    BY <2>2, IssueTyped
  <2> HIDE DEF token
  <2>4. callback' = [callback EXCEPT ![k] =
                       [callback[k] EXCEPT !.pc = "200", !.token = token, !.at = now,
                                           !.secret = server.secret]]
    BY <1>9 DEF Identity, token
  <2>5. issued' = issued \cup {token}
    BY <1>9 DEF Identity, token
  <2>6. [callback[k] EXCEPT !.pc = "200", !.token = token, !.at = now,
                            !.secret = server.secret] \in CallbackState
    <3>1. now \in Nat /\ server.secret \in Secrets
      BY AccessAssumption DEF Config
    <3> QED
      BY <2>3, <3>1, CallbackWith
  <2>7. callback' \in [Callbacks -> CallbackState]
    BY <2>4, <2>6
  <2> QED
    BY <1>9, <2>3, <2>5, <2>7 DEF Identity
<1>10. ASSUME NEW k \in Callbacks, IdentifyFails(k)
       PROVE  TypeOK'
  <2>0. [callback[k] EXCEPT !.pc = "502"] \in CallbackState
    BY CallbackWith
  <2>1. callback' \in [Callbacks -> CallbackState]
    BY <1>10, <2>0 DEF IdentifyFails, CallbackTo
  <2>2. signIn' \in [SignIns -> SignInState]
    <3>1. \A s \in SignIns : [signIn[s] EXCEPT !.pc = "spent"] \in SignInState
      BY SignInWith
    <3> QED
      BY <1>10, <3>1 DEF IdentifyFails
  <2> QED
    BY <1>10, <2>1, <2>2 DEF IdentifyFails
<1>11. ASSUME NEW w \in Writes, Require(w)
       PROVE  TypeOK'
  <2>1. PICK token \in issued \cup {NoToken} :
          write' = [write EXCEPT ![w] = [write[w] EXCEPT !.pc = GateAnswer(token),
                                                         !.token = token,
                                                         !.at = now]]
    BY <1>11 DEF Require
  <2>2. GateAnswer(token) \in {"403", "401", "handler"}
    BY DEF GateAnswer
  <2>3. token \in Token \cup {NoToken} /\ now \in Nat
    OBVIOUS
  <2>4. write' \in [Writes -> WriteState]
    BY <2>1, <2>2, <2>3 DEF WriteState
  <2> QED
    BY <1>11, <2>4 DEF Require
<1>12. ASSUME NEW w \in Writes, PutProof(w) \/ PutProofFails(w)
       PROVE  TypeOK'
  <2>1. write' \in [Writes -> WriteState]
    BY <1>12 DEF PutProof, PutProofFails, WriteTo, WriteState
  <2>2. proofs' \in [Entries -> Writes \cup {Command, None}]
    BY <1>12 DEF PutProof, PutProofFails
  <2> QED
    BY <1>12, <2>1, <2>2 DEF PutProof, PutProofFails
<1>13. ASSUME NEW e \in Entries, ProofCommand(e)
       PROVE  TypeOK'
  BY <1>13 DEF ProofCommand
<1> QED
  BY <1>1, <1>2, <1>3, <1>4, <1>5, <1>6, <1>7, <1>8, <1>9, <1>10, <1>11, <1>12, <1>13
     DEF Next

-----------------------------------------------------------------------------
(***************************************************************************)
(* Cookies and callbacks.                                                  *)
(***************************************************************************)

\* What a step does to sign-ins: a new one gets its browser, one that is at the
\* provider gets its person, and the rest may only be spent.
SignInMoves(s) ==
    \/ signIn'[s] = signIn[s]
    \/ signIn[s].pc = "new"
    \/ /\ signIn[s].pc = "provider"
       /\ signIn'[s].pc = "back"
       /\ signIn'[s].browser = signIn[s].browser
    \/ /\ signIn[s].pc \in {"back", "spent"}
       /\ signIn'[s] = [signIn[s] EXCEPT !.pc = "spent"]

LEMMA SignInStep ==
    ASSUME TypeOK, CallbackInv, [Next]_vars, NEW s \in SignIns
    PROVE  /\ SignInMoves(s)
           /\ signIn[s].pc = "new" =>
                \/ signIn'[s] = signIn[s]
                \/ \E b \in Browsers : OAuthStart(s, b)
<1> USE DEF TypeOK, SignInMoves
<1>1. CASE UNCHANGED signIn
  BY <1>1
<1>2. ASSUME NEW t \in SignIns, Authorise(t)
      PROVE  /\ SignInMoves(s)
             /\ signIn[s].pc = "new" => signIn'[s] = signIn[s]
  <2>1. PICK who \in People \cup {None} :
          signIn' = [signIn EXCEPT ![t] = [signIn[t] EXCEPT !.pc = "back",
                                                            !.who = who]]
    BY <1>2 DEF Authorise
  <2> QED
    BY <1>2, <2>1 DEF Authorise, SignInState
<1>3. ASSUME NEW t \in SignIns, NEW b \in Browsers, OAuthStart(t, b)
      PROVE  /\ SignInMoves(s)
             /\ signIn[s].pc = "new" => signIn'[s] = signIn[s] \/ OAuthStart(s, b)
  BY <1>3 DEF OAuthStart, SignInState
<1>4. ASSUME NEW k \in Callbacks, Exchange(k) \/ IdentifyFails(k)
      PROVE  /\ SignInMoves(s)
             /\ signIn[s].pc = "new" => signIn'[s] = signIn[s]
  <2>1. \/ signIn'[s] = signIn[s]
        \/ s = callback[k].signIn /\ signIn'[s] = [signIn[s] EXCEPT !.pc = "spent"]
    BY <1>4 DEF Exchange, IdentifyFails
  <2>2. s = callback[k].signIn => signIn[s].pc \in {"back", "spent"}
    BY <1>4 DEF Exchange, IdentifyFails, CallbackInv
  <2> QED
    BY <2>1, <2>2
<1> QED
  BY <1>1, <1>2, <1>3, <1>4
     DEF Next, vars, Tick, Restart, Login, OAuthCallback, Identity, Require,
         PutProof, PutProofFails, ProofCommand

LEMMA CookieStep ==
    ASSUME TypeOK, CallbackInv, CookieInv, [Next]_vars
    PROVE  CookieInv'
<1> SUFFICES ASSUME NEW b \in Browsers, cookie'[b] # None
             PROVE  /\ signIn'[cookie'[b].state].pc # "new"
                    /\ signIn'[cookie'[b].state].browser = b
  BY DEF CookieInv
<1> USE DEF TypeOK
<1>1. CASE cookie'[b] = cookie[b]
  <2> DEFINE s == cookie[b].state
  <2>1. s \in SignIns /\ signIn[s].pc # "new" /\ signIn[s].browser = b
    BY <1>1 DEF CookieInv
  <2>2. SignInMoves(s)
    BY <2>1, SignInStep
  <2>3. signIn'[s].pc # "new" /\ signIn'[s].browser = b
    BY <2>1, <2>2 DEF SignInMoves, SignInState
  <2> QED
    BY <1>1, <2>3
<1>2. CASE cookie'[b] # cookie[b]
  <2>1. PICK s \in SignIns, c \in Browsers : OAuthStart(s, c)
    BY <1>2 DEF Next, vars, Tick, Restart, Login, Authorise, OAuthCallback,
                Exchange, Identity, IdentifyFails, Require, PutProof, PutProofFails,
                ProofCommand
  <2>2. b = c /\ cookie'[b].state = s
    BY <1>2, <2>1 DEF OAuthStart
  <2> QED
    BY <2>1, <2>2 DEF OAuthStart, SignInState
<1> QED
  BY <1>1, <1>2

LEMMA CallbackStep ==
    ASSUME TypeOK, CallbackInv, CookieInv, [Next]_vars
    PROVE  CallbackInv'
<1> USE DEF TypeOK
<1> DEFINE Past == {"exchange", "identity", "200"}
<1> SUFFICES ASSUME NEW k \in Callbacks, callback'[k].pc \in Past
             PROVE  LET s == callback'[k].signIn IN
                    /\ s \in SignIns
                    /\ signIn'[s].pc \in {"back", "spent"}
                    /\ signIn'[s].who \in People
                    /\ callback'[k].browser = signIn'[s].browser
                    /\ callback'[k].pc = "200" => callback'[k].token.sub
                         = <<signIn'[s].provider, signIn'[s].who>>
  BY DEF CallbackInv
<1> DEFINE s == callback'[k].signIn
<1>1. \/ callback[k].pc \in Past /\ UNCHANGED callback[k]
      \/ callback[k].pc \in Past /\ Exchange(k)
      \/ Identity(k)
      \/ \E t \in SignIns, b \in Browsers : OAuthCallback(k, t, b)
  <2>1. ASSUME NEW c \in Configs, Restart(c)
        PROVE  callback[k].pc \in Past /\ UNCHANGED callback[k]
    BY <2>1 DEF Restart, CallbackState
  <2>2. ASSUME NEW j \in Callbacks, IdentifyFails(j)
        PROVE  callback[k].pc \in Past /\ UNCHANGED callback[k]
    BY <2>2 DEF IdentifyFails, CallbackTo, CallbackState
  <2>3. ASSUME NEW j \in Callbacks, Exchange(j)
        PROVE  callback[k].pc \in Past /\ (Exchange(k) \/ UNCHANGED callback[k])
    <3>1. CASE j = k
      BY <2>3, <3>1 DEF Exchange
    <3>2. CASE j # k
      BY <2>3, <3>2 DEF Exchange, CallbackTo, CallbackState
    <3> QED
      BY <3>1, <3>2
  <2>4. ASSUME NEW j \in Callbacks, Identity(j)
        PROVE  \/ Identity(k)
               \/ callback[k].pc \in Past /\ UNCHANGED callback[k]
    <3>1. CASE j # k
      BY <2>4, <3>1 DEF Identity, CallbackState
    <3> QED
      BY <2>4, <3>1
  <2>5. ASSUME NEW j \in Callbacks, NEW t \in SignIns, NEW b \in Browsers,
               OAuthCallback(j, t, b)
        PROVE  \/ OAuthCallback(k, t, b)
               \/ callback[k].pc \in Past /\ UNCHANGED callback[k]
    <3>1. CASE j # k
      BY <2>5, <3>1 DEF OAuthCallback, CallbackTo, CallbackState
    <3> QED
      BY <2>5, <3>1
  <2>6. CASE UNCHANGED callback
    BY <2>6
  <2> HIDE DEF Past
  <2> QED
    BY <2>1, <2>2, <2>3, <2>4, <2>5, <2>6
       DEF Next, vars, Tick, Login, Authorise, OAuthStart, Require, PutProof,
           PutProofFails, ProofCommand
\* A sign-in that has come back stays so, and only its pc may move.
<1>2. ASSUME NEW t \in SignIns, signIn[t].pc \in {"back", "spent"}
      PROVE  /\ signIn'[t].pc \in {"back", "spent"}
             /\ signIn'[t].who = signIn[t].who
             /\ signIn'[t].browser = signIn[t].browser
             /\ signIn'[t].provider = signIn[t].provider
  <2>1. SignInMoves(t) /\ signIn[t] \in SignInState
    BY SignInStep
  <2> QED
    BY <1>2, <2>1 DEF SignInMoves, SignInState
<1>3. CASE callback[k].pc \in Past /\ UNCHANGED callback[k]
  BY <1>2, <1>3 DEF CallbackInv
<1>4. CASE callback[k].pc \in Past /\ Exchange(k)
  <2>1. callback'[k].signIn = callback[k].signIn
           /\ callback'[k].browser = callback[k].browser
           /\ callback'[k].pc # "200"
    BY <1>4 DEF Exchange, CallbackTo, CallbackState
  <2> QED
    BY <1>2, <1>4, <2>1 DEF CallbackInv
<1>5. CASE Identity(k)
  <2>1. /\ callback'[k].signIn = callback[k].signIn
        /\ callback'[k].browser = callback[k].browser
        /\ callback'[k].token.sub = <<signIn[s].provider, signIn[s].who>>
    BY <1>5 DEF Identity, CallbackState, Issue
  <2>2. callback[k].pc \in Past
    BY <1>5 DEF Identity
  <2> QED
    BY <1>2, <2>1, <2>2 DEF CallbackInv
<1>6. ASSUME NEW t \in SignIns, NEW b \in Browsers, OAuthCallback(k, t, b)
      PROVE  LET r == callback'[k].signIn IN
             /\ r = t
             /\ signIn[r].pc \in {"back", "spent"}
             /\ signIn[r].who \in People
             /\ callback'[k].browser = signIn[r].browser
             /\ callback'[k].pc = "exchange"
             /\ signIn' = signIn
  <2>1. callback[k].pc = "new"
    BY <1>6 DEF OAuthCallback
  <2>2. StateMatches(t, b) /\ signIn[t].who # None
    BY <1>6, <2>1 DEF OAuthCallback, CallbackTo, CallbackState
  <2>3. signIn[t].browser = b
    BY <2>2 DEF StateMatches, CookieInv
  <2>4. signIn[t].who \in People
    BY <2>2 DEF SignInState
  <2> QED
    BY <1>6, <2>2, <2>3, <2>4 DEF OAuthCallback, CallbackState
<1>7. CASE \E t \in SignIns, b \in Browsers : OAuthCallback(k, t, b)
  BY <1>6, <1>7
<1> QED
  BY <1>1, <1>3, <1>4, <1>5, <1>7

-----------------------------------------------------------------------------
(***************************************************************************)
(* Tokens and writers.                                                     *)
(***************************************************************************)

\* What a token's origin rests on is never undone.
LEMMA OriginsStay ==
    ASSUME TypeOK, CallbackInv, [Next]_vars
    PROVE  /\ logins \subseteq logins'
           /\ now <= now'
           /\ \A k \in Callbacks : callback[k].pc = "200" =>
                LET s == callback[k].signIn IN
                /\ callback'[k] = callback[k]
                /\ signIn'[s].provider = signIn[s].provider
                /\ signIn'[s].who = signIn[s].who
<1> USE DEF TypeOK
<1>1. logins \subseteq logins' /\ now <= now'
  <2>1. now' = now \/ now' = now + 1
    BY DEF Next, vars, Tick, Restart, Login, Authorise, OAuthStart, OAuthCallback,
           Exchange, Identity, IdentifyFails, Require, PutProof, PutProofFails,
           ProofCommand
  <2>2. logins \subseteq logins'
    BY DEF Next, vars, Tick, Restart, Login, Authorise, OAuthStart, OAuthCallback,
           Exchange, Identity, IdentifyFails, Require, PutProof, PutProofFails,
           ProofCommand
  <2> QED
    BY <2>1, <2>2, AccessAssumption
<1>2. ASSUME NEW k \in Callbacks, callback[k].pc = "200"
      PROVE  callback'[k] = callback[k]
  <2>1. ASSUME NEW c \in Configs, Restart(c)
        PROVE  callback'[k] = callback[k]
    BY <1>2, <2>1 DEF Restart
  <2>2. ASSUME NEW j \in Callbacks,
               \/ \E s \in SignIns, b \in Browsers : OAuthCallback(j, s, b)
               \/ Exchange(j) \/ Identity(j) \/ IdentifyFails(j)
        PROVE  callback'[k] = callback[k]
    <3>1. j # k
      BY <1>2, <2>2 DEF OAuthCallback, Exchange, Identity, IdentifyFails
    <3> QED
      BY <2>2, <3>1 DEF OAuthCallback, Exchange, Identity, IdentifyFails, CallbackTo
  <2>3. CASE UNCHANGED callback
    BY <2>3
  <2> QED
    BY <2>1, <2>2, <2>3
       DEF Next, vars, Tick, Login, Authorise, OAuthStart, Require, PutProof,
           PutProofFails, ProofCommand
<1>3. ASSUME NEW k \in Callbacks, callback[k].pc = "200"
      PROVE  LET s == callback[k].signIn IN
             signIn'[s].provider = signIn[s].provider /\ signIn'[s].who = signIn[s].who
  <2> DEFINE s == callback[k].signIn
  <2>1. s \in SignIns /\ signIn[s].pc \in {"back", "spent"}
    BY <1>3 DEF CallbackInv
  <2>2. SignInMoves(s) /\ signIn[s] \in SignInState
    BY <2>1, SignInStep
  <2> QED
    BY <2>1, <2>2 DEF SignInMoves, SignInState
<1> QED
  BY <1>1, <1>2, <1>3

LEMMA IssuedStep ==
    ASSUME TypeOK, CallbackInv, IssuedInv, [Next]_vars
    PROVE  IssuedInv'
<1> SUFFICES ASSUME NEW token \in issued'
             PROVE  \/ \E l \in logins' : FromLogin(token, l)'
                    \/ \E k \in Callbacks : FromCallback(token, k)'
  BY DEF IssuedInv
<1> USE DEF TypeOK
<1>1. CASE token \in issued
  <2>1. ASSUME NEW l \in logins, FromLogin(token, l)
        PROVE  l \in logins' /\ FromLogin(token, l)'
    <3>1. l.at \in Nat /\ now \in Nat /\ now' \in Nat
      BY TypeStep
    <3> QED
      BY <2>1, <3>1, OriginsStay DEF FromLogin
  <2>2. ASSUME NEW k \in Callbacks, FromCallback(token, k)
        PROVE  FromCallback(token, k)'
    <3>1. callback[k].at \in Nat /\ now \in Nat /\ now' \in Nat
      BY TypeStep DEF CallbackState
    <3> QED
      BY <2>2, <3>1, OriginsStay DEF FromCallback
  <2> QED
    BY <1>1, <2>1, <2>2 DEF IssuedInv
<1>2. CASE token \notin issued
  <2>1. \/ \E u \in Users : Login(u)
        \/ \E k \in Callbacks : Identity(k)
    BY <1>2 DEF Next, vars, Tick, Restart, Authorise, OAuthStart, OAuthCallback,
                Exchange, IdentifyFails, Require, PutProof, PutProofFails,
                ProofCommand
  <2>2. ASSUME NEW u \in Users, Login(u)
        PROVE  \E l \in logins' : FromLogin(token, l)'
    <3>1. token = Issue(u, "privileged")
      BY <1>2, <2>2 DEF Login
    <3>2. PICK l \in logins' :
            l = [user |-> u, secret |-> server.secret, at |-> now]
      BY <2>2 DEF Login
    <3>3. u \in Subjects
      BY DEF Subjects
    <3>4. /\ token.sub = u /\ token.role = "privileged"
          /\ token.secret = server.secret /\ token.expires = now + TTL
      BY <3>1, <3>3, IssueTyped
    <3>5. now' = now /\ now \in Nat
      BY <2>2 DEF Login
    <3>6. FromLogin(token, l)'
      BY <3>2, <3>4, <3>5 DEF FromLogin
    <3> QED
      BY <3>6
  <2>3. ASSUME NEW k \in Callbacks, Identity(k)
        PROVE  FromCallback(token, k)'
    <3> DEFINE s == callback[k].signIn
               social == Issue(<<signIn[s].provider, signIn[s].who>>, "social")
    <3>1. token = social
      BY <1>2, <2>3 DEF Identity
    <3>2. /\ social.role = "social" /\ social.secret = server.secret
          /\ social.expires = now + TTL
      BY DEF Issue
    <3> HIDE DEF social
    <3>3. callback' = [callback EXCEPT ![k] =
                         [callback[k] EXCEPT !.pc = "200", !.token = social, !.at = now,
                                             !.secret = server.secret]]
      BY <2>3 DEF Identity, social
    <3>4. /\ callback'[k].pc = "200" /\ callback'[k].token = social
          /\ callback'[k].at = now /\ callback'[k].secret = server.secret
      BY <3>3 DEF CallbackState
    <3>5. now' = now /\ now \in Nat
      BY <2>3 DEF Identity
    <3> QED
      BY <3>1, <3>2, <3>4, <3>5 DEF FromCallback
  <2> QED
    BY <2>1, <2>2, <2>3
<1> QED
  BY <1>1, <1>2

\* A request in its handler was there before, or comes from Require.
LEMMA HandlerStep ==
    ASSUME TypeOK, [Next]_vars, NEW w \in Writes, write'[w].pc = "handler"
    PROVE  /\ server' = server
           /\ \/ write'[w] = write[w]
              \/ Require(w)
<1> USE DEF TypeOK
<1>1. ASSUME NEW c \in Configs, Restart(c)
      PROVE  FALSE
  BY <1>1 DEF Restart, WriteState
<1>2. ASSUME NEW v \in Writes, Require(v)
      PROVE  server' = server /\ (write'[w] = write[w] \/ Require(w))
  BY <1>2 DEF Require
<1>3. ASSUME NEW v \in Writes, PutProof(v) \/ PutProofFails(v)
      PROVE  server' = server /\ write'[w] = write[w]
  BY <1>3 DEF PutProof, PutProofFails, WriteTo, WriteState
<1>4. CASE UNCHANGED <<server, write>>
  BY <1>4
<1> QED
  BY <1>1, <1>2, <1>3, <1>4
     DEF Next, vars, Tick, Login, Authorise, OAuthStart, OAuthCallback, Exchange,
         Identity, IdentifyFails, ProofCommand

\* What Require lets through carries a token of this secret that is still good.
LEMMA RequirePasses ==
    ASSUME TypeOK, NEW w \in Writes, Require(w), write'[w].pc = "handler"
    PROVE  /\ server.enabled
           /\ write'[w].token \in issued
           /\ Parses(write'[w].token)
           /\ write'[w].at = now
<1> USE DEF TypeOK
<1>1. PICK token \in issued \cup {NoToken} :
        write' = [write EXCEPT ![w] = [write[w] EXCEPT !.pc = GateAnswer(token),
                                                       !.token = token,
                                                       !.at = now]]
  BY DEF Require
<1>2. /\ write'[w].pc = GateAnswer(token)
      /\ write'[w].token = token
      /\ write'[w].at = now
  BY <1>1 DEF WriteState
<1>3. server.enabled /\ Parses(token)
  BY <1>2 DEF GateAnswer
<1> QED
  BY <1>2, <1>3 DEF Parses

LEMMA WriterStep ==
    ASSUME TypeOK, CallbackInv, IssuedInv, HandlerInv, WriterWasEntitled, [Next]_vars
    PROVE  HandlerInv' /\ WriterWasEntitled'
<1> SUFFICES ASSUME NEW w \in Writes, write'[w].pc = "handler"
             PROVE  /\ server'.enabled
                    /\ \/ FromPassword(write[w].token, write[w].at)'
                       \/ FromSignIn(write[w].token, write[w].at)'
  BY DEF HandlerInv, WriterWasEntitled
<1> USE DEF TypeOK
<1>1. server' = server
  BY HandlerStep
<1>2. CASE write'[w] = write[w]
  <2>1. FromPassword(write[w].token, write[w].at)
          => FromPassword(write[w].token, write[w].at)'
    BY <1>1, <1>2, OriginsStay DEF FromPassword
  <2>2. FromSignIn(write[w].token, write[w].at)
          => FromSignIn(write[w].token, write[w].at)'
    BY <1>1, <1>2, OriginsStay DEF FromSignIn
  <2> QED
    BY <1>1, <1>2, <2>1, <2>2 DEF HandlerInv, WriterWasEntitled
<1>3. CASE Require(w)
  <2> DEFINE token == write'[w].token
  <2>1. server.enabled /\ token \in issued /\ Parses(token) /\ write'[w].at = now
    BY <1>3, RequirePasses
  <2>2. UNCHANGED <<logins, callback, signIn>>
    BY <1>3 DEF Require
  <2>3. ASSUME NEW l \in logins, FromLogin(token, l)
        PROVE  FromPassword(write[w].token, write[w].at)'
    BY <1>1, <2>1, <2>2, <2>3, AccessAssumption DEF FromLogin, Parses, FromPassword
  <2>4. ASSUME NEW k \in Callbacks, FromCallback(token, k)
        PROVE  FromSignIn(write[w].token, write[w].at)'
    <3> DEFINE s == callback[k].signIn
    <3>1. token.sub = <<signIn[s].provider, signIn[s].who>>
      BY <2>4 DEF FromCallback, CallbackInv
    <3> QED
      BY <1>1, <2>1, <2>2, <2>4, <3>1, AccessAssumption DEF FromCallback, Parses, FromSignIn
  <2> QED
    BY <1>1, <2>1, <2>3, <2>4 DEF IssuedInv
<1> QED
  BY <1>2, <1>3, HandlerStep

LEMMA IInvStep == IInv /\ [Next]_vars => IInv'
<1> SUFFICES ASSUME IInv, [Next]_vars
             PROVE  IInv'
  OBVIOUS
<1> USE DEF IInv
<1>1. TypeOK'
  BY TypeStep
<1>2. CookieInv' /\ CallbackInv'
  BY CookieStep, CallbackStep
<1>3. IssuedInv'
  BY IssuedStep
<1>4. HandlerInv' /\ WriterWasEntitled'
  BY WriterStep
<1> QED
  BY <1>1, <1>2, <1>3, <1>4

-----------------------------------------------------------------------------

LEMMA IInvAlways == Spec => []IInv
BY IInvInit, IInvStep, PTL DEF Spec

\* Every variable keeps its type: of the handlers of serve.go and of auth.go.
THEOREM AccessTypeCorrect == Spec => []TypeOK
<1>1. IInv => TypeOK
  BY DEF IInv
<1> QED
  BY <1>1, IInvAlways, PTL

\* Whoever auth.Require lets through to a write signed in, with a password or with a
\* provider, less than a token's life ago and under the secret the server runs with.
THEOREM WritersWereEntitled == Spec => []WriterWasEntitled
<1>1. IInv => WriterWasEntitled
  BY DEF IInv
<1> QED
  BY <1>1, IInvAlways, PTL

\* A social token is for who authorised the sign-in, in the browser it was
\* started in: what handleOAuthStart's cookie is for.
THEOREM SignInsCompleteWhereStarted == Spec => []CompletesWhereStarted
<1>1. IInv => CompletesWhereStarted
  BY DEF IInv, CallbackInv, CompletesWhereStarted
<1> QED
  BY <1>1, IInvAlways, PTL

\* With authentication off nothing is written, whatever was let through before.
THEOREM ClosedIsClosed == Spec => ClosedMeansClosed
<1>1. IInv /\ [Next]_vars => [ClosedStep]_vars
  <2> SUFFICES ASSUME IInv, [Next]_vars, NEW e \in Entries, proofs'[e] # proofs[e],
                      proofs'[e] # Command
               PROVE  server.enabled
    BY DEF ClosedStep
  <2>1. PICK w \in Writes : PutProof(w)
    <3>1. \A f \in Entries : ~ProofCommand(f)
      BY DEF ProofCommand, IInv, TypeOK
    <3> QED
      BY <3>1
         DEF Next, vars, Tick, Restart, Login, Authorise, OAuthStart, OAuthCallback,
             Exchange, Identity, IdentifyFails, Require, PutProofFails
  <2> QED
    BY <2>1 DEF PutProof, IInv, HandlerInv
<1> QED
  BY <1>1, IInvAlways, PTL DEF Spec, ClosedMeansClosed

=============================================================================
