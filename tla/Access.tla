------------------------------- MODULE Access -------------------------------
(***************************************************************************)
(* Who may write: password and social sign-in, the tokens they issue, and  *)
(* auth.Require in front of PUT /api/proofs/{id}, the write it lets        *)
(* through.  The server keeps no session: a sign-in lives in a browser's   *)
(* cookie and at the provider, a token with its bearer, and the server may *)
(* be restarted with another configuration in between.                     *)
(*                                                                         *)
(* A secret is a model value; a token is the claims it carries and the     *)
(* secret it is signed with.  Time is counted in ticks.                    *)
(***************************************************************************)
EXTENDS Naturals, FiniteSets

CONSTANTS
    Browsers,
    SignIns,      \* runs of the social sign-in; also their state parameters
    Callbacks,    \* requests to /auth/{provider}/callback
    Writes,       \* requests PUT /api/proofs/{id}
    Providers,
    People,       \* who may be known to a provider
    Users,        \* names for password sign-in
    Entries,      \* entry ids
    Command,      \* stands for a run of the command proof -set
    Secrets,
    NoSecret,     \* the empty secret
    Configs,      \* [enabled, secret, users, providers]
    NoToken,      \* no Bearer token, or one that was never issued
    None,
    TTL,          \* auth.TokenTTLMin
    CookieAge,    \* MaxAge of oauth_state, 300 seconds in the code
    MaxLogins,    \* bound: passwords found right
    MaxTime       \* bound: the clock

Config == [enabled : BOOLEAN, secret : Secrets, users : SUBSET Users,
           providers : SUBSET Providers]

\* config.Load refuses to start with authentication but no secret.
ASSUME AccessAssumption ==
    /\ Configs \subseteq Config
    /\ \A c \in Configs : c.enabled => c.secret # NoSecret
    /\ TTL \in Nat \ {0}
    /\ CookieAge \in Nat \ {0}
    /\ MaxLogins \in Nat
    /\ MaxTime \in Nat
    /\ None \notin SignIns \cup People \cup Writes \cup Browsers
    /\ Command \notin Writes \cup {None}

VARIABLES
    now,
    server,    \* the configuration the server runs with
    cookie,    \* cookie[b]: oauth_state in browser b, or None
    signIn,    \* signIn[s]: what the provider knows of s
    callback,  \* callback[k]: how far the handler is
    issued,    \* the tokens that exist
    logins,    \* history: the passwords found right, [user, secret, at]
    write,     \* write[w]: how far the request is
    proofs     \* proofs[e]: the write whose proof is stored, Command, or None

vars == <<now, server, cookie, signIn, callback, issued, logins, write, proofs>>

Subjects == Users \cup (Providers \X People)
Token == [sub : Subjects, role : {"privileged", "social"},
          secret : Secrets, expires : Nat]

SignInState ==
    [pc : {"new", "provider", "back", "spent"}, browser : Browsers \cup {None},
     provider : Providers, who : People \cup {None}]

CallbackState ==
    [pc : {"new", "exchange", "identity", "200", "400", "502", "dead"},
     signIn : SignIns \cup {None}, browser : Browsers \cup {None},
     token : Token \cup {NoToken},
     at : Nat, secret : Secrets \cup {NoSecret}]   \* history: of the answer 200

WriteState ==
    [pc : {"new", "handler", "200", "400", "401", "403", "500", "dead"},
     entry : Entries, token : Token \cup {NoToken},
     at : Nat]   \* history: when Require let it pass

TypeOK ==
    /\ now \in 0..MaxTime
    /\ server \in Configs
    /\ cookie \in [Browsers -> [state : SignIns, until : Nat] \cup {None}]
    /\ signIn \in [SignIns -> SignInState]
    /\ callback \in [Callbacks -> CallbackState]
    /\ issued \subseteq Token
    /\ logins \subseteq [user : Users, secret : Secrets, at : Nat]
    /\ write \in [Writes -> WriteState]
    /\ proofs \in [Entries -> Writes \cup {Command, None}]

Init ==
    /\ now = 0
    /\ server \in Configs
    /\ cookie = [b \in Browsers |-> None]
    /\ signIn \in [SignIns -> {[pc |-> "new", browser |-> None, provider |-> p,
                                who |-> None] : p \in Providers}]
    /\ callback = [k \in Callbacks |->
                     [pc |-> "new", signIn |-> None, browser |-> None,
                      token |-> NoToken, at |-> 0, secret |-> NoSecret]]
    /\ issued = {}
    /\ logins = {}
    /\ write \in [Writes -> {[pc |-> "new", entry |-> e, token |-> NoToken,
                              at |-> 0] : e \in Entries}]
    /\ proofs = [e \in Entries |-> None]

-----------------------------------------------------------------------------
\* Tokens.

\* Mutant: the claims carry no known role.
IssueOtherRole(sub, role) ==
    [sub |-> sub, role |-> "user", secret |-> server.secret, expires |-> now + TTL]

Issue(sub, role) ==
    [sub |-> sub, role |-> role, secret |-> server.secret, expires |-> now + TTL]

\* Mutant: the signature is not verified.
ParsesUnsigned(token) == token # NoToken /\ now < token.expires

\* The signature is that of the current secret, and the token has not expired.
Parses(token) ==
    /\ token # NoToken
    /\ token.secret = server.secret
    /\ now < token.expires

\* POST /api/login with the right password, whether authentication is enabled
\* or not.  A wrong one is answered 401 and changes nothing.
Login(u) ==
    /\ u \in server.users
    /\ Cardinality(logins) < MaxLogins
    /\ issued' = issued \cup {Issue(u, "privileged")}
    /\ logins' = logins \cup {[user |-> u, secret |-> server.secret, at |-> now]}
    /\ UNCHANGED <<now, server, cookie, signIn, callback, write, proofs>>

-----------------------------------------------------------------------------
\* Social sign-in.

\* GET /auth/{provider}: a second sign-in in one browser replaces the cookie of
\* the first.  A provider that is not configured is answered 404.
OAuthStart(s, b) ==
    /\ signIn[s].pc = "new"
    /\ signIn[s].provider \in server.providers
    /\ signIn' = [signIn EXCEPT ![s] = [signIn[s] EXCEPT !.pc = "provider",
                                                         !.browser = b]]
    /\ cookie' = [cookie EXCEPT ![b] = [state |-> s, until |-> now + CookieAge]]
    /\ UNCHANGED <<now, server, callback, issued, logins, write, proofs>>

\* The provider finds out who sits at the browser, or is refused (None), and
\* sends the browser back, with a code if it is not refused.
Authorise(s) ==
    /\ signIn[s].pc = "provider"
    /\ \E who \in People \cup {None} :
         signIn' = [signIn EXCEPT ![s] = [signIn[s] EXCEPT !.pc = "back",
                                                           !.who = who]]
    /\ UNCHANGED <<now, server, cookie, callback, issued, logins, write, proofs>>

\* Mutant: any state will do.
StateMatchesAny(s, b) == cookie[b] # None

\* The browser sends a cookie that has not expired, and it is that of s.
StateMatches(s, b) ==
    /\ cookie[b] # None
    /\ now < cookie[b].until
    /\ cookie[b].state = s

CallbackTo(k, pc) == [callback EXCEPT ![k].pc = pc]

\* GET /auth/{provider}/callback: the link may be opened again, and in another
\* browser than the sign-in was started in.
OAuthCallback(k, s, b) ==
    /\ callback[k].pc = "new"
    /\ signIn[s].pc \in {"back", "spent"}
    /\ callback' = IF StateMatches(s, b) /\ signIn[s].who # None
                   THEN [callback EXCEPT ![k] =
                           [callback[k] EXCEPT !.pc = "exchange", !.signIn = s,
                                               !.browser = b]]
                   ELSE CallbackTo(k, "400")
    /\ UNCHANGED <<now, server, cookie, signIn, issued, logins, write, proofs>>

\* A code is good once.
CodeGood(s) == signIn[s].pc = "back"

\* Identify exchanges the code, which may also fail on the way.
Exchange(k) ==
    LET s == callback[k].signIn IN
    /\ callback[k].pc = "exchange"
    /\ signIn[s].provider \in server.providers
    /\ CodeGood(s)
    /\ signIn' = [signIn EXCEPT ![s].pc = "spent"]
    /\ callback' = CallbackTo(k, "identity")
    /\ UNCHANGED <<now, server, cookie, issued, logins, write, proofs>>

\* Then it learns the subject, from the userinfo endpoint or from the id_token,
\* and the handler issues a social token.
Identity(k) ==
    LET s == callback[k].signIn
        token == Issue(<<signIn[s].provider, signIn[s].who>>, "social")
    IN
    /\ callback[k].pc = "identity"
    /\ issued' = issued \cup {token}
    /\ callback' = [callback EXCEPT ![k] =
                      [callback[k] EXCEPT !.pc = "200", !.token = token, !.at = now,
                                          !.secret = server.secret]]
    /\ UNCHANGED <<now, server, cookie, signIn, logins, write, proofs>>

\* Either call to the provider may fail, before or after it took effect there.
IdentifyFails(k) ==
    /\ callback[k].pc \in {"exchange", "identity"}
    /\ callback' = CallbackTo(k, "502")
    /\ \E spent \in SUBSET {callback[k].signIn} :
         signIn' = [s \in SignIns |-> IF s \in spent
                                      THEN [signIn[s] EXCEPT !.pc = "spent"]
                                      ELSE signIn[s]]
    /\ UNCHANGED <<now, server, cookie, issued, logins, write, proofs>>

-----------------------------------------------------------------------------
\* PUT /api/proofs/{id} behind Require.

\* Mutant: without authentication everyone may write.
GateAnswerOpen(token) ==
    IF ~server.enabled THEN "handler"
    ELSE IF ~Parses(token) THEN "401" ELSE "handler"

GateAnswer(token) ==
    IF ~server.enabled THEN "403"
    ELSE IF ~Parses(token) THEN "401"
    ELSE "handler"

Require(w) ==
    /\ write[w].pc = "new"
    /\ \E token \in issued \cup {NoToken} :
         write' = [write EXCEPT ![w] = [write[w] EXCEPT !.pc = GateAnswer(token),
                                                        !.token = token,
                                                        !.at = now]]
    /\ UNCHANGED <<now, server, cookie, signIn, callback, issued, logins, proofs>>

WriteTo(w, pc) == [write EXCEPT ![w].pc = pc]

PutProof(w) ==
    /\ write[w].pc = "handler"
    /\ proofs' = [proofs EXCEPT ![write[w].entry] = w]
    /\ write' = WriteTo(w, "200")
    /\ UNCHANGED <<now, server, cookie, signIn, callback, issued, logins>>

\* The body is refused, or the database is busy.
PutProofFails(w) ==
    /\ write[w].pc = "handler"
    /\ \E pc \in {"400", "500"} : write' = WriteTo(w, pc)
    /\ UNCHANGED <<now, server, cookie, signIn, callback, issued, logins, proofs>>

\* The command proof -set writes the same table, past the gate.
ProofCommand(e) ==
    /\ proofs' = [proofs EXCEPT ![e] = Command]
    /\ UNCHANGED <<now, server, cookie, signIn, callback, issued, logins, write>>

-----------------------------------------------------------------------------

\* The server is stopped, with the requests it is handling, and started again
\* with its configuration read anew.  That takes a tick.
Restart(config) ==
    /\ now < MaxTime
    /\ now' = now + 1
    /\ server' = config
    /\ callback' = [k \in Callbacks |->
                      IF callback[k].pc \in {"exchange", "identity"}
                      THEN [callback[k] EXCEPT !.pc = "dead"] ELSE callback[k]]
    /\ write' = [w \in Writes |->
                   IF write[w].pc = "handler"
                   THEN [write[w] EXCEPT !.pc = "dead"] ELSE write[w]]
    /\ UNCHANGED <<cookie, signIn, issued, logins, proofs>>

Tick ==
    /\ now < MaxTime
    /\ now' = now + 1
    /\ UNCHANGED <<server, cookie, signIn, callback, issued, logins, write, proofs>>

Next ==
    \/ Tick
    \/ \E config \in Configs : Restart(config)
    \/ \E u \in Users : Login(u)
    \/ \E s \in SignIns : Authorise(s) \/ \E b \in Browsers : OAuthStart(s, b)
    \/ \E k \in Callbacks :
         \/ \E s \in SignIns, b \in Browsers : OAuthCallback(k, s, b)
         \/ Exchange(k) \/ Identity(k) \/ IdentifyFails(k)
    \/ \E w \in Writes : Require(w) \/ PutProof(w) \/ PutProofFails(w)
    \/ \E e \in Entries : ProofCommand(e)

Spec == Init /\ [][Next]_vars

-----------------------------------------------------------------------------

\* Whose sign-in entitles to what was let through at that time: a password found
\* right, or a social sign-in that was completed, under the secret the server runs
\* with and less than TTL before.
FromPassword(token, at) ==
    \E l \in logins :
        /\ token.sub = l.user
        /\ token.role = "privileged"
        /\ server.secret = l.secret
        /\ l.at <= at /\ at < l.at + TTL

FromSignIn(token, at) ==
    \E k \in Callbacks :
        LET s == callback[k].signIn IN
        /\ callback[k].pc = "200"
        /\ token.sub = <<signIn[s].provider, signIn[s].who>>
        /\ token.role = "social"
        /\ server.secret = callback[k].secret
        /\ callback[k].at <= at /\ at < callback[k].at + TTL

\* Whoever is let through to a write signed in, as the subject and with the role
\* that sign-in gives, under the secret the server runs with now and less than a
\* token's life before: although the server remembers no one, may be restarted
\* with another configuration, and looks at nothing but the token.
WriterWasEntitled ==
    \A w \in Writes :
        write[w].pc = "handler" =>
            \/ FromPassword(write[w].token, write[w].at)
            \/ FromSignIn(write[w].token, write[w].at)

\* A social token is for the person who authorised the sign-in, and is handed
\* to the browser that person started it in: though browsers run several
\* sign-ins at once and links are opened elsewhere.
CompletesWhereStarted ==
    \A k \in Callbacks :
        callback[k].pc = "200" =>
            LET s == callback[k].signIn IN
            /\ callback[k].token.sub = <<signIn[s].provider, signIn[s].who>>
            /\ callback[k].browser = signIn[s].browser

\* "When false, write endpoints are refused entirely": what a request brings is
\* not stored, not even if it was let through before a restart.  Only the
\* command writes then.
ClosedStep ==
    \A e \in Entries :
        proofs'[e] # proofs[e] => server.enabled \/ proofs'[e] = Command

ClosedMeansClosed == [][ClosedStep]_vars

=============================================================================
