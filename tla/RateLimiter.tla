----------------------------- MODULE RateLimiter -----------------------------
(***************************************************************************)
(* auth.RateLimiter behind auth.Annotate: requests are handled             *)
(* concurrently, share the map of buckets under a mutex, and call Allow on *)
(* the limiter they found after the mutex is released.  Buckets idle for   *)
(* longer than IdleLimit are dropped from the map now and then.            *)
(*                                                                         *)
(* Time is counted in ticks; one tick is the time in which a key earns     *)
(* Rate tokens.                                                            *)
(***************************************************************************)
EXTENDS Integers, FiniteSets

CONSTANTS
    Requests,          \* the HTTP requests
    Callers,           \* who may send one: [ip, sub, role, expires, api]
    Anonymous,         \* sub of a caller without a Bearer token
    ConfigRate,        \* RateLimit.RequestsPerMinute, per tick
    ConfigBurst,       \* RateLimit.Burst
    DefaultRate,       \* the rate when none is configured (60)
    IdleLimit,         \* ticks of idleness that count, 10 minutes in the code
    AuthEnabled,       \* Auth.Enabled
    PrivilegedExempt,  \* RateLimit.PrivilegedExempt
    None,              \* no bucket, no limiter
    MaxPause,          \* bound: ticks between leaving the mutex and Allow
    MaxTime            \* bound: the clock

\* NewRateLimiter: what is not configured has a default.
Rate == IF ConfigRate <= 0 THEN DefaultRate ELSE ConfigRate
Burst == IF ConfigBurst <= 0 THEN Rate ELSE ConfigBurst

\* api: does the path start with the prefix the limiter is for?
Caller == [ip : {c.ip : c \in Callers}, sub : {c.sub : c \in Callers},
           role : {"privileged", "social"}, expires : Int, api : BOOLEAN]

ASSUME LimiterAssumption ==
    /\ Callers \subseteq Caller
    /\ ConfigRate \in Int
    /\ ConfigBurst \in Int
    /\ DefaultRate \in Nat \ {0}
    /\ IdleLimit \in Nat
    /\ AuthEnabled \in BOOLEAN
    /\ PrivilegedExempt \in BOOLEAN
    /\ MaxPause \in Nat
    /\ MaxTime \in Nat
    /\ None \notin Requests \cup [lim : Requests, seen : Nat]
                  \cup [tokens : Nat, last : Nat]

VARIABLES
    now,      \* the clock
    buckets,  \* the map: buckets[k] is [lim, seen], or None when k is absent
    lims,     \* the rate.Limiter objects, named by the requests that made them
    lastGC,   \* when idle buckets were last dropped
    req       \* req[r]: how far the middleware is with request r

vars == <<now, buckets, lims, lastGC, req>>

Keys == {<<"user", c.sub>> : c \in Callers} \cup {<<"ip", c.ip>> : c \in Callers}

LimiterState == [tokens : 0..Burst, last : Nat]

RequestState ==
    [pc    : {"new", "found", "unlimited", "admitted", "refused"},
     key   : Keys \cup {None},
     lim   : Requests \cup {None},
     found : Nat,     \* when bucketFor returned
     at    : Nat]     \* history: when Allow answered

TypeOK ==
    /\ now \in 0..MaxTime
    /\ buckets \in [Keys -> [lim : Requests, seen : Nat] \cup {None}]
    /\ lims \in [Requests -> LimiterState \cup {None}]
    /\ lastGC \in Int
    /\ req \in [Requests -> RequestState]

\* lastGC is the zero time: the first request finds it long ago.
Init ==
    /\ now = 0
    /\ buckets = [k \in Keys |-> None]
    /\ lims = [r \in Requests |-> None]
    /\ lastGC = -(IdleLimit + 1)
    /\ req = [r \in Requests |-> [pc |-> "new", key |-> None, lim |-> None,
                                  found |-> 0, at |-> 0]]

-----------------------------------------------------------------------------
\* Who is asking.

\* Annotate: a valid token gives an identity, if authentication is on.
Known(c) == AuthEnabled /\ c.sub # Anonymous /\ now < c.expires

Exempt(c) == Known(c) /\ c.role = "privileged" /\ PrivilegedExempt

Key(c) == IF Known(c) THEN <<"user", c.sub>> ELSE <<"ip", c.ip>>

\* Another path, or a privileged caller: served without a bucket.
Unlimited(r) ==
    /\ req[r].pc = "new"
    /\ \E c \in Callers : ~c.api \/ Exempt(c)
    /\ req' = [req EXCEPT ![r] = [req[r] EXCEPT !.pc = "unlimited"]]
    /\ UNCHANGED <<now, buckets, lims, lastGC>>

-----------------------------------------------------------------------------
\* bucketFor, one critical section.

\* Mutant: a bucket is idle one tick too early.
IdleAtLimit(k) == buckets[k] # None /\ now - buckets[k].seen >= IdleLimit

Idle(k) == buckets[k] # None /\ now - buckets[k].seen > IdleLimit

SweepDue == now - lastGC > IdleLimit

\* Mutant: the sweep drops nothing.
SweptNothing == buckets

\* The map after the sweep of a call.
Swept ==
    [k \in Keys |-> IF SweepDue /\ Idle(k) THEN None ELSE buckets[k]]

\* Mutant: a limiter is made anew at every call.
LimiterOfNew(k, r) == r

\* The limiter of k: that of its bucket, or a new one, named after r.
LimiterOf(k, r) == IF Swept[k] = None THEN r ELSE Swept[k].lim

FindBucket(r) ==
    /\ req[r].pc = "new"
    /\ \E c \in Callers :
         LET k == Key(c)
             lim == LimiterOf(k, r)
         IN
         /\ c.api /\ ~Exempt(c)
         /\ buckets' = [Swept EXCEPT ![k] = [lim |-> lim, seen |-> now]]
         /\ lims' = IF lim = r
                    THEN [lims EXCEPT ![r] = [tokens |-> Burst, last |-> now]]
                    ELSE lims
         /\ req' = [req EXCEPT ![r] = [req[r] EXCEPT !.pc = "found", !.key = k,
                                                     !.lim = lim, !.found = now]]
    /\ lastGC' = IF SweepDue THEN now ELSE lastGC
    /\ UNCHANGED now

-----------------------------------------------------------------------------
\* rate.Limiter.Allow, atomic in itself: tokens earned since the last
\* admission are counted lazily.

\* Mutant: no upper bound on the tokens earned.
AvailableUncapped(l) == lims[l].tokens + Rate * (now - lims[l].last)

Available(l) ==
    LET earned == lims[l].tokens + Rate * (now - lims[l].last) IN
    IF earned > Burst THEN Burst ELSE earned

Answer(r, pc) ==
    /\ req' = [req EXCEPT ![r] = [req[r] EXCEPT !.pc = pc, !.at = now]]
    /\ UNCHANGED <<now, buckets, lastGC>>

Admit(r) ==
    /\ req[r].pc = "found"
    /\ Available(req[r].lim) > 0
    /\ lims' = [lims EXCEPT ![req[r].lim] =
                  [tokens |-> Available(req[r].lim) - 1, last |-> now]]
    /\ Answer(r, "admitted")

\* 429 Too Many Requests.
Refuse(r) ==
    /\ req[r].pc = "found"
    /\ Available(req[r].lim) = 0
    /\ Answer(r, "refused")
    /\ UNCHANGED lims

-----------------------------------------------------------------------------

Tick ==
    /\ now < MaxTime
    /\ \A r \in Requests : req[r].pc = "found" => now - req[r].found < MaxPause
    /\ now' = now + 1
    /\ UNCHANGED <<buckets, lims, lastGC, req>>

Next ==
    \/ Tick
    \/ \E r \in Requests : Unlimited(r) \/ FindBucket(r) \/ Admit(r) \/ Refuse(r)

Spec == Init /\ [][Next]_vars

-----------------------------------------------------------------------------

\* A key's requests answered pc between a and b.
Answered(k, pc, a, b) ==
    {r \in Requests : req[r].pc = pc /\ req[r].key = k /\ req[r].at \in a..b}

\* A bucket is dropped when it was last seen more than IdleLimit ago, and its
\* last answer came at most MaxPause after that: how long its key has then had
\* no answer, at the least, and the tokens it had not yet earned back.
QuietTime == IdleLimit + 1 - MaxPause
Gain == IF Burst > Rate * QuietTime THEN Burst - Rate * QuietTime ELSE 0

\* What a key may be admitted in d ticks: what a token bucket allows, and Gain
\* for every time its bucket may have been dropped too early in between.
Allowance(d) == Burst + Rate * d + Gain * (d \div QuietTime)

\* No key is admitted more often, in any window of time, than that: its bucket
\* is dropped and made anew, and limiters are used outside the mutex.
RateBound ==
    \A k \in Keys : \A b \in 0..now : \A a \in 0..b :
        Cardinality(Answered(k, "admitted", a, b)) <= Allowance(b - a)

\* The map does not keep the buckets of callers long gone: all buckets in it
\* were used within 2 * IdleLimit of one another.
MapIsRecent ==
    \A j, k \in Keys :
        buckets[j] # None /\ buckets[k] # None =>
            buckets[j].seen <= buckets[k].seen + 2 * IdleLimit

\* What the bucket of k would admit now; a key without a bucket has a full one.
Tokens(k) == IF buckets[k] = None THEN Burst ELSE Available(buckets[k].lim)

Given ==
    {[request |-> r, key |-> req[r].key, says |-> req[r].pc, at |-> req[r].at] :
        r \in {q \in Requests : req[q].pc \in {"admitted", "refused"}}}

Bucket == INSTANCE TokenBucket
    WITH clock <- now, tokens <- [k \in Keys |-> Tokens(k)], answers <- Given

\* The limiter, with its sweeps and with Allow outside the mutex, implements
\* token buckets that are forgotten only after QuietTime without an answer.
ImplementsTokenBucket == Bucket!Spec

=============================================================================
