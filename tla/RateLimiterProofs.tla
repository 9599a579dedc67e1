-------------------------- MODULE RateLimiterProofs --------------------------
(***************************************************************************)
(* Theorems about the rate limiter for any number of requests, callers and *)
(* keys, and any configured rate, burst and IdleLimit: also for those with *)
(* which a bucket is dropped before it has filled up again.                *)
(*                                                                         *)
(* BaseInv is inductive by itself.  HoldInv, which says that a limiter     *)
(* used outside the mutex is still the one in the map, needs pauses, from  *)
(* leaving the mutex to Allow, that do not exceed IdleLimit.               *)
(***************************************************************************)
EXTENDS RateLimiter, FiniteSetTheorems, TLAPS

\* Nothing is dated later than now.
ClockInv ==
    /\ \A l \in Requests : lims[l] # None => lims[l].last <= now
    /\ \A r \in Requests : req[r].found <= now /\ req[r].at <= now
    /\ \A k \in Keys : buckets[k] # None => buckets[k].seen <= now
    /\ lastGC <= now

\* A limiter is made by the request it is named after, and never goes away.
NamesInv ==
    /\ \A r \in Requests : req[r].pc = "new" => lims[r] = None
    /\ \A r \in Requests : req[r].pc = "found" =>
          req[r].key \in Keys /\ req[r].lim \in Requests /\ lims[req[r].lim] # None
    /\ \A k \in Keys : buckets[k] # None => lims[buckets[k].lim] # None

\* Every bucket was used within IdleLimit of the last sweep: before it, for
\* the sweep would have dropped the bucket; after it, for another would be due.
SweepInv ==
    \A k \in Keys : buckets[k] # None =>
        /\ lastGC - IdleLimit <= buckets[k].seen
        /\ buckets[k].seen <= lastGC + IdleLimit

BaseInv == TypeOK /\ ClockInv /\ NamesInv /\ SweepInv

\* A limiter serves the key of the request that made it, and no other.
OwnerInv ==
    \A k \in Keys : buckets[k] # None =>
        req[buckets[k].lim].pc # "new" /\ req[buckets[k].lim].key = k

\* The limiter a request is about to use is still that of its key.
HeldInv ==
    \A r \in Requests : req[r].pc = "found" =>
        /\ now - req[r].found <= MaxPause
        /\ buckets[req[r].key] # None
        /\ buckets[req[r].key].lim = req[r].lim
        /\ req[r].found <= buckets[req[r].key].seen

Answers == {"admitted", "refused"}

\* A key is answered at most a pause after its bucket was last seen.
AnsweredInv ==
    \A r \in Requests : req[r].pc \in Answers =>
        /\ req[r].key \in Keys
        /\ buckets[req[r].key] # None =>
              req[r].at <= buckets[req[r].key].seen + MaxPause

HoldInv == OwnerInv /\ HeldInv /\ AnsweredInv

\* Requests of k admitted since a.
Since(k, a) == Answered(k, "admitted", a, now)

\* What was admitted since a, and what would be admitted now, was in the bucket
\* at a, has been earned since, or was gained when the bucket was dropped.
EarnedInv ==
    \A k \in Keys : \A a \in 0..now :
        Cardinality(Since(k, a)) + Tokens(k) <= Allowance(now - a)

\* The key has had no answer for QuietTime.
Quiet(k) ==
    \A r \in Requests :
        req[r].pc \in Answers /\ req[r].key = k => req[r].at + QuietTime <= now

\* Only finitely many requests have come, even if there is no end of them.
FiniteInv == IsFiniteSet({r \in Requests : req[r].pc \in Answers})

BoundInv == FiniteInv /\ EarnedInv /\ RateBound

-----------------------------------------------------------------------------
\* Arithmetic.

LEMMA Positive == Rate \in Nat \ {0} /\ Burst \in Nat \ {0}
<1>1. Rate \in Nat \ {0}
  BY LimiterAssumption DEF Rate
<1> QED
  BY <1>1, LimiterAssumption DEF Burst

LEMMA Product ==
    ASSUME NEW m \in Nat, NEW n \in Nat
    PROVE  /\ m * n \in Nat
           /\ m * (n + 1) = m * n + m
           /\ m * 0 = 0
  OBVIOUS

LEMMA ProductMonotonic ==
    ASSUME NEW m \in Nat, NEW n \in Nat, NEW p \in Nat, n <= p
    PROVE  m * n <= m * p
<1>1. PICK d \in Nat : p = n + d
  <2>1. p - n \in Nat /\ p = n + (p - n)
    OBVIOUS
  <2> QED
    BY <2>1
<1>2. m * p = m * n + m * d
  BY <1>1
<1>3. m * d \in Nat /\ m * n \in Nat
  BY Product
<1> QED
  BY <1>2, <1>3

\* What a limiter has available is within its burst, and grows by Rate in every
\* tick until it is full.
LEMMA AvailableGrows ==
    ASSUME NEW tokens \in 0..Burst, NEW last \in Nat, NEW t \in Nat, last <= t,
           NEW earned, earned = tokens + Rate * (t - last),
           NEW later, later = tokens + Rate * (t + 1 - last)
    PROVE  /\ earned \in Nat /\ later = earned + Rate
<1> DEFINE n == t - last
<1>1. n \in Nat /\ t + 1 - last = n + 1
  OBVIOUS
<1> HIDE DEF n
<1>2. Rate * n \in Nat /\ Rate * (n + 1) = Rate * n + Rate
  BY <1>1, Positive, Product
<1> QED
  BY <1>1, <1>2, Positive DEF n

LEMMA AvailableType ==
    ASSUME BaseInv, NEW l \in Requests, lims[l] # None
    PROVE  /\ Available(l) \in 0..Burst
           /\ lims[l].tokens \in 0..Burst /\ lims[l].last \in 0..now /\ now \in Nat
<1>1. /\ lims[l].tokens \in 0..Burst /\ lims[l].last \in Nat
      /\ lims[l].last <= now /\ now \in Nat
  BY LimiterAssumption DEF BaseInv, TypeOK, ClockInv, LimiterState
<1>2. lims[l].tokens + Rate * (now - lims[l].last) \in Nat
  BY <1>1, AvailableGrows
<1> QED
  BY <1>1, <1>2, Positive DEF Available

-----------------------------------------------------------------------------
\* The steps, in terms of what they change.

LEMMA KeyType ==
    ASSUME NEW c \in Callers
    PROVE  Key(c) \in Keys
  BY DEF Key, Keys

\* Of bucketFor: k is the key, and lim its limiter.
Found(r, k, lim) ==
    /\ req[r].pc = "new"
    /\ lim = LimiterOf(k, r)
    /\ buckets' = [Swept EXCEPT ![k] = [lim |-> lim, seen |-> now]]
    /\ lims' = IF lim = r THEN [lims EXCEPT ![r] = [tokens |-> Burst, last |-> now]]
               ELSE lims
    /\ req' = [req EXCEPT ![r] = [req[r] EXCEPT !.pc = "found", !.key = k,
                                                !.lim = lim, !.found = now]]
    /\ lastGC' = IF SweepDue THEN now ELSE lastGC
    /\ now' = now

LEMMA FindBucketFinds ==
    ASSUME NEW r \in Requests, FindBucket(r)
    PROVE  \E k \in Keys : \E lim : Found(r, k, lim)
<1>1. PICK c \in Callers :
         LET k == Key(c)
             lim == LimiterOf(k, r)
         IN
         /\ buckets' = [Swept EXCEPT ![k] = [lim |-> lim, seen |-> now]]
         /\ lims' = IF lim = r
                    THEN [lims EXCEPT ![r] = [tokens |-> Burst, last |-> now]]
                    ELSE lims
         /\ req' = [req EXCEPT ![r] = [req[r] EXCEPT !.pc = "found", !.key = k,
                                                     !.lim = lim, !.found = now]]
  BY DEF FindBucket
<1> QED
  BY <1>1, KeyType DEF FindBucket, Found

\* What it does, entry by entry.
LEMMA FoundStep ==
    ASSUME BaseInv, NEW r \in Requests, NEW k \in Keys, NEW lim, Found(r, k, lim)
    PROVE  /\ lim \in Requests
           /\ lim = r <=> Swept[k] = None
           /\ lim # r => buckets[k] # None /\ lim = buckets[k].lim /\ lims[lim] # None
           /\ buckets' \in [Keys -> [lim : Requests, seen : Nat] \cup {None}]
           /\ \A j \in Keys \ {k} : buckets'[j] = Swept[j]
           /\ buckets'[k] # None /\ buckets'[k].lim = lim /\ buckets'[k].seen = now
           /\ lims' \in [Requests -> LimiterState \cup {None}]
           /\ \A l \in Requests \ {r} : lims'[l] = lims[l]
           /\ lim = r => lims'[r] # None /\ lims'[r] = [tokens |-> Burst, last |-> now]
           /\ lim # r => lims'[r] = lims[r]
           /\ req' \in [Requests -> RequestState]
           /\ \A q \in Requests \ {r} : req'[q] = req[q]
           /\ req'[r].pc = "found" /\ req'[r].key = k /\ req'[r].lim = lim
           /\ req'[r].found = now /\ req'[r].at = req[r].at
<1>1. /\ now \in Nat
      /\ buckets \in [Keys -> [lim : Requests, seen : Nat] \cup {None}]
      /\ lims \in [Requests -> LimiterState \cup {None}]
      /\ req \in [Requests -> RequestState]
  BY LimiterAssumption DEF BaseInv, TypeOK
<1>2. /\ Swept \in [Keys -> [lim : Requests, seen : Nat] \cup {None}]
      /\ \A j \in Keys : Swept[j] # None => Swept[j] = buckets[j]
  <2>1. \A j \in Keys : Swept[j] \in {buckets[j], None}
    BY DEF Swept
  <2>2. Swept = [j \in Keys |-> Swept[j]]
    BY DEF Swept
  <2> QED
    BY <1>1, <2>1, <2>2
<1>3. Swept[k] # None => lims[Swept[k].lim] # None /\ Swept[k].lim \in Requests
  BY <1>1, <1>2 DEF BaseInv, NamesInv
<1>4. lims[r] = None
  BY DEF BaseInv, NamesInv, Found
<1>5. lim \in Requests /\ (lim = r <=> Swept[k] = None)
        /\ (lim # r => buckets[k] # None /\ lim = buckets[k].lim /\ lims[lim] # None)
  BY <1>2, <1>3, <1>4 DEF Found, LimiterOf
<1> DEFINE bucket == [lim |-> lim, seen |-> now]
           full == [tokens |-> Burst, last |-> now]
           rec == [req[r] EXCEPT !.pc = "found", !.key = k, !.lim = lim, !.found = now]
<1>6. /\ bucket \in [lim : Requests, seen : Nat]
      /\ bucket.lim = lim /\ bucket.seen = now /\ bucket # None
  BY <1>1, <1>5, LimiterAssumption
<1>7. full \in LimiterState /\ full # None
  BY <1>1, Positive, LimiterAssumption DEF LimiterState
<1>8. /\ rec \in RequestState
      /\ rec.pc = "found" /\ rec.key = k /\ rec.lim = lim /\ rec.found = now
      /\ rec.at = req[r].at
  <2>1. \A q \in RequestState, j \in Keys, l \in Requests, n \in Nat :
          [q EXCEPT !.pc = "found", !.key = j, !.lim = l, !.found = n] \in RequestState
    BY DEF RequestState
  <2>2. req[r] \in RequestState
    BY <1>1
  <2>3. rec \in RequestState
    BY <1>1, <1>5, <2>1, <2>2
  <2>4. /\ rec.pc = "found" /\ rec.key = k /\ rec.lim = lim /\ rec.found = now
        /\ rec.at = req[r].at
    BY <2>2 DEF RequestState
  <2> QED
    BY <2>3, <2>4
<1>9. /\ buckets' = [Swept EXCEPT ![k] = bucket]
      /\ lims' = IF lim = r THEN [lims EXCEPT ![r] = full] ELSE lims
      /\ req' = [req EXCEPT ![r] = rec]
  BY DEF Found
<1> HIDE DEF bucket, full, rec
<1>10. /\ buckets' \in [Keys -> [lim : Requests, seen : Nat] \cup {None}]
       /\ \A j \in Keys \ {k} : buckets'[j] = Swept[j]
       /\ buckets'[k] = bucket
  BY <1>2, <1>6, <1>9
<1>11. /\ lims' \in [Requests -> LimiterState \cup {None}]
       /\ \A l \in Requests \ {r} : lims'[l] = lims[l]
       /\ lim = r => lims'[r] = full
       /\ lim # r => lims'[r] = lims[r]
  BY <1>1, <1>7, <1>9
<1>12. /\ req' \in [Requests -> RequestState]
       /\ \A q \in Requests \ {r} : req'[q] = req[q]
       /\ req'[r] = rec
  BY <1>1, <1>8, <1>9
<1> QED
  BY <1>5, <1>6, <1>7, <1>8, <1>10, <1>11, <1>12 DEF full

\* Of Allow: the request is answered pc, and nothing else of it changes.
LEMMA AnswerStep ==
    ASSUME BaseInv, NEW r \in Requests, NEW pc \in Answers, Answer(r, pc)
    PROVE  /\ req' \in [Requests -> RequestState]
           /\ \A q \in Requests \ {r} : req'[q] = req[q]
           /\ req'[r].pc = pc /\ req'[r].key = req[r].key /\ req'[r].at = now
           /\ req'[r].found = req[r].found
           /\ UNCHANGED <<now, buckets, lastGC>>
<1>1. now \in Nat /\ req \in [Requests -> RequestState]
  BY LimiterAssumption DEF BaseInv, TypeOK
<1> DEFINE rec == [req[r] EXCEPT !.pc = pc, !.at = now]
<1>2. /\ rec \in RequestState
      /\ rec.pc = pc /\ rec.at = now /\ rec.key = req[r].key /\ rec.found = req[r].found
  BY <1>1 DEF RequestState, Answers
<1>3. req' = [req EXCEPT ![r] = rec] /\ UNCHANGED <<now, buckets, lastGC>>
  BY DEF Answer
<1> HIDE DEF rec
<1> QED
  BY <1>1, <1>2, <1>3

LEMMA AdmitStep ==
    ASSUME BaseInv, NEW r \in Requests, Admit(r)
    PROVE  /\ req[r].lim \in Requests /\ lims[req[r].lim] # None
           /\ Available(req[r].lim) \in 1..Burst
           /\ lims' \in [Requests -> LimiterState \cup {None}]
           /\ \A l \in Requests \ {req[r].lim} : lims'[l] = lims[l]
           /\ lims'[req[r].lim] # None
           /\ lims'[req[r].lim] = [tokens |-> Available(req[r].lim) - 1, last |-> now]
<1>1. req[r].lim \in Requests /\ lims[req[r].lim] # None
  BY DEF Admit, BaseInv, NamesInv
<1>2. Available(req[r].lim) \in 1..Burst
  BY <1>1, AvailableType, Positive DEF Admit
<1> DEFINE spent == [tokens |-> Available(req[r].lim) - 1, last |-> now]
<1>3. spent \in LimiterState /\ spent # None
  BY <1>2, Positive, LimiterAssumption DEF LimiterState, BaseInv, TypeOK
<1>4. lims' = [lims EXCEPT ![req[r].lim] = spent]
  BY DEF Admit
<1>5. lims \in [Requests -> LimiterState \cup {None}]
  BY DEF BaseInv, TypeOK
<1> HIDE DEF spent
<1>6. /\ lims' \in [Requests -> LimiterState \cup {None}]
      /\ \A l \in Requests \ {req[r].lim} : lims'[l] = lims[l]
      /\ lims'[req[r].lim] = spent
  BY <1>1, <1>3, <1>4, <1>5
<1> QED
  BY <1>1, <1>2, <1>3, <1>6 DEF spent

LEMMA UnlimitedStep ==
    ASSUME BaseInv, NEW r \in Requests, Unlimited(r)
    PROVE  /\ req[r].pc = "new"
           /\ req' \in [Requests -> RequestState]
           /\ \A q \in Requests \ {r} : req'[q] = req[q]
           /\ req'[r].pc = "unlimited"
           /\ req'[r].found = req[r].found /\ req'[r].at = req[r].at
           /\ UNCHANGED <<now, buckets, lims, lastGC>>
<1>1. req \in [Requests -> RequestState]
  BY DEF BaseInv, TypeOK
<1> DEFINE rec == [req[r] EXCEPT !.pc = "unlimited"]
<1>2. /\ rec \in RequestState /\ rec.pc = "unlimited"
      /\ rec.found = req[r].found /\ rec.at = req[r].at
  BY <1>1 DEF RequestState
<1>3. req[r].pc = "new" /\ req' = [req EXCEPT ![r] = rec] /\ UNCHANGED <<now, buckets, lims, lastGC>>
  BY DEF Unlimited
<1> HIDE DEF rec
<1> QED
  BY <1>1, <1>2, <1>3

-----------------------------------------------------------------------------
\* What holds however long the pauses are.

LEMMA BaseInit == Init => BaseInv
<1> SUFFICES ASSUME Init PROVE BaseInv
  OBVIOUS
<1> DEFINE rec == [pc |-> "new", key |-> None, lim |-> None, found |-> 0, at |-> 0]
<1>1. rec \in RequestState /\ rec.pc = "new" /\ rec.found = 0 /\ rec.at = 0
  BY DEF RequestState
<1>2. req = [r \in Requests |-> rec]
  BY DEF Init
<1> HIDE DEF rec
<1>3. TypeOK
  BY <1>1, <1>2, LimiterAssumption DEF Init, TypeOK
<1>4. ClockInv
  BY <1>1, <1>2, LimiterAssumption DEF Init, ClockInv
<1>5. NamesInv
  BY <1>1, <1>2 DEF Init, NamesInv
<1>6. SweepInv
  BY DEF Init, SweepInv
<1> QED
  BY <1>3, <1>4, <1>5, <1>6 DEF BaseInv

\* The bucket of j survives the sweep of a call, as it was.
Kept(r, j) ==
    /\ buckets'[j] = buckets[j] /\ buckets[j] # None
    /\ SweepDue => now - buckets[j].seen <= IdleLimit
    /\ buckets[j].lim # r /\ buckets[j].lim \in Requests
    /\ buckets[j].seen \in Nat /\ buckets[j].seen <= now
    /\ lims[buckets[j].lim] # None

LEMMA KeptBuckets ==
    ASSUME BaseInv, NEW r \in Requests, NEW k \in Keys, NEW lim, Found(r, k, lim),
           NEW j \in Keys \ {k}, buckets'[j] # None
    PROVE  Kept(r, j)
<1>1. Swept[j] # None /\ buckets'[j] = Swept[j]
  BY FoundStep
<1>2. buckets'[j] = buckets[j] /\ buckets[j] # None /\ (SweepDue => ~Idle(j))
  BY <1>1 DEF Swept
<1>3. /\ buckets[j].lim \in Requests /\ buckets[j].seen \in Nat
      /\ buckets[j].seen <= now /\ lims[buckets[j].lim] # None /\ lims[r] = None
  BY <1>2 DEF BaseInv, TypeOK, NamesInv, ClockInv, Found
<1>4. now \in Nat /\ IdleLimit \in Nat
  BY LimiterAssumption DEF BaseInv, TypeOK
<1> QED
  BY <1>2, <1>3, <1>4 DEF Idle, Kept

LEMMA BaseFound ==
    ASSUME BaseInv, NEW r \in Requests, NEW k \in Keys, NEW lim, Found(r, k, lim)
    PROVE  BaseInv'
<1>1. /\ now \in 0..MaxTime /\ now \in Nat /\ now' = now /\ lastGC \in Int
      /\ IdleLimit \in Nat
      /\ buckets \in [Keys -> [lim : Requests, seen : Nat] \cup {None}]
      /\ lastGC' = IF SweepDue THEN now ELSE lastGC
      /\ req[r].pc = "new" /\ lastGC <= now
  BY LimiterAssumption DEF BaseInv, TypeOK, ClockInv, Found
<1>2. TypeOK'
  BY <1>1, FoundStep DEF TypeOK
<1>3. \A j \in Keys \ {k} : buckets'[j] # None => Kept(r, j)
  BY KeptBuckets
<1>4. ClockInv'
  <2>1. \A l \in Requests : lims'[l] # None => lims'[l].last <= now
    BY <1>1, FoundStep DEF BaseInv, ClockInv
  <2>2. \A q \in Requests : req'[q].found <= now /\ req'[q].at <= now
    BY <1>1, FoundStep DEF BaseInv, ClockInv
  <2>3. \A j \in Keys : buckets'[j] # None => buckets'[j].seen <= now
    BY <1>1, <1>3, FoundStep DEF Kept
  <2> QED
    BY <1>1, <2>1, <2>2, <2>3 DEF ClockInv
<1>5. NamesInv'
  <2>1. \A l \in Requests : lims[l] # None => lims'[l] # None
    BY <1>1, FoundStep DEF BaseInv, NamesInv
  <2>2. lims'[lim] # None
    BY <2>1, FoundStep
  <2>3. \A q \in Requests : req'[q].pc = "new" => lims'[q] = None
    BY FoundStep DEF BaseInv, NamesInv
  <2>4. \A q \in Requests : req'[q].pc = "found" =>
          req'[q].key \in Keys /\ req'[q].lim \in Requests /\ lims'[req'[q].lim] # None
    <3>1. req'[r].key \in Keys /\ req'[r].lim \in Requests /\ lims'[req'[r].lim] # None
      BY <2>2, FoundStep
    <3>2. \A q \in Requests \ {r} : req'[q] = req[q]
      BY FoundStep
    <3> QED
      BY <2>1, <3>1, <3>2 DEF BaseInv, NamesInv
  <2>5. \A j \in Keys : buckets'[j] # None => lims'[buckets'[j].lim] # None
    BY <1>3, <2>1, <2>2, FoundStep DEF Kept
  <2> QED
    BY <2>3, <2>4, <2>5 DEF NamesInv
<1>6. SweepInv'
  <2> SUFFICES ASSUME NEW j \in Keys, buckets'[j] # None
               PROVE  /\ lastGC' - IdleLimit <= buckets'[j].seen
                      /\ buckets'[j].seen <= lastGC' + IdleLimit
    BY DEF SweepInv
  <2>1. CASE j = k
    BY <1>1, <2>1, FoundStep DEF SweepDue
  <2>2. CASE j # k
    <3>1. /\ buckets'[j] = buckets[j] /\ buckets[j].seen \in Nat /\ buckets[j].seen <= now
          /\ SweepDue => now - buckets[j].seen <= IdleLimit
          /\ lastGC - IdleLimit <= buckets[j].seen
          /\ buckets[j].seen <= lastGC + IdleLimit
      BY <1>3, <2>2 DEF Kept, BaseInv, SweepInv
    <3> QED
      BY <1>1, <3>1
  <2> QED
    BY <2>1, <2>2
<1> QED
  BY <1>2, <1>4, <1>5, <1>6 DEF BaseInv

\* Allow changes limiters, but makes none.
LimitersStay ==
    /\ lims' \in [Requests -> LimiterState \cup {None}]
    /\ \A l \in Requests : lims'[l] = None <=> lims[l] = None
    /\ \A l \in Requests : lims'[l] # None => lims'[l].last <= now

LEMMA BaseAnswered ==
    ASSUME BaseInv, NEW r \in Requests, NEW pc \in Answers, req[r].pc = "found",
           Answer(r, pc), LimitersStay
    PROVE  BaseInv'
<1>1. /\ req' \in [Requests -> RequestState] /\ UNCHANGED <<now, buckets, lastGC>>
      /\ \A q \in Requests \ {r} : req'[q] = req[q]
      /\ req'[r].pc = pc /\ req'[r].at = now /\ req'[r].found = req[r].found
      /\ pc # "new" /\ pc # "found" /\ now \in Nat
  BY AnswerStep, LimiterAssumption DEF Answers, BaseInv, TypeOK
<1>2. TypeOK'
  BY <1>1 DEF BaseInv, TypeOK, LimitersStay
<1>3. ClockInv'
  <2>1. \A l \in Requests : lims'[l] # None => lims'[l].last <= now
    BY DEF LimitersStay
  <2>2. \A q \in Requests : req'[q].found <= now /\ req'[q].at <= now
    BY <1>1 DEF BaseInv, ClockInv
  <2> QED
    BY <1>1, <2>1, <2>2 DEF BaseInv, ClockInv
<1>4. NamesInv'
  <2>1. \A q \in Requests : req'[q].pc \in {"new", "found"} => req'[q] = req[q]
    BY <1>1
  <2>2. \A q \in Requests : req'[q].pc = "found" =>
          req'[q].key \in Keys /\ req'[q].lim \in Requests /\ lims'[req'[q].lim] # None
    BY <2>1 DEF BaseInv, NamesInv, LimitersStay
  <2>3. \A k \in Keys : buckets'[k] # None => lims'[buckets'[k].lim] # None
    BY <1>1 DEF BaseInv, NamesInv, TypeOK, LimitersStay
  <2> QED
    BY <2>1, <2>2, <2>3 DEF BaseInv, NamesInv, LimitersStay
<1>5. SweepInv'
  BY <1>1 DEF BaseInv, SweepInv
<1> QED
  BY <1>2, <1>3, <1>4, <1>5 DEF BaseInv

LEMMA BaseStep == BaseInv /\ [Next]_vars => BaseInv'
<1> SUFFICES ASSUME BaseInv, [Next]_vars PROVE BaseInv'
  OBVIOUS
<1>1. CASE UNCHANGED vars
  BY <1>1 DEF vars, BaseInv, TypeOK, ClockInv, NamesInv, SweepInv
<1>2. CASE Tick
  <2>1. /\ now \in Nat /\ now' = now + 1 /\ now' \in 0..MaxTime
        /\ UNCHANGED <<buckets, lims, lastGC, req>>
    BY <1>2, LimiterAssumption DEF Tick, BaseInv, TypeOK
  <2>2. /\ \A l \in Requests : lims[l] # None => lims[l].last \in Nat
        /\ \A r \in Requests : req[r].found \in Nat /\ req[r].at \in Nat
        /\ \A k \in Keys : buckets[k] # None => buckets[k].seen \in Nat
        /\ lastGC \in Int
    BY DEF BaseInv, TypeOK, LimiterState, RequestState
  <2>3. ClockInv'
    BY <2>1, <2>2 DEF BaseInv, ClockInv
  <2> QED
    BY <2>1, <2>3 DEF BaseInv, TypeOK, NamesInv, SweepInv
<1>3. ASSUME NEW r \in Requests, Unlimited(r)
      PROVE  BaseInv'
  BY <1>3, UnlimitedStep DEF BaseInv, TypeOK, ClockInv, NamesInv, SweepInv
<1>4. ASSUME NEW r \in Requests, FindBucket(r)
      PROVE  BaseInv'
  BY <1>4, FindBucketFinds, BaseFound
<1>5. ASSUME NEW r \in Requests, Admit(r)
      PROVE  BaseInv'
  <2>0. lims'[req[r].lim] = [tokens |-> Available(req[r].lim) - 1, last |-> now]
    BY <1>5, AdmitStep
  <2>1. /\ now \in Nat
        /\ lims'[req[r].lim].last = now /\ lims'[req[r].lim] # None /\ lims[req[r].lim] # None
        /\ lims' \in [Requests -> LimiterState \cup {None}]
        /\ \A l \in Requests \ {req[r].lim} : lims'[l] = lims[l]
    BY <1>5, <2>0, AdmitStep, LimiterAssumption DEF BaseInv, TypeOK
  <2>2. LimitersStay
    BY <2>1 DEF LimitersStay, BaseInv, ClockInv
  <2> QED
    BY <1>5, <2>2, BaseAnswered DEF Admit, Answers
<1>6. ASSUME NEW r \in Requests, Refuse(r)
      PROVE  BaseInv'
  <2>1. LimitersStay
    BY <1>6 DEF Refuse, LimitersStay, BaseInv, ClockInv, TypeOK
  <2> QED
    BY <1>6, <2>1, BaseAnswered DEF Refuse, Answers
<1> QED
  BY <1>1, <1>2, <1>3, <1>4, <1>5, <1>6 DEF Next

LEMMA BaseInvariance == Spec => []BaseInv
  BY BaseInit, BaseStep, PTL DEF Spec

\* Every variable keeps its type: tokens stay within the burst, and a bucket
\* always has a limiter.
THEOREM LimiterTypeCorrect == Spec => []TypeOK
<1>1. BaseInv => TypeOK
  BY DEF BaseInv
<1> QED
  BY <1>1, BaseInvariance, PTL

\* The map forgets callers long gone: whatever the order in which keys come and
\* go, all its buckets were used within 2 * IdleLimit of one another.
THEOREM MapStaysRecent == Spec => []MapIsRecent
<1>1. BaseInv => MapIsRecent
  <2> SUFFICES ASSUME BaseInv, NEW j \in Keys, NEW k \in Keys,
                      buckets[j] # None, buckets[k] # None
               PROVE  buckets[j].seen <= buckets[k].seen + 2 * IdleLimit
    BY DEF MapIsRecent
  <2>1. /\ buckets[j].seen \in Nat /\ buckets[k].seen \in Nat
        /\ lastGC \in Int /\ IdleLimit \in Nat
        /\ lastGC - IdleLimit <= buckets[k].seen
        /\ buckets[j].seen <= lastGC + IdleLimit
    BY LimiterAssumption DEF BaseInv, TypeOK, SweepInv
  <2> QED
    BY <2>1
<1> QED
  BY <1>1, BaseInvariance, PTL

-----------------------------------------------------------------------------
\* What holds when pauses are shorter than IdleLimit.

LEMMA HoldInit == Init => HoldInv
<1> SUFFICES ASSUME Init PROVE HoldInv
  OBVIOUS
<1>1. \A r \in Requests : req[r].pc = "new"
  BY DEF Init
<1> QED
  BY <1>1 DEF Init, HoldInv, OwnerInv, HeldInv, AnsweredInv, Answers

\* A bucket whose limiter is about to be used is not idle.
LEMMA HeldIsNotIdle ==
    ASSUME MaxPause <= IdleLimit, BaseInv, HoldInv, NEW q \in Requests, req[q].pc = "found"
    PROVE  /\ req[q].key \in Keys
           /\ Swept[req[q].key] = buckets[req[q].key] /\ buckets[req[q].key] # None
           /\ req[q].found <= now /\ req[q].found \in Nat
<1>1. /\ req[q].key \in Keys /\ req[q].found \in Nat /\ now \in Nat
      /\ MaxPause \in Nat /\ IdleLimit \in Nat
  BY LimiterAssumption DEF BaseInv, TypeOK, RequestState, NamesInv
<1> DEFINE k == req[q].key
<1>2. /\ buckets[k] # None /\ buckets[k].seen \in Nat
      /\ now - req[q].found <= MaxPause /\ req[q].found <= buckets[k].seen
  BY <1>1 DEF HoldInv, HeldInv, BaseInv, TypeOK
<1>3. ~Idle(k)
  BY <1>1, <1>2 DEF Idle
<1>4. Swept[k] = buckets[k]
  BY <1>1, <1>3 DEF Swept
<1> QED
  BY <1>1, <1>2, <1>4 DEF BaseInv, ClockInv

LEMMA HoldFound ==
    ASSUME MaxPause <= IdleLimit, BaseInv, HoldInv,
           NEW r \in Requests, NEW k \in Keys, NEW lim, Found(r, k, lim)
    PROVE  HoldInv'
<1>1. /\ now \in Nat /\ now' = now /\ MaxPause \in Nat /\ req[r].pc = "new"
  BY LimiterAssumption DEF BaseInv, TypeOK, Found
<1>2. \A j \in Keys \ {k} : buckets'[j] # None => Kept(r, j)
  BY KeptBuckets
<1>3. OwnerInv'
  <2> SUFFICES ASSUME NEW j \in Keys, buckets'[j] # None
               PROVE  req'[buckets'[j].lim].pc # "new" /\ req'[buckets'[j].lim].key = j
    BY DEF OwnerInv
  <2>1. CASE j # k
    <3>1. /\ buckets'[j] = buckets[j] /\ buckets[j] # None
          /\ buckets[j].lim \in Requests \ {r}
      BY <1>2, <2>1 DEF Kept
    <3> QED
      BY <3>1, FoundStep DEF HoldInv, OwnerInv
  <2>2. CASE j = k /\ lim = r
    BY <2>2, FoundStep
  <2>3. CASE j = k /\ lim # r
    <3>1. /\ buckets[k] # None /\ lim = buckets[k].lim
          /\ lim \in Requests \ {r} /\ buckets'[k].lim = lim
      BY <2>3, FoundStep
    <3>2. req'[lim] = req[lim]
      BY <3>1, FoundStep
    <3> QED
      BY <2>3, <3>1, <3>2 DEF HoldInv, OwnerInv
  <2> QED
    BY <2>1, <2>2, <2>3
<1>4. HeldInv'
  <2> SUFFICES ASSUME NEW q \in Requests, req'[q].pc = "found"
               PROVE  /\ now - req'[q].found <= MaxPause
                      /\ buckets'[req'[q].key] # None
                      /\ buckets'[req'[q].key].lim = req'[q].lim
                      /\ req'[q].found <= buckets'[req'[q].key].seen
    BY <1>1 DEF HeldInv
  <2>1. CASE q = r
    BY <1>1, <2>1, FoundStep
  <2>2. CASE q # r
    <3>1. req'[q] = req[q] /\ req[q].pc = "found"
      BY <2>2, FoundStep
    <3> DEFINE j == req[q].key
    <3>2. /\ j \in Keys /\ Swept[j] = buckets[j] /\ buckets[j] # None
          /\ req[q].found <= now
      BY <3>1, HeldIsNotIdle
    <3>3. /\ now - req[q].found <= MaxPause /\ buckets[j].lim = req[q].lim
          /\ req[q].found <= buckets[j].seen
      BY <3>1 DEF HoldInv, HeldInv
    <3>4. CASE j # k
      BY <3>1, <3>2, <3>3, <3>4, FoundStep
    <3>5. CASE j = k
      <4>1. lim = buckets[k].lim
        BY <3>2, <3>5, FoundStep
      <4> QED
        BY <3>1, <3>2, <3>3, <3>5, <4>1, FoundStep
    <3> QED
      BY <3>4, <3>5
  <2> QED
    BY <2>1, <2>2
<1>5. AnsweredInv'
  <2> SUFFICES ASSUME NEW q \in Requests, req'[q].pc \in Answers
               PROVE  /\ req'[q].key \in Keys
                      /\ buckets'[req'[q].key] # None =>
                            req'[q].at <= buckets'[req'[q].key].seen + MaxPause
    BY DEF AnsweredInv
  <2>1. req'[q] = req[q]
    <3>1. req'[r].pc \notin Answers
      BY FoundStep DEF Answers
    <3> QED
      BY <3>1, FoundStep
  <2> DEFINE j == req[q].key
  <2>2. /\ j \in Keys /\ req[q].at \in Nat /\ req[q].at <= now
        /\ buckets[j] # None => req[q].at <= buckets[j].seen + MaxPause
    BY <2>1 DEF HoldInv, AnsweredInv, BaseInv, TypeOK, RequestState, ClockInv
  <2>3. CASE j = k
    <3>1. buckets'[j].seen = now
      BY <2>3, FoundStep
    <3> QED
      BY <1>1, <2>1, <2>2, <3>1
  <2>4. CASE j # k
    BY <1>2, <2>1, <2>2, <2>4 DEF Kept
  <2> QED
    BY <2>3, <2>4
<1> QED
  BY <1>3, <1>4, <1>5 DEF HoldInv

LEMMA HoldAnswered ==
    ASSUME MaxPause <= IdleLimit, BaseInv, HoldInv, NEW r \in Requests,
           NEW pc \in Answers, req[r].pc = "found", Answer(r, pc)
    PROVE  HoldInv'
<1>1. /\ UNCHANGED <<now, buckets>>
      /\ \A q \in Requests \ {r} : req'[q] = req[q]
      /\ req'[r].pc = pc /\ req'[r].key = req[r].key /\ pc # "new" /\ pc # "found"
      /\ req'[r].at = now
  BY AnswerStep DEF Answers
<1>2. OwnerInv'
  <2>1. \A k \in Keys : buckets[k] # None => buckets[k].lim \in Requests
    BY DEF BaseInv, TypeOK
  <2> QED
    BY <1>1, <2>1 DEF HoldInv, OwnerInv
<1>3. HeldInv'
  BY <1>1 DEF HoldInv, HeldInv
<1>4. AnsweredInv'
  <2>1. /\ req[r].key \in Keys /\ now - req[r].found <= MaxPause
        /\ req[r].found <= buckets[req[r].key].seen
    BY DEF BaseInv, NamesInv, HoldInv, HeldInv
  <2>2. buckets[req[r].key] # None => buckets[req[r].key].seen \in Nat
    BY <2>1 DEF BaseInv, TypeOK
  <2>3. /\ now \in Nat /\ req[r].found \in Nat /\ MaxPause \in Nat
    BY LimiterAssumption DEF BaseInv, TypeOK, RequestState
  <2>4. buckets[req[r].key] # None => now <= buckets[req[r].key].seen + MaxPause
    BY <2>1, <2>2, <2>3
  <2> QED
    BY <1>1, <2>1, <2>4 DEF HoldInv, AnsweredInv
<1> QED
  BY <1>2, <1>3, <1>4 DEF HoldInv

\* The limiter a request uses is that of its key, and of no other.
LEMMA HeldByOneKey ==
    ASSUME HoldInv, BaseInv, NEW r \in Requests, req[r].pc = "found"
    PROVE  /\ req[r].key \in Keys
           /\ buckets[req[r].key] # None /\ buckets[req[r].key].lim = req[r].lim
           /\ \A j \in Keys \ {req[r].key} :
                 buckets[j] # None => buckets[j].lim # req[r].lim
<1>1. /\ req[r].key \in Keys
      /\ buckets[req[r].key] # None /\ buckets[req[r].key].lim = req[r].lim
  BY DEF HoldInv, HeldInv, BaseInv, NamesInv
<1>2. req[req[r].lim].key = req[r].key
  BY <1>1 DEF HoldInv, OwnerInv
<1> QED
  BY <1>1, <1>2 DEF HoldInv, OwnerInv

LEMMA HoldStep ==
    ASSUME MaxPause <= IdleLimit, BaseInv, HoldInv, [Next]_vars
    PROVE  HoldInv'
<1>1. CASE UNCHANGED vars
  BY <1>1 DEF vars, HoldInv, OwnerInv, HeldInv, AnsweredInv
<1>2. CASE Tick
  <2>1. /\ now \in Nat /\ now' = now + 1 /\ UNCHANGED <<buckets, lims, req>>
        /\ \A r \in Requests : req[r].pc = "found" => now - req[r].found < MaxPause
        /\ MaxPause \in Nat
    BY <1>2, LimiterAssumption DEF Tick, BaseInv, TypeOK
  <2>2. \A r \in Requests : req[r].found \in Nat
    BY DEF BaseInv, TypeOK, RequestState
  <2>3. HeldInv'
    BY <2>1, <2>2 DEF HoldInv, HeldInv
  <2> QED
    BY <2>1, <2>3 DEF HoldInv, OwnerInv, AnsweredInv
<1>3. ASSUME NEW r \in Requests, Unlimited(r)
      PROVE  HoldInv'
  <2>1. OwnerInv'
    <3>1. \A k \in Keys : buckets[k] # None => buckets[k].lim \in Requests \ {r}
      BY <1>3, UnlimitedStep DEF HoldInv, OwnerInv, BaseInv, TypeOK
    <3> QED
      BY <1>3, <3>1, UnlimitedStep DEF HoldInv, OwnerInv
  <2>2. HeldInv'
    BY <1>3, UnlimitedStep DEF HoldInv, HeldInv
  <2>3. AnsweredInv'
    BY <1>3, UnlimitedStep DEF HoldInv, AnsweredInv, Answers
  <2> QED
    BY <2>1, <2>2, <2>3 DEF HoldInv
<1>4. ASSUME NEW r \in Requests, FindBucket(r)
      PROVE  HoldInv'
  BY <1>4, FindBucketFinds, HoldFound
<1>5. ASSUME NEW r \in Requests, Admit(r)
      PROVE  HoldInv'
  BY <1>5, HoldAnswered DEF Admit, Answers
<1>6. ASSUME NEW r \in Requests, Refuse(r)
      PROVE  HoldInv'
  BY <1>6, HoldAnswered DEF Refuse, Answers
<1> QED
  BY <1>1, <1>2, <1>3, <1>4, <1>5, <1>6 DEF Next

LEMMA HoldInvariance ==
    ASSUME MaxPause <= IdleLimit
    PROVE  Spec => [](BaseInv /\ HoldInv)
<1>1. Init => BaseInv /\ HoldInv
  BY BaseInit, HoldInit
<1>2. BaseInv /\ HoldInv /\ [Next]_vars => (BaseInv /\ HoldInv)'
  BY BaseStep, HoldStep
<1> QED
  BY <1>1, <1>2, PTL DEF Spec

\* Requests answer from the limiter that is in the map: bucketFor and Allow do
\* what one critical section would do.
THEOREM LimiterStaysInMap ==
    ASSUME MaxPause <= IdleLimit
    PROVE  Spec => []HeldInv
<1>1. BaseInv /\ HoldInv => HeldInv
  BY DEF HoldInv
<1> QED
  BY <1>1, HoldInvariance, PTL

-----------------------------------------------------------------------------
\* What a step does to the tokens of a key: it is what it does to a bucket that
\* is forgotten after QuietTime without an answer, and not before.

LEMMA TokensType ==
    ASSUME BaseInv, NEW k \in Keys
    PROVE  Tokens(k) \in 0..Burst
<1>1. CASE buckets[k] = None
  BY <1>1, Positive DEF Tokens
<1>2. CASE buckets[k] # None
  <2>1. buckets[k].lim \in Requests /\ lims[buckets[k].lim] # None
    BY <1>2 DEF BaseInv, TypeOK, NamesInv
  <2> QED
    BY <1>2, <2>1, AvailableType DEF Tokens
<1> QED
  BY <1>1, <1>2

LEMMA IdleIsQuiet ==
    ASSUME BaseInv, HoldInv, NEW j \in Keys, Idle(j)
    PROVE  Quiet(j)
<1> SUFFICES ASSUME NEW r \in Requests, req[r].pc \in Answers, req[r].key = j
             PROVE  req[r].at + QuietTime <= now
  BY DEF Quiet
<1>1. /\ buckets[j] # None /\ buckets[j].seen \in Nat
      /\ now - buckets[j].seen > IdleLimit /\ req[r].at \in Nat
      /\ now \in Nat /\ IdleLimit \in Nat /\ MaxPause \in Nat
  BY LimiterAssumption DEF Idle, BaseInv, TypeOK, RequestState
<1>2. req[r].at <= buckets[j].seen + MaxPause
  BY <1>1 DEF HoldInv, AnsweredInv
<1> QED
  BY <1>1, <1>2 DEF QuietTime

LEMMA TokensFound ==
    ASSUME BaseInv, HoldInv, NEW r \in Requests, NEW k \in Keys,
           NEW lim, Found(r, k, lim), NEW j \in Keys
    PROVE  Tokens(j)' = IF Idle(j) /\ SweepDue THEN Burst ELSE Tokens(j)
<1>1. now \in Nat /\ now' = now
  BY LimiterAssumption DEF BaseInv, TypeOK, Found
<1>2. Swept[j] = None => (IF Idle(j) /\ SweepDue THEN Burst ELSE Tokens(j)) = Burst
  BY DEF Swept, Tokens
<1>3. Swept[j] # None => Swept[j] = buckets[j] /\ ~(Idle(j) /\ SweepDue)
  BY DEF Swept
<1>4. CASE j # k /\ Swept[j] = None
  <2>1. buckets'[j] = None
    BY <1>4, FoundStep
  <2> QED
    BY <1>2, <1>4, <2>1 DEF Tokens
<1>5. CASE j # k /\ Swept[j] # None
  <2>1. buckets'[j] # None
    BY <1>5, FoundStep
  <2>2. Kept(r, j)
    BY <1>5, <2>1, KeptBuckets
  <2>3. lims'[buckets[j].lim] = lims[buckets[j].lim]
    BY <2>2, FoundStep DEF Kept
  <2> QED
    BY <1>1, <1>3, <1>5, <2>2, <2>3 DEF Kept, Tokens, Available
<1>6. CASE j = k /\ lim = r
  <2>1. lims'[r] = [tokens |-> Burst, last |-> now] /\ Swept[k] = None
    BY <1>6, FoundStep
  <2>2. buckets'[k] # None /\ buckets'[k].lim = r
    BY <1>6, FoundStep
  <2>3. lims'[r].tokens + Rate * (now' - lims'[r].last) = Burst
    <3>1. now' - lims'[r].last = 0
      BY <1>1, <2>1
    <3> QED
      BY <2>1, <3>1, Positive, Product
  <2>4. Tokens(k)' = Burst
    BY <2>2, <2>3, Positive DEF Tokens, Available
  <2> QED
    BY <1>2, <1>6, <2>1, <2>4
<1>7. CASE j = k /\ lim # r
  <2>1. /\ buckets[k] # None /\ lim = buckets[k].lim /\ lims'[lim] = lims[lim]
        /\ buckets'[k] # None /\ buckets'[k].lim = lim
    <3>1. lim \in Requests \ {r}
      BY <1>7, FoundStep
    <3> QED
      BY <1>7, <3>1, FoundStep
  <2> QED
    BY <1>1, <1>3, <1>7, <2>1, FoundStep DEF Tokens, Available
<1> QED
  BY <1>4, <1>5, <1>6, <1>7

LEMMA TokensTick ==
    ASSUME BaseInv, Tick, NEW k \in Keys
    PROVE  Tokens(k)' = IF Tokens(k) + Rate > Burst THEN Burst ELSE Tokens(k) + Rate
<1>1. now \in Nat /\ now' = now + 1 /\ UNCHANGED <<buckets, lims>>
  BY LimiterAssumption DEF Tick, BaseInv, TypeOK
<1>2. CASE buckets[k] = None
  BY <1>1, <1>2, Positive DEF Tokens
<1>3. CASE buckets[k] # None
  <2>1. PICK l \in Requests : l = buckets[k].lim /\ lims[l] # None
    BY <1>3 DEF BaseInv, TypeOK, NamesInv
  <2> DEFINE earned == lims[l].tokens + Rate * (now - lims[l].last)
             later == lims[l].tokens + Rate * (now + 1 - lims[l].last)
  <2>2. lims[l].tokens \in 0..Burst /\ lims[l].last \in 0..now
    BY <2>1, AvailableType
  <2>3. earned \in Nat /\ later = earned + Rate
    BY <1>1, <2>2, AvailableGrows
  <2>4. Tokens(k) = IF earned > Burst THEN Burst ELSE earned
    BY <1>3, <2>1 DEF Tokens, Available
  <2>5. Tokens(k)' = IF later > Burst THEN Burst ELSE later
    <3>1. buckets'[k] # None /\ buckets'[k].lim = l /\ lims'[l] = lims[l]
      BY <1>1, <1>3, <2>1
    <3>2. Tokens(k)' = IF lims'[l].tokens + Rate * (now' - lims'[l].last) > Burst THEN Burst
                       ELSE lims'[l].tokens + Rate * (now' - lims'[l].last)
      BY <3>1, Zenon DEF Tokens, Available
    <3>3. lims'[l].tokens + Rate * (now' - lims'[l].last) = later
      <4>1. lims'[l].tokens = lims[l].tokens /\ lims'[l].last = lims[l].last /\ now' = now + 1
        BY <1>1, <3>1
      <4>2. now' - lims'[l].last = now + 1 - lims[l].last
        BY <1>1, <2>2, <4>1
      <4> QED
        BY <4>1, <4>2
    <3> QED
      BY <3>2, <3>3, Zenon
  <2> HIDE DEF earned, later
  <2> QED
    BY <2>3, <2>4, <2>5, Positive
<1> QED
  BY <1>2, <1>3

LEMMA TokensAdmit ==
    ASSUME BaseInv, HoldInv, NEW r \in Requests, Admit(r),
           NEW k \in Keys, k = req[r].key
    PROVE  /\ Tokens(k) > 0
           /\ Tokens(k)' = Tokens(k) - 1
           /\ \A j \in Keys \ {k} : Tokens(j)' = Tokens(j)
<1> DEFINE l == req[r].lim
<1>1. /\ now \in Nat /\ UNCHANGED <<now, buckets>> /\ req[r].pc = "found"
  BY LimiterAssumption DEF Admit, Answer, BaseInv, TypeOK
<1>2. /\ k \in Keys /\ buckets[k] # None /\ buckets[k].lim = l
      /\ \A j \in Keys \ {k} : buckets[j] # None => buckets[j].lim # l
  BY <1>1, HeldByOneKey
<1>3. /\ l \in Requests /\ Available(l) \in 1..Burst
      /\ lims'[l] = [tokens |-> Available(l) - 1, last |-> now]
      /\ \A m \in Requests \ {l} : lims'[m] = lims[m]
  BY AdmitStep
<1>4. Tokens(k) = Available(l)
  BY <1>2 DEF Tokens
<1>5. Tokens(k)' = Available(l) - 1
  <2>0. lims'[l].tokens = Available(l) - 1 /\ lims'[l].last = now
    BY <1>3
  <2>1. lims'[l].tokens + Rate * (now' - lims'[l].last) = Available(l) - 1
    <3>1. now' - lims'[l].last = 0
      BY <1>1, <2>0
    <3> QED
      BY <1>3, <2>0, <3>1, Positive, Product
  <2>2. buckets'[k] # None /\ buckets'[k].lim = l
    BY <1>1, <1>2
  <2>3. Tokens(k)' = IF lims'[l].tokens + Rate * (now' - lims'[l].last) > Burst THEN Burst
                     ELSE lims'[l].tokens + Rate * (now' - lims'[l].last)
    BY <2>2, Zenon DEF Tokens, Available
  <2> QED
    BY <1>3, <2>1, <2>3, Positive
<1>6. ASSUME NEW j \in Keys \ {k} PROVE Tokens(j)' = Tokens(j)
  <2>1. buckets[j] # None => lims'[buckets[j].lim] = lims[buckets[j].lim]
    BY <1>2, <1>3 DEF BaseInv, TypeOK
  <2> QED
    BY <1>1, <2>1 DEF Tokens, Available
<1> QED
  BY <1>2, <1>3, <1>4, <1>5, <1>6

LEMMA TokensRefuse ==
    ASSUME BaseInv, HoldInv, NEW r \in Requests, Refuse(r)
    PROVE  /\ Tokens(req[r].key) = 0
           /\ \A j \in Keys : Tokens(j)' = Tokens(j)
<1>1. /\ UNCHANGED <<now, buckets, lims>> /\ req[r].pc = "found"
      /\ Available(req[r].lim) = 0
  BY DEF Refuse, Answer
<1>2. /\ req[r].key \in Keys /\ buckets[req[r].key] # None
      /\ buckets[req[r].key].lim = req[r].lim
  BY <1>1, HeldByOneKey
<1>3. Tokens(req[r].key) = 0
  BY <1>1, <1>2 DEF Tokens
<1>4. \A j \in Keys : Tokens(j)' = Tokens(j)
  BY <1>1 DEF Tokens, Available
<1> QED
  BY <1>2, <1>3, <1>4

-----------------------------------------------------------------------------
\* What a step does to the answers given.

\* No request is answered.
Steady ==
    /\ \A q \in Requests : req'[q].pc \in Answers <=> req[q].pc \in Answers
    /\ \A q \in Requests : req[q].pc \in Answers => req'[q] = req[q]

LEMMA SteadyAnswers ==
    ASSUME Steady
    PROVE  /\ \A k \in Keys, pc \in Answers, a, b \in Nat :
                 Answered(k, pc, a, b)' = Answered(k, pc, a, b)
           /\ FiniteInv => FiniteInv'
<1>1. ASSUME NEW k \in Keys, NEW pc \in Answers, NEW a \in Nat, NEW b \in Nat
      PROVE  Answered(k, pc, a, b)' = Answered(k, pc, a, b)
  BY DEF Answered, Steady
<1>2. {r \in Requests : req[r].pc \in Answers}' = {r \in Requests : req[r].pc \in Answers}
  BY DEF Steady
<1> QED
  BY <1>1, <1>2 DEF FiniteInv

LEMMA NewAnswer ==
    ASSUME BaseInv, NEW r \in Requests, NEW pc \in Answers, req[r].pc = "found",
           Answer(r, pc)
    PROVE  /\ \A k \in Keys, p \in Answers, a, b \in Nat :
                 /\ r \notin Answered(k, p, a, b)
                 /\ Answered(k, p, a, b)' =
                       IF p = pc /\ k = req[r].key /\ now \in a..b
                       THEN Answered(k, p, a, b) \cup {r} ELSE Answered(k, p, a, b)
           /\ FiniteInv => FiniteInv'
<1>1. /\ \A q \in Requests \ {r} : req'[q] = req[q]
      /\ req'[r].pc = pc /\ req'[r].key = req[r].key /\ req'[r].at = now
  BY AnswerStep
<1>2. ASSUME NEW k \in Keys, NEW p \in Answers, NEW a \in Nat, NEW b \in Nat
      PROVE  /\ r \notin Answered(k, p, a, b)
             /\ Answered(k, p, a, b)' =
                   IF p = pc /\ k = req[r].key /\ now \in a..b
                   THEN Answered(k, p, a, b) \cup {r} ELSE Answered(k, p, a, b)
  <2>1. p # "found"
    BY DEF Answers
  <2> QED
    BY <1>1, <2>1 DEF Answered
<1>3. {q \in Requests : req'[q].pc \in Answers} =
        {q \in Requests : req[q].pc \in Answers} \cup {r}
  BY <1>1
<1>4. FiniteInv => FiniteInv'
  <2>1. IsFiniteSet({q \in Requests : req[q].pc \in Answers})
          => IsFiniteSet({q \in Requests : req[q].pc \in Answers} \cup {r})
    BY FS_AddElement
  <2> QED
    BY <1>3, <2>1 DEF FiniteInv
<1> QED
  BY <1>2, <1>4

\* Requests are counted once.
LEMMA CountAnswers ==
    ASSUME FiniteInv, NEW k \in Keys, NEW pc \in Answers, NEW a \in Nat, NEW b \in Nat
    PROVE  /\ IsFiniteSet(Answered(k, pc, a, b))
           /\ Cardinality(Answered(k, pc, a, b)) \in Nat
           /\ \A r : r \notin Answered(k, pc, a, b) =>
                 Cardinality(Answered(k, pc, a, b) \cup {r}) =
                     Cardinality(Answered(k, pc, a, b)) + 1
<1>1. Answered(k, pc, a, b) \subseteq {r \in Requests : req[r].pc \in Answers}
  BY DEF Answered
<1>2. IsFiniteSet(Answered(k, pc, a, b))
  BY <1>1, FS_Subset DEF FiniteInv
<1> QED
  BY <1>2, FS_CardinalityType, FS_AddElement

\* What has been answered is not answered in the future.
LEMMA PastAnswers ==
    ASSUME BaseInv, NEW k \in Keys, NEW pc \in Answers, NEW a \in Nat, NEW b \in Nat,
           now <= b
    PROVE  /\ Answered(k, pc, a, b) = Answered(k, pc, a, now)
           /\ now < a => Answered(k, pc, a, b) = {}
<1>1. now \in Nat /\ \A r \in Requests : req[r].at \in Nat /\ req[r].at <= now
  BY LimiterAssumption DEF BaseInv, TypeOK, ClockInv, RequestState
<1> QED
  BY <1>1 DEF Answered

LEMMA UnlimitedIsSteady ==
    ASSUME BaseInv, NEW r \in Requests, Unlimited(r)
    PROVE  Steady
  BY UnlimitedStep DEF Steady, Answers

LEMMA FoundIsSteady ==
    ASSUME BaseInv, NEW r \in Requests, NEW k \in Keys, NEW lim, Found(r, k, lim)
    PROVE  Steady
<1>1. req[r].pc = "new"
  BY DEF Found
<1>2. req'[r].pc = "found" /\ \A q \in Requests \ {r} : req'[q] = req[q]
  BY FoundStep
<1> QED
  BY <1>1, <1>2 DEF Steady, Answers

-----------------------------------------------------------------------------
\* The bound on what is admitted.

\* A longer window allows what the bucket earns in between, and after QuietTime
\* a whole bucket more.
LEMMA AllowanceGrows ==
    ASSUME MaxPause <= IdleLimit, NEW d \in Nat
    PROVE  /\ QuietTime \in Nat \ {0}
           /\ Allowance(d) \in Nat
           /\ Burst <= Allowance(d)
           /\ Allowance(d) + Rate <= Allowance(d + 1)
           /\ Allowance(d) + Burst <= Allowance(d + QuietTime)
<1>1. QuietTime \in Nat \ {0}
  BY LimiterAssumption DEF QuietTime
<1>2. PICK q \in Nat \ {0} : q = QuietTime
  BY <1>1
<1>3. Rate \in Nat /\ Burst \in Nat /\ Rate * q \in Nat
  BY <1>2, Positive
<1>4. PICK g \in Nat : g = Gain /\ Burst <= Rate * q + g
  <2>1. PICK n \in Nat : n = Rate * q
    BY <1>3
  <2>2. Gain = IF Burst > n THEN Burst - n ELSE 0
    BY <1>2, <2>1 DEF Gain
  <2>3. Gain \in Nat /\ Burst <= n + Gain
    BY <1>3, <2>2
  <2> QED
    BY <2>1, <2>3
<1>5. /\ d \div q \in Nat
      /\ (d + 1) \div q \in Nat
      /\ d \div q <= (d + 1) \div q
      /\ (d + q) \div q = d \div q + 1
  OBVIOUS
<1>6. PICK m \in Nat : m = d \div q
  BY <1>5
<1>7. PICK n \in Nat : n = (d + 1) \div q
  BY <1>5
<1>8. /\ Allowance(d) = Burst + Rate * d + g * m
      /\ Allowance(d + 1) = Burst + Rate * (d + 1) + g * n
      /\ Allowance(d + q) = Burst + Rate * (d + q) + g * (m + 1)
  BY <1>2, <1>4, <1>5, <1>6, <1>7 DEF Allowance
<1>9. /\ g * m \in Nat /\ g * n \in Nat /\ g * m <= g * n /\ g * (m + 1) = g * m + g
  BY <1>5, <1>6, <1>7, Product, ProductMonotonic
<1>10. /\ Rate * d \in Nat /\ Rate * (d + 1) = Rate * d + Rate
       /\ Rate * (d + q) = Rate * d + Rate * q
  BY Positive, Product
<1> QED
  BY <1>1, <1>2, <1>3, <1>4, <1>8, <1>9, <1>10, Positive

LEMMA BoundInit ==
    ASSUME MaxPause <= IdleLimit, Init
    PROVE  BoundInv
<1>1. \A r \in Requests : req[r].pc = "new"
  BY DEF Init
<1>2. {r \in Requests : req[r].pc \in Answers} = {}
  BY <1>1 DEF Answers
<1>3. \A k \in Keys, a, b \in Nat : Answered(k, "admitted", a, b) = {}
  BY <1>1 DEF Answered
<1>4. now = 0 /\ \A k \in Keys : Tokens(k) = Burst
  BY DEF Init, Tokens
<1>5. 0..0 = {0} /\ Burst <= Allowance(0 - 0) /\ Allowance(0 - 0) \in Nat
  BY AllowanceGrows
<1>6. FiniteInv
  BY <1>2, FS_EmptySet DEF FiniteInv
<1>7. EarnedInv
  <2>1. \A k \in Keys : Cardinality(Since(k, 0)) = 0
    BY <1>3, <1>4, FS_EmptySet DEF Since
  <2> QED
    BY <1>4, <1>5, <2>1, Positive DEF EarnedInv
<1>8. RateBound
  <2>1. \A k \in Keys : Cardinality(Answered(k, "admitted", 0, 0)) = 0
    BY <1>3, FS_EmptySet
  <2> QED
    BY <1>4, <1>5, <2>1, Positive DEF RateBound
<1> QED
  BY <1>6, <1>7, <1>8 DEF BoundInv

BoundTypeOK ==
    \A k \in Keys, a \in Nat :
        Tokens(k) \in 0..Burst /\ Cardinality(Since(k, a)) \in Nat

LEMMA BoundType == BaseInv /\ FiniteInv => BoundTypeOK
<1> SUFFICES ASSUME BaseInv, FiniteInv, NEW k \in Keys, NEW a \in Nat
             PROVE  Tokens(k) \in 0..Burst /\ Cardinality(Since(k, a)) \in Nat
  BY DEF BoundTypeOK
<1>1. now \in Nat /\ "admitted" \in Answers
  BY LimiterAssumption DEF BaseInv, TypeOK, Answers
<1> QED
  BY <1>1, TokensType, CountAnswers DEF Since

\* A window of time that ends now is within the bound by EarnedInv, and one that
\* has ended before stays as it was.
LEMMA WindowsClose ==
    ASSUME MaxPause <= IdleLimit,
           BaseInv, BaseInv', BoundInv, FiniteInv', EarnedInv', now <= now',
           NEW k \in Keys, NEW a \in Nat, NEW b \in 0..now', a <= b,
           b < now' => b <= now /\
               Answered(k, "admitted", a, b)' = Answered(k, "admitted", a, b)
    PROVE  Cardinality(Answered(k, "admitted", a, b)') <= Allowance(b - a)
<1>1. now \in Nat /\ now' \in Nat /\ b \in Nat
  BY LimiterAssumption DEF BaseInv, TypeOK
<1>2. CASE b < now'
  <2>1. b \in 0..now /\ a \in 0..b
    BY <1>1, <1>2
  <2>2. Cardinality(Answered(k, "admitted", a, b)) <= Allowance(b - a)
    BY <2>1 DEF BoundInv, RateBound
  <2> QED
    BY <1>2, <2>2
<1>3. CASE b = now'
  <2> DEFINE S == Answered(k, "admitted", a, b)
  <2>1. a \in 0..now'
    BY <1>1, <1>3
  <2>2. (Cardinality(Since(k, a)) + Tokens(k))' <= (Allowance(now - a))'
    BY <2>1 DEF EarnedInv
  <2>3. Tokens(k)' \in 0..Burst /\ Cardinality(Since(k, a))' \in Nat
    <3>1. BaseInv' /\ FiniteInv' => BoundTypeOK'
      BY BoundType, PTL
    <3> QED
      BY <3>1 DEF BoundTypeOK
  <2>4. S' = Since(k, a)'
    BY <1>3 DEF Since, Answered
  <2>5. Allowance(b - a) \in Nat
    BY <1>1, AllowanceGrows
  <2> QED
    BY <1>1, <1>3, <2>2, <2>3, <2>4, <2>5, Positive
<1> QED
  BY <1>1, <1>2, <1>3

\* A key that has been quiet can be given a full bucket.
LEMMA QuietIsEarned ==
    ASSUME MaxPause <= IdleLimit, BaseInv, BoundInv, NEW k \in Keys, Quiet(k),
           NEW a \in 0..now
    PROVE  Cardinality(Since(k, a)) + Burst <= Allowance(now - a)
<1>1. /\ now \in Nat /\ QuietTime \in Nat \ {0}
      /\ \A r \in Requests : req[r].at \in Nat
  BY LimiterAssumption, AllowanceGrows DEF BaseInv, TypeOK, RequestState
<1>2. CASE now < a + QuietTime
  <2>1. Since(k, a) = {}
    BY <1>1, <1>2 DEF Since, Answered, Quiet, Answers
  <2>2. now - a \in Nat
    BY <1>1
  <2> QED
    BY <2>1, <2>2, FS_EmptySet, AllowanceGrows, Positive
<1>3. CASE a + QuietTime <= now
  <2>1. PICK b \in 0..now : b = now - QuietTime /\ a \in 0..b /\ b - a \in Nat
    BY <1>1, <1>3
  <2>2. Since(k, a) = Answered(k, "admitted", a, b)
    <3>1. \A r \in Requests : req[r].pc = "admitted" /\ req[r].key = k => req[r].at <= b
      BY <1>1, <2>1 DEF Quiet, Answers
    <3> QED
      BY <1>1, <2>1, <3>1 DEF Since, Answered
  <2>3. Cardinality(Answered(k, "admitted", a, b)) <= Allowance(b - a)
    BY <2>1 DEF BoundInv, RateBound
  <2>4. now - a = (b - a) + QuietTime
    BY <1>1, <2>1
  <2>5. /\ Allowance(b - a) + Burst <= Allowance(now - a)
        /\ Allowance(b - a) \in Nat /\ Allowance(now - a) \in Nat
    BY <1>1, <2>1, <2>4, AllowanceGrows
  <2>6. Cardinality(Since(k, a)) \in Nat
    BY <1>1, BoundType DEF BoundInv, BoundTypeOK
  <2> QED
    BY <2>2, <2>3, <2>5, <2>6, Positive
<1> QED
  BY <1>1, <1>2, <1>3

\* A step that answers nothing leaves k its tokens, or fills the bucket of a
\* key that has been quiet.
KeptOrFull(k) == Tokens(k)' = Tokens(k) \/ (Tokens(k)' = Burst /\ Quiet(k))

LEMMA BoundSteady ==
    ASSUME MaxPause <= IdleLimit, BaseInv, BaseInv', BoundInv, Steady, now' = now,
           \A k \in Keys : KeptOrFull(k)
    PROVE  BoundInv'
<1>1. now \in Nat /\ "admitted" \in Answers
  BY LimiterAssumption DEF BaseInv, TypeOK, Answers
<1>2. FiniteInv'
  BY SteadyAnswers DEF BoundInv
<1>3. \A k \in Keys, a, b \in Nat :
        Answered(k, "admitted", a, b)' = Answered(k, "admitted", a, b)
  BY <1>1, SteadyAnswers
<1>4. EarnedInv'
  <2> SUFFICES ASSUME NEW k \in Keys, NEW a \in 0..now
               PROVE  Cardinality(Since(k, a)') + Tokens(k)' <= Allowance(now - a)
    BY DEF EarnedInv, Allowance
  <2>1. Since(k, a)' = Since(k, a)
    <3>1. Answered(k, "admitted", a, now)' = Answered(k, "admitted", a, now)
      <4>1. PICK n \in Nat : n = now
        BY <1>1
      <4>2. Answered(k, "admitted", a, n)' = Answered(k, "admitted", a, n)
        BY <1>1, <1>3
      <4> QED
        BY <4>1, <4>2 DEF Answered
    <3> QED
      BY <3>1 DEF Since
  <2>2. CASE Tokens(k)' = Tokens(k)
    BY <2>1, <2>2 DEF BoundInv, EarnedInv
  <2>3. CASE Tokens(k)' = Burst /\ Quiet(k)
    BY <2>1, <2>3, QuietIsEarned
  <2> QED
    BY <2>2, <2>3 DEF KeptOrFull
<1>5. RateBound'
  <2> SUFFICES ASSUME NEW k \in Keys, NEW b \in 0..now', NEW a \in 0..b
               PROVE  Cardinality(Answered(k, "admitted", a, b)') <= Allowance(b - a)
    BY DEF RateBound
  <2> QED
    BY <1>1, <1>2, <1>3, <1>4, WindowsClose
<1> QED
  BY <1>2, <1>4, <1>5 DEF BoundInv

LEMMA BoundTick ==
    ASSUME MaxPause <= IdleLimit, BaseInv, BaseInv', BoundInv, Tick
    PROVE  BoundInv'
<1>1. /\ now \in Nat /\ now' = now + 1 /\ req' = req /\ "admitted" \in Answers
  BY LimiterAssumption DEF Tick, BaseInv, TypeOK, Answers
<1>2. Steady
  BY <1>1 DEF Steady
<1>3. FiniteInv'
  BY <1>2, SteadyAnswers DEF BoundInv
<1>4. \A k \in Keys, a, b \in Nat :
        Answered(k, "admitted", a, b)' = Answered(k, "admitted", a, b)
  BY <1>1, <1>2, SteadyAnswers
<1>5. EarnedInv'
  <2> SUFFICES ASSUME NEW k \in Keys, NEW a \in 0..(now + 1)
               PROVE  Cardinality(Since(k, a)') + Tokens(k)' <= Allowance(now + 1 - a)
    BY <1>1 DEF EarnedInv, Allowance
  <2>1. Since(k, a)' = Answered(k, "admitted", a, now + 1)
    BY <1>1 DEF Since, Answered
  <2>2. CASE a = now + 1
    <3>1. Since(k, a)' = {}
      BY <1>1, <2>1, <2>2, PastAnswers
    <3>2. Tokens(k)' \in 0..Burst
      <4>1. BaseInv' /\ FiniteInv' => BoundTypeOK'
        BY BoundType, PTL
      <4> QED
        BY <1>1, <1>3, <2>2, <4>1 DEF BoundTypeOK
    <3>3. Burst <= Allowance(now + 1 - a) /\ Allowance(now + 1 - a) \in Nat
      <4>1. now + 1 - a \in Nat
        BY <1>1, <2>2
      <4> QED
        BY <4>1, AllowanceGrows
    <3> QED
      BY <3>1, <3>2, <3>3, FS_EmptySet, Positive
  <2>3. CASE a \in 0..now
    <3>1. Since(k, a)' = Since(k, a)
      BY <1>1, <2>1, <2>3, PastAnswers DEF Since
    <3>2. Tokens(k) \in 0..Burst /\ Cardinality(Since(k, a)) \in Nat
      BY <1>1, <2>3, BoundType DEF BoundInv, BoundTypeOK
    <3>3. Tokens(k)' <= Tokens(k) + Rate
      BY <3>2, TokensTick, Positive
    <3>4. Cardinality(Since(k, a)) + Tokens(k) <= Allowance(now - a)
      BY <2>3 DEF BoundInv, EarnedInv
    <3>5. /\ Allowance(now - a) + Rate <= Allowance(now + 1 - a)
          /\ Allowance(now - a) \in Nat /\ Allowance(now + 1 - a) \in Nat
      <4>1. now - a \in Nat /\ now + 1 - a = (now - a) + 1
        BY <1>1, <2>3
      <4> QED
        BY <4>1, AllowanceGrows
    <3>6. Tokens(k)' \in Nat
      BY <3>2, TokensTick, Positive
    <3> QED
      BY <3>1, <3>2, <3>3, <3>4, <3>5, <3>6, Positive
  <2> QED
    BY <1>1, <2>2, <2>3
<1>6. RateBound'
  <2> SUFFICES ASSUME NEW k \in Keys, NEW b \in 0..now', NEW a \in 0..b
               PROVE  Cardinality(Answered(k, "admitted", a, b)') <= Allowance(b - a)
    BY DEF RateBound
  <2>1. b < now' => b <= now
    BY <1>1
  <2> QED
    BY <1>1, <1>3, <1>4, <1>5, <2>1, WindowsClose
<1> QED
  BY <1>3, <1>5, <1>6 DEF BoundInv

\* The tokens of k after an answer pc to r.
Left(k, r, pc) == IF pc = "admitted" /\ k = req[r].key THEN Tokens(k) - 1 ELSE Tokens(k)

LEMMA BoundAnswered ==
    ASSUME MaxPause <= IdleLimit, BaseInv, BaseInv', BoundInv, NEW r \in Requests, NEW pc \in Answers,
           req[r].pc = "found", Answer(r, pc),
           \A k \in Keys : Tokens(k)' = Left(k, r, pc)
    PROVE  BoundInv'
<1>1. now \in Nat /\ now' = now /\ "admitted" \in Answers
  BY LimiterAssumption DEF Answer, BaseInv, TypeOK, Answers
<1>2. FiniteInv'
  BY NewAnswer DEF BoundInv
<1>3. ASSUME NEW k \in Keys, NEW a \in Nat, NEW b \in Nat
      PROVE  /\ r \notin Answered(k, "admitted", a, b)
             /\ Answered(k, "admitted", a, b)' =
                   IF "admitted" = pc /\ k = req[r].key /\ now \in a..b
                   THEN Answered(k, "admitted", a, b) \cup {r}
                   ELSE Answered(k, "admitted", a, b)
  BY <1>1, NewAnswer
<1>4. EarnedInv'
  <2> SUFFICES ASSUME NEW k \in Keys, NEW a \in 0..now
               PROVE  Cardinality(Since(k, a)') + Tokens(k)' <= Allowance(now - a)
    BY <1>1 DEF EarnedInv, Allowance
  <2>1. PICK n \in Nat : n = now
    BY <1>1
  <2>2. Since(k, a)' = Answered(k, "admitted", a, n)' /\ Since(k, a) = Answered(k, "admitted", a, n)
    BY <1>1, <2>1 DEF Since, Answered
  <2>3. now \in a..n
    BY <1>1, <2>1
  <2>4. /\ r \notin Since(k, a)
        /\ Since(k, a)' = IF "admitted" = pc /\ k = req[r].key THEN Since(k, a) \cup {r}
                          ELSE Since(k, a)
    BY <1>3, <2>1, <2>2, <2>3
  <2>5. Cardinality(Since(k, a)) + Tokens(k) <= Allowance(now - a)
    BY DEF BoundInv, EarnedInv
  <2>6. /\ Tokens(k) \in 0..Burst /\ Cardinality(Since(k, a)) \in Nat
        /\ Cardinality(Since(k, a) \cup {r}) = Cardinality(Since(k, a)) + 1
    BY <1>1, <2>1, <2>2, <2>4, BoundType, CountAnswers DEF BoundInv, BoundTypeOK
  <2>7. Cardinality(Since(k, a)') + Tokens(k)' = Cardinality(Since(k, a)) + Tokens(k)
    BY <2>4, <2>6, Positive DEF Left
  <2> QED
    BY <2>5, <2>7
<1>5. RateBound'
  <2> SUFFICES ASSUME NEW k \in Keys, NEW b \in 0..now', NEW a \in 0..b
               PROVE  Cardinality(Answered(k, "admitted", a, b)') <= Allowance(b - a)
    BY DEF RateBound
  <2>1. b < now' => b <= now /\ Answered(k, "admitted", a, b)' = Answered(k, "admitted", a, b)
    <3>1. b < now' => now \notin a..b
      BY <1>1
    <3> QED
      BY <1>1, <1>3, <3>1
  <2> QED
    BY <1>1, <1>2, <1>4, <2>1, WindowsClose
<1> QED
  BY <1>2, <1>4, <1>5 DEF BoundInv

LEMMA BoundStep ==
    ASSUME MaxPause <= IdleLimit, BaseInv, BaseInv', HoldInv, BoundInv, [Next]_vars
    PROVE  BoundInv'
<1>1. CASE UNCHANGED vars
  BY <1>1 DEF vars, BoundInv, FiniteInv, EarnedInv, RateBound, Since, Answered, Tokens, Available
<1>2. CASE Tick
  BY <1>2, BoundTick
<1>3. ASSUME NEW r \in Requests, Unlimited(r)
      PROVE  BoundInv'
  <2>1. UNCHANGED <<now, buckets, lims>>
    BY <1>3 DEF Unlimited
  <2>2. \A k \in Keys : Tokens(k)' = Tokens(k)
    BY <2>1 DEF Tokens, Available
  <2>3. \A k \in Keys : KeptOrFull(k)
    BY <2>2 DEF KeptOrFull
  <2> QED
    BY <1>3, <2>1, <2>3, UnlimitedIsSteady, BoundSteady
<1>4. ASSUME NEW r \in Requests, FindBucket(r)
      PROVE  BoundInv'
  <2>0. PICK k \in Keys : \E lim : Found(r, k, lim)
    BY <1>4, FindBucketFinds
  <2>1. PICK lim : Found(r, k, lim)
    BY <2>0
  <2>2. now' = now
    BY <2>1 DEF Found
  <2>3. \A j \in Keys : KeptOrFull(j)
    BY <2>1, TokensFound, IdleIsQuiet DEF KeptOrFull
  <2> QED
    BY <2>1, <2>2, <2>3, FoundIsSteady, BoundSteady
<1>5. ASSUME NEW r \in Requests, Admit(r)
      PROVE  BoundInv'
  <2>1. req[r].pc = "found" /\ Answer(r, "admitted") /\ "admitted" \in Answers
    BY <1>5 DEF Admit, Answers
  <2>2. \A k \in Keys : Tokens(k)' = Left(k, r, "admitted")
    <3>1. req[r].key \in Keys
      BY <2>1, HeldByOneKey
    <3>2. ASSUME NEW k \in Keys, k = req[r].key
          PROVE  Tokens(k)' = Tokens(k) - 1 /\ \A j \in Keys \ {k} : Tokens(j)' = Tokens(j)
      BY <1>5, <3>2, TokensAdmit
    <3> QED
      BY <3>1, <3>2 DEF Left
  <2> QED
    BY <2>1, <2>2, BoundAnswered
<1>6. ASSUME NEW r \in Requests, Refuse(r)
      PROVE  BoundInv'
  <2>1. req[r].pc = "found" /\ Answer(r, "refused") /\ "refused" \in Answers
    BY <1>6 DEF Refuse, Answers
  <2>2. \A k \in Keys : Tokens(k)' = Left(k, r, "refused")
    BY <1>6, TokensRefuse DEF Left
  <2> QED
    BY <2>1, <2>2, BoundAnswered
<1> QED
  BY <1>1, <1>2, <1>3, <1>4, <1>5, <1>6 DEF Next

LEMMA BoundInvariance ==
    ASSUME MaxPause <= IdleLimit
    PROVE  Spec => [](BaseInv /\ HoldInv /\ BoundInv)
<1>1. Init => BaseInv /\ HoldInv /\ BoundInv
  BY BaseInit, HoldInit, BoundInit
<1>2. BaseInv /\ HoldInv /\ BoundInv /\ [Next]_vars => (BaseInv /\ HoldInv /\ BoundInv)'
  BY BaseStep, HoldStep, BoundStep
<1> QED
  BY <1>1, <1>2, PTL DEF Spec

\* In any window of time, and for any configured rate, burst and IdleLimit, a
\* key is admitted at most what a token bucket allows and Gain for every time
\* its bucket may have been dropped, although buckets are dropped and made anew
\* and limiters are used outside the mutex.
THEOREM RateIsBounded ==
    ASSUME MaxPause <= IdleLimit
    PROVE  Spec => []RateBound
<1>1. BaseInv /\ HoldInv /\ BoundInv => RateBound
  BY DEF BoundInv
<1> QED
  BY <1>1, BoundInvariance, PTL

\* Where a bucket fills up before it can be dropped, dropping it gains nothing.
LEMMA NothingGained ==
    ASSUME MaxPause <= IdleLimit, Burst <= Rate * QuietTime, NEW d \in Nat
    PROVE  Allowance(d) = Burst + Rate * d
<1>1. Gain = 0
  BY AllowanceGrows, Positive, Product DEF Gain
<1>2. PICK q \in Nat \ {0} : q = QuietTime
  BY AllowanceGrows
<1>3. d \div q \in Nat
  OBVIOUS
<1> QED
  BY <1>1, <1>2, <1>3, Positive, Product DEF Allowance

-----------------------------------------------------------------------------
\* The token buckets the limiter implements.

LEMMA RefineInit == Init => Bucket!Init
<1> SUFFICES ASSUME Init PROVE Bucket!Init
  OBVIOUS
<1>1. \A k \in Keys : Tokens(k) = Burst
  BY DEF Init, Tokens
<1>2. Given = {}
  BY DEF Init, Given
<1> QED
  BY <1>1, <1>2 DEF Init, Bucket!Init

\* The answer to r, as it is given.
Says(r) == [request |-> r, key |-> req[r].key, says |-> req[r].pc, at |-> req[r].at]

LEMMA GivenSays ==
    /\ Given = {Says(r) : r \in {q \in Requests : req[q].pc \in Answers}}
    /\ \A r : /\ Says(r).request = r /\ Says(r).key = req[r].key
              /\ Says(r).at = req[r].at
<1>1. Given = {Says(r) : r \in {q \in Requests : req[q].pc \in Answers}}
  BY DEF Given, Says, Answers
<1>2. \A r : /\ Says(r).request = r /\ Says(r).key = req[r].key
             /\ Says(r).at = req[r].at
  BY DEF Says
<1> QED
  BY <1>1, <1>2

LEMMA GivenSteady ==
    ASSUME Steady
    PROVE  Given' = Given
<1>1. \A q \in Requests : req[q].pc \in Answers => Says(q)' = Says(q)
  BY DEF Steady, Says
<1>2. {q \in Requests : req[q].pc \in Answers}' = {q \in Requests : req[q].pc \in Answers}
  BY DEF Steady
<1>3. Given' = {Says(r)' : r \in {q \in Requests : req[q].pc \in Answers}'}
  BY DEF Given, Says, Answers
<1> QED
  BY <1>1, <1>2, <1>3, GivenSays

LEMMA GivenAnswered ==
    ASSUME BaseInv, NEW r \in Requests, NEW pc \in Answers,
           req[r].pc = "found", Answer(r, pc)
    PROVE  Bucket!Say(r, req[r].key, pc)
<1>1. /\ \A q \in Requests \ {r} : req'[q] = req[q]
      /\ req'[r].pc = pc /\ req'[r].key = req[r].key /\ req'[r].at = now
      /\ now' = now
  BY AnswerStep
<1> DEFINE e == [request |-> r, key |-> req[r].key, says |-> pc, at |-> now]
<1>2. /\ Says(r)' = e
      /\ \A q \in Requests \ {r} : Says(q)' = Says(q)
  BY <1>1 DEF Says
<1>3. {q \in Requests : req[q].pc \in Answers}' =
        {q \in Requests : req[q].pc \in Answers} \cup {r}
  BY <1>1
<1>4. r \notin {q \in Requests : req[q].pc \in Answers}
  BY DEF Answers
<1>5. Given' = {Says(q)' : q \in {p \in Requests : req[p].pc \in Answers}'}
  BY DEF Given, Says, Answers
<1>6. Given' = Given \cup {e}
  <2> HIDE DEF e
  <2> QED
    BY <1>2, <1>3, <1>4, <1>5, GivenSays
<1>7. \A a \in Given : a.request # r
  BY <1>4, GivenSays
<1> QED
  BY <1>1, <1>6, <1>7 DEF Bucket!Say

LEMMA QuietIsQuiet ==
    ASSUME NEW k \in Keys, Quiet(k)
    PROVE  Bucket!Quiet(k)
<1> SUFFICES ASSUME NEW e \in Given, e.key = k
             PROVE  e.at + QuietTime <= now
  BY DEF Bucket!Quiet
<1>1. PICK r \in Requests : req[r].pc \in Answers /\ e = Says(r)
  BY GivenSays
<1> QED
  BY <1>1, GivenSays DEF Quiet

LEMMA RefineStep ==
    ASSUME BaseInv, HoldInv, [Next]_vars
    PROVE  [Bucket!Next]_(Bucket!vars)
<1> DEFINE tokens == [k \in Keys |-> Tokens(k)]
<1>0. "admitted" \in Answers /\ "refused" \in Answers
  BY DEF Answers
<1>1. CASE UNCHANGED vars
  BY <1>1 DEF vars, Bucket!vars, Given, Tokens, Available
<1>2. CASE Tick
  <2>1. Steady /\ now' = now + 1
    BY <1>2 DEF Tick, Steady
  <2>2. \A k \in Keys : Tokens(k)' = Bucket!Refill(Tokens(k))
    BY <1>2, TokensTick DEF Bucket!Refill
  <2>3. Bucket!Tick
    BY <2>1, <2>2, GivenSteady DEF Bucket!Tick
  <2> QED
    BY <2>3 DEF Bucket!Next
<1>3. ASSUME NEW r \in Requests, Unlimited(r)
      PROVE  UNCHANGED Bucket!vars
  <2>1. UNCHANGED <<now, buckets, lims>>
    BY <1>3 DEF Unlimited
  <2>2. \A k \in Keys : Tokens(k)' = Tokens(k)
    BY <2>1 DEF Tokens, Available
  <2> QED
    BY <1>3, <2>1, <2>2, UnlimitedIsSteady, GivenSteady DEF Bucket!vars
<1>4. ASSUME NEW r \in Requests, FindBucket(r)
      PROVE  Bucket!Next
  <2>0. PICK k \in Keys : \E lim : Found(r, k, lim)
    BY <1>4, FindBucketFinds
  <2>1. PICK lim : Found(r, k, lim)
    BY <2>0
  <2>2. Given' = Given /\ now' = now
    BY <2>1, FoundIsSteady, GivenSteady DEF Found
  <2> DEFINE dropped == {j \in Keys : Idle(j) /\ SweepDue}
  <2>3. dropped \in SUBSET {j \in Keys : Bucket!Quiet(j)}
    BY IdleIsQuiet, QuietIsQuiet
  <2>4. \A j \in Keys : Tokens(j)' = IF j \in dropped THEN Burst ELSE tokens[j]
    BY <2>1, TokensFound
  <2>5. tokens' = [j \in Keys |-> IF j \in dropped THEN Burst ELSE tokens[j]]
    BY <2>4
  <2> HIDE DEF dropped
  <2>6. Bucket!Forget
    BY <2>2, <2>3, <2>5 DEF Bucket!Forget
  <2> QED
    BY <2>6 DEF Bucket!Next
<1>5. ASSUME NEW r \in Requests, Admit(r)
      PROVE  Bucket!Next
  <2>1. req[r].pc = "found" /\ Answer(r, "admitted")
    BY <1>5 DEF Admit
  <2>2. PICK k \in Keys : k = req[r].key
    BY <2>1, HeldByOneKey
  <2>3. /\ Tokens(k) > 0 /\ Tokens(k)' = Tokens(k) - 1
        /\ \A j \in Keys \ {k} : Tokens(j)' = Tokens(j)
    BY <1>5, <2>2, TokensAdmit
  <2>4. Bucket!Say(r, k, "admitted")
    BY <1>0, <2>1, <2>2, GivenAnswered
  <2>5. tokens[k] > 0 /\ tokens' = [tokens EXCEPT ![k] = tokens[k] - 1]
    BY <2>3
  <2>6. Bucket!Admit(r, k)
    BY <2>4, <2>5 DEF Bucket!Admit
  <2> QED
    BY <2>6 DEF Bucket!Next
<1>6. ASSUME NEW r \in Requests, Refuse(r)
      PROVE  Bucket!Next
  <2>1. req[r].pc = "found" /\ Answer(r, "refused")
    BY <1>6 DEF Refuse
  <2>2. PICK k \in Keys : k = req[r].key
    BY <2>1, HeldByOneKey
  <2>3. Tokens(k) = 0 /\ \A j \in Keys : Tokens(j)' = Tokens(j)
    BY <1>6, <2>2, TokensRefuse
  <2>4. Bucket!Say(r, k, "refused")
    BY <1>0, <2>1, <2>2, GivenAnswered
  <2>5. tokens[k] = 0 /\ tokens' = tokens
    BY <2>3
  <2>6. Bucket!Refuse(r, k)
    BY <2>4, <2>5 DEF Bucket!Refuse
  <2> QED
    BY <2>6 DEF Bucket!Next
<1> QED
  BY <1>1, <1>2, <1>3, <1>4, <1>5, <1>6 DEF Next

\* The limiter, its concurrent requests, lazy refilling and sweeps included, is
\* one token bucket per key, for any configured rate, burst and IdleLimit: a
\* request is refused only when its key has no token left, and a bucket is
\* forgotten only when its key has had no answer for QuietTime.
THEOREM LimiterIsTokenBucket ==
    ASSUME MaxPause <= IdleLimit
    PROVE  Spec => ImplementsTokenBucket
<1>1. BaseInv /\ HoldInv /\ [Next]_vars => [Bucket!Next]_(Bucket!vars)
  BY RefineStep
<1> QED
  BY <1>1, RefineInit, HoldInvariance, PTL DEF Spec, ImplementsTokenBucket, Bucket!Spec

=============================================================================
