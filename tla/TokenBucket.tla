----------------------------- MODULE TokenBucket -----------------------------
(***************************************************************************)
(* What the rate limiter promises its callers: one token bucket per key,   *)
(* full at first and earning Rate tokens per tick.  A request is admitted  *)
(* by taking a token and refused only for want of one.  A bucket may be    *)
(* forgotten, and be full again, but only when its key has had no answer   *)
(* for QuietTime: if Rate * QuietTime fills a bucket, Forget changes       *)
(* nothing and the buckets are never forgotten.                            *)
(***************************************************************************)
EXTENDS Naturals

CONSTANTS Requests, Keys, Burst, Rate, QuietTime

VARIABLES
    clock,    \* the time
    tokens,   \* tokens[k]: what is left in the bucket of k
    answers   \* the answers given: [request, key, says, at]

vars == <<clock, tokens, answers>>

Init ==
    /\ clock = 0
    /\ tokens = [k \in Keys |-> Burst]
    /\ answers = {}

Refill(n) == IF n + Rate > Burst THEN Burst ELSE n + Rate

Tick ==
    /\ clock' = clock + 1
    /\ tokens' = [k \in Keys |-> Refill(tokens[k])]
    /\ UNCHANGED answers

\* A request is answered once.
Say(r, k, says) ==
    /\ \A e \in answers : e.request # r
    /\ answers' = answers \cup
          {[request |-> r, key |-> k, says |-> says, at |-> clock]}
    /\ UNCHANGED clock

Admit(r, k) ==
    /\ tokens[k] > 0
    /\ tokens' = [tokens EXCEPT ![k] = tokens[k] - 1]
    /\ Say(r, k, "admitted")

Refuse(r, k) ==
    /\ tokens[k] = 0
    /\ Say(r, k, "refused")
    /\ UNCHANGED tokens

Quiet(k) == \A e \in answers : e.key = k => e.at + QuietTime <= clock

Forget ==
    /\ \E ks \in SUBSET {k \in Keys : Quiet(k)} :
          tokens' = [k \in Keys |-> IF k \in ks THEN Burst ELSE tokens[k]]
    /\ UNCHANGED <<clock, answers>>

Next ==
    \/ Tick \/ Forget
    \/ \E r \in Requests, k \in Keys : Admit(r, k) \/ Refuse(r, k)

Spec == Init /\ [][Next]_vars

=============================================================================
