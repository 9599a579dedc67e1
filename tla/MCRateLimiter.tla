---------------------------- MODULE MCRateLimiter ----------------------------
(***************************************************************************)
(* An instance of RateLimiter for TLC: a social user whose token expires   *)
(* at 4 and who is then known by an address shared with an anonymous       *)
(* caller, who also asks for a page outside /api/; and a privileged user.  *)
(***************************************************************************)
EXTENDS RateLimiter, TLC

CONSTANTS home, office, ada, bob

caller(ip, sub, role, expires, api) ==
    [ip |-> ip, sub |-> sub, role |-> role, expires |-> expires, api |-> api]

MixedCallers == {caller(home, ada, "social", 4, TRUE),
                 caller(home, Anonymous, "social", 0, TRUE),
                 caller(office, bob, "privileged", 100, TRUE),
                 caller(home, Anonymous, "social", 0, FALSE)}

Symmetry == Permutations(Requests)

=============================================================================
