------------------------------ MODULE MCAccess ------------------------------
(***************************************************************************)
(* An instance of Access for TLC: a server that is restarted with          *)
(* authentication off, one provider less, and no secret.                   *)
(***************************************************************************)
EXTENDS Access, TLC

CONSTANTS ada, google, apple, key

config(enabled, secret, users, providers) ==
    [enabled |-> enabled, secret |-> secret, users |-> users,
     providers |-> providers]

MCConfigs == {config(FALSE, NoSecret, {ada}, {google}),
              config(TRUE, key, {ada}, {google, apple})}

Symmetry == Permutations(Browsers) \cup Permutations(SignIns)
                \cup Permutations(Callbacks)

=============================================================================
