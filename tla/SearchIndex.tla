----------------------------- MODULE SearchIndex -----------------------------
(***************************************************************************)
(* What package store promises whoever searches, with one variable per way *)
(* of searching: both are sets of <<entry, side, canonical>>.  They change *)
(* together, so every search sees every formula or none of its batch.      *)
(*                                                                         *)
(* This is the promise the code keeps while formula_fts accepts no DELETE: *)
(* a formula is written once, nothing replaces it, and an index that has   *)
(* been emptied is retired: nothing is ever published in it again.         *)
(***************************************************************************)
CONSTANTS EntryIds, Sides, Canonicals

VARIABLES
    exact,    \* what a search by signature can find
    fuzzy,    \* what a search by feature tokens can find
    retired

vars == <<exact, fuzzy, retired>>

Entries == EntryIds \X Sides \X Canonicals

\* One canonical form per side of an entry.
Functional(index) ==
    \A x, y \in index : x[1] = y[1] /\ x[2] = y[2] => x = y

Init ==
    /\ exact = {}
    /\ fuzzy = {}
    /\ retired = FALSE

\* A committed transaction: what was there stays as it was.
Publish ==
    /\ ~retired
    /\ exact \subseteq exact'
    /\ exact' \subseteq Entries
    /\ Functional(exact')
    /\ fuzzy' = exact'
    /\ UNCHANGED retired

\* A rebuild starts: everything goes at once, for good.
Drop ==
    /\ exact # {}
    /\ exact' = {}
    /\ fuzzy' = {}
    /\ retired' = TRUE

Next == Publish \/ Drop

Spec == Init /\ [][Next]_vars

=============================================================================
