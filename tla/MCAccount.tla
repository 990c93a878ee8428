----------------------------- MODULE MCAccount -----------------------------
(***************************************************************************)
(* The TLC instance of Account: slots and accounts are interchangeable.    *)
(***************************************************************************)
EXTENDS Account, TLC

Symmetry == Permutations(Slots) \cup Permutations(Accounts)
=============================================================================
