------------------------------ MODULE MCLists ------------------------------
(***************************************************************************)
(* The TLC instance of ListPages; its constants are values.  Items are     *)
(* interchangeable, and no temporal property is checked.                   *)
(***************************************************************************)
EXTENDS ListPages, TLC

Symmetry == Permutations(Items)
=============================================================================
