----------------------------- MODULE MCJobPages -----------------------------
(***************************************************************************)
(* The TLC instance of JobPages; its constants are values.                 *)
(***************************************************************************)
EXTENDS JobPages
=============================================================================
