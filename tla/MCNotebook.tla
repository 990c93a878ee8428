----------------------------- MODULE MCNotebook -----------------------------
(***************************************************************************)
(* The TLC instance of NotebookPage; its constants are model values.       *)
(***************************************************************************)
EXTENDS NotebookPage
=============================================================================
