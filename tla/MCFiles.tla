------------------------------ MODULE MCFiles ------------------------------
(***************************************************************************)
(* TLC instances of DatasetFiles.                                          *)
(***************************************************************************)
EXTENDS DatasetFiles

Everything == EnvEvents
Removals == {"remove"}
=============================================================================
