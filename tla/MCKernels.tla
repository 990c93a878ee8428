----------------------------- MODULE MCKernels -----------------------------
(***************************************************************************)
(* The TLC instance of KernelSessions; its constants are model values.     *)
(***************************************************************************)
EXTENDS KernelSessions
=============================================================================
