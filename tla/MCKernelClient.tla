--------------------------- MODULE MCKernelClient ---------------------------
(***************************************************************************)
(* The TLC instance of KernelClient; its constants are model values.       *)
(***************************************************************************)
EXTENDS KernelClient
=============================================================================
