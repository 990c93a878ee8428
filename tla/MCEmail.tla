------------------------------ MODULE MCEmail ------------------------------
(***************************************************************************)
(* TLC instances of EmailDelivery.                                         *)
(***************************************************************************)
EXTENDS EmailDelivery

Faults == EnvEvents
=============================================================================
