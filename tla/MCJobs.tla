------------------------------- MODULE MCJobs -------------------------------
(***************************************************************************)
(* TLC instances of JobLifecycle: what the environment may do in each run. *)
(***************************************************************************)
EXTENDS JobLifecycle

\* Everything that makes two actors see a run differently.
Races == {"cancel", "timeout", "lookup", "crash", "apicrash"}

\* Accidents of our own side only: an ended run reads the same to everyone.
Accidents == {"crash", "outage"}

\* Submissions may be refused; nothing else goes wrong.
Refusals == {"nosubmit"}

Cancels == {"cancel"}
=============================================================================
