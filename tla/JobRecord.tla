----------------------------- MODULE JobRecord -----------------------------
(***************************************************************************)
(* What the jobs table promises about a job, whoever writes it: the rows   *)
(* as the rest of the system reads them, with no worker, sweep, request or *)
(* provider in sight.  JobLifecycle implements it (a run and a theorem),   *)
(* and JobPages takes it as the server behind the pages.                   *)
(***************************************************************************)
CONSTANTS
    Jobs,
    Runs,       \* handles a provider may return
    NoRun       \* container_id IS NULL

VARIABLES
    status,     \* jobs.status; "none" before the row is there
    container,  \* jobs.container_id
    notified,   \* the statuses the owner was told of
    committed   \* history: the statuses ever committed

recordVars == <<status, container, notified, committed>>

Ended == {"succeeded", "failed"}

RecordInit ==
    /\ status = [j \in Jobs |-> "none"]
    /\ container = [j \in Jobs |-> NoRun]
    /\ notified = [j \in Jobs |-> {}]
    /\ committed = [j \in Jobs |-> {}]

Becomes(j, s) ==
    /\ status' = [status EXCEPT ![j] = s]
    /\ committed' = [committed EXCEPT ![j] = @ \cup {s}]
    /\ UNCHANGED <<container, notified>>

Submitted(j) == status[j] = "none" /\ Becomes(j, "queued")

\* An attempt commits "running" over whatever has become of the job since the
\* row was read (tasks.py:84), be it a cancel.
Started(j) == status[j] # "none" /\ Becomes(j, "running")

\* The handle is recorded once, for good.
Tracked(j) ==
    /\ status[j] # "none"
    /\ container[j] = NoRun
    /\ \E n \in Runs : container' = [container EXCEPT ![j] = n]
    /\ UNCHANGED <<status, notified, committed>>

\* A job fails with or without a run, and succeeds only with one.
EndedAs(j, s) ==
    /\ status[j] # "none"
    /\ s = "succeeded" => container[j] # NoRun
    /\ Becomes(j, s)

\* Whatever else happens meanwhile, cancel_job writes last.
Cancelled(j) == status[j] # "none" /\ Becomes(j, "cancelled")

\* Only what was committed is told, and an outcome or a start only.
Told(j) ==
    /\ \E s \in committed[j] \cap ({"running"} \cup Ended) :
          notified' = [notified EXCEPT ![j] = @ \cup {s}]
    /\ UNCHANGED <<status, container, committed>>

RecordNext ==
    \E j \in Jobs :
        \/ Submitted(j) \/ Started(j) \/ Tracked(j) \/ Cancelled(j) \/ Told(j)
        \/ \E s \in Ended : EndedAs(j, s)

RecordSpec == RecordInit /\ [][RecordNext]_recordVars
=============================================================================
