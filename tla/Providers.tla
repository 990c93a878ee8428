----------------------------- MODULE Providers -----------------------------
(***************************************************************************)
(* The compute providers (backend/app/providers): LocalDockerProvider and  *)
(* ModalGPUProvider behind the ComputeProvider interface, and the runs     *)
(* they own.  A run outlives the process that submitted it; the backend    *)
(* only keeps its handle (a container id or a sandbox id).                 *)
(*                                                                         *)
(* A run is numbered by the provider; 0 (NoRun) is a NULL container_id.    *)
(* Its output is abstracted to what a reader of the log can tell: nothing, *)
(* what was printed so far, or everything.                                 *)
(***************************************************************************)
EXTENDS Naturals

CONSTANTS
    Jobs,       \* job ids
    MaxTries,   \* WorkerSettings.max_tries: arq attempts per task
    Env         \* what the environment may do; see EnvEvents

EnvEvents == {"cancel",    \* the owner cancels jobs
              "timeout",   \* a tracked run reaches MAX_RUNTIME_SECONDS
              "nosubmit",  \* a provider refuses a submission
              "lookup",    \* Modal's Sandbox.from_id raises for a live sandbox
              "outage",    \* a bucket write, or the queueing of an email, fails
              "crash",     \* a run_job attempt ends early: crash, shutdown, exception
              "apicrash"}  \* a request or a sweep raises, or the API process dies

ASSUME JobsAssumption == Jobs # {}
ASSUME MaxTriesAssumption == MaxTries \in Nat \ {0}
ASSUME EnvAssumption == Env \subseteq EnvEvents

\* Every attempt submits at most once, so this many run numbers are enough.
RunIds == 1..MaxTries
NoRun == 0
Handles == RunIds \cup {NoRun}

ProviderTypes == {"local_cpu", "modal_gpu"}
RunStates == {"none", "up", "ok", "bad"}     \* bad: a non-zero exit code
LogLevels == {"absent", "empty", "partial", "full"}

VARIABLES
    provider,   \* jobs.provider_type, chosen once by the request that creates the job
    run,        \* run[j][n]: the state of run n of job j
    gone        \* gone[j]: the local runs whose container was removed

runVars == <<run, gone>>
providerVars == <<provider, runVars>>

ProvidersTypeOK ==
    /\ provider \in [Jobs -> ProviderTypes]
    /\ run \in [Jobs -> [RunIds -> RunStates]]
    /\ gone \in [Jobs -> SUBSET RunIds]

ProvidersInit ==
    /\ provider = [j \in Jobs |-> "local_cpu"]     \* the column's default
    /\ run = [j \in Jobs |-> [n \in RunIds |-> "none"]]
    /\ gone = [j \in Jobs |-> {}]

Local(j) == provider[j] = "local_cpu"

\* Mutation: containers.run without a name.
NameNeverTaken(j) == FALSE

\* A local container keeps its name, tensornest-job-<job id>, until it is
\* removed: while it exists a second containers.run for the job is refused.
NameTaken(j) == Local(j) /\ \E n \in RunIds \ gone[j] : run[j][n] # "none"

\* submit_job, succeeding: the provider starts a fresh run n.
SubmitRun(j, n) ==
    /\ ~NameTaken(j)
    /\ run[j][n] = "none"
    /\ run' = [run EXCEPT ![j][n] = "up"]
    /\ UNCHANGED <<provider, gone>>

\* submit_job may raise: the name is taken, or the provider refuses.
SubmitMayFail(j) == NameTaken(j) \/ "nosubmit" \in Env

\* Mutation: NotFound taken for a container that exited and was cleaned up.
PollGoneSucceeded(j, n) ==
    {CASE n \in gone[j]       -> "succeeded"
       [] run[j][n] = "up"    -> "running"
       [] run[j][n] = "ok"    -> "succeeded"
       [] OTHER               -> "failed"}

\* Mutation: Docker's own container status handed through.
PollDockerStatus(j, n) ==
    {IF run[j][n] = "up" /\ n \notin gone[j] THEN "running" ELSE "exited"}

\* get_status: the answers it may give.  An unknown container, and a sandbox
\* whose lookup raises, are both reported as failed.
PollResults(j, n) ==
    {CASE n \in gone[j]       -> "failed"
       [] run[j][n] = "up"    -> "running"
       [] run[j][n] = "ok"    -> "succeeded"
       [] OTHER               -> "failed"}
    \cup {r \in {"failed"} : ~Local(j) /\ "lookup" \in Env}

\* stream_logs: an unknown container, and a sandbox whose lookup raises, read
\* as an empty log.
LogResults(j, n) ==
    {CASE n \in gone[j]       -> "empty"
       [] run[j][n] = "up"    -> "partial"
       [] OTHER               -> "full"}
    \cup {r \in {"empty"} : ~Local(j) /\ "lookup" \in Env}

\* collect_artifacts finds checkpoints in the job's volume, which all its runs
\* share and which outlives them.  A run that exits 0 has written its checkpoint.
HasCheckpoint(j) == \E n \in RunIds : run[j][n] = "ok"

\* container.stop / sandbox.terminate: a live run exits, with whatever code its
\* signal handling gives it; a finished or unknown one is left alone.
StopRun(j, n) ==
    /\ \E code \in {"ok", "bad"} :
         run' = [run EXCEPT ![j][n] = IF @ = "up" THEN code ELSE @]
    /\ UNCHANGED <<provider, gone>>

\* container.remove(force=True), NotFound ignored.
RemoveRun(j, n) ==
    /\ gone' = [gone EXCEPT ![j] = @ \cup {n}]
    /\ UNCHANGED <<provider, run>>

\* The script ends by itself (or at Modal's own sandbox timeout).
RunExits(j, n) ==
    /\ run[j][n] = "up"
    /\ \E code \in {"ok", "bad"} : run' = [run EXCEPT ![j][n] = code]
    /\ UNCHANGED <<provider, gone>>
=============================================================================
