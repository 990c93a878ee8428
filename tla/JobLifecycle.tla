---------------------------- MODULE JobLifecycle ----------------------------
(***************************************************************************)
(* The life of a job, from POST /jobs to its recorded outcome.  Four       *)
(* actors share the jobs table, the arq queue, the bucket and a provider:  *)
(*                                                                         *)
(*   the API      create_job and cancel_job        (services/job_service)  *)
(*   the worker   run_job, one task per job        (workers/tasks)         *)
(*   the sweep    reconcile_running_jobs           (services/job_reconciler)*)
(*   the script   the run itself                   (Providers)             *)
(*                                                                         *)
(* Each await of the code that reads or writes something shared is an      *)
(* action.  A task and the sweep read their row once: the session keeps    *)
(* the row object (expire_on_commit=False, no populate_existing), so the   *)
(* second select of run_job and the second db.get of _reconcile_one return *)
(* the object already held, with the attributes it already has.  They are  *)
(* not steps here.  Jobs are never deleted.                                *)
(***************************************************************************)
EXTENDS Providers, FiniteSets

CONSTANT Slots      \* WorkerSettings.max_jobs: tasks the worker runs at once

ASSUME SlotsAssumption == Slots \in Nat \ {0}

Terminal == {"succeeded", "failed", "cancelled"}
Statuses == {"none", "queued", "running"} \cup Terminal   \* none: no row yet
Outcomes == {"succeeded", "failed"}
Notifiable == {"running"} \cup Outcomes    \* the keys of JOB_EVENT_BY_STATUS

\* Where a run_job task stands, named for the await it is about to do.
WorkerPcs == {"idle", "mark", "tell", "mail", "submit", "record", "poll", "logs",
              "snapshot", "stop", "remove", "relog", "save", "collect", "finish"}
Tracking == {"record", "poll", "logs", "snapshot", "stop", "remove", "relog", "save",
             "collect", "finish"}       \* the task holds the handle of a run
SweepPcs == {"idle", "poll", "logs", "put", "collect", "known", "commit", "tell", "mail"}
CancelPcs == {"idle", "stop", "remove", "write"}
TaskStates == {"none", "pending", "ready", "active", "done", "lost"}

VARIABLES
    \* the database
    status,     \* jobs.status
    container,  \* jobs.container_id
    rows,       \* the number of job_checkpoints rows of the job's checkpoint
    notified,   \* notifications rows of the job, by the status that caused them
    \* Redis
    task,       \* the run_job task: pending is committed but not yet enqueued
    tries,      \* attempts arq has started
    mails,      \* mails[j][s]: send_notification_email tasks ever enqueued
    \* the bucket
    log,        \* jobs/<id>/logs.txt
    ckpt,       \* whether jobs/<id>/checkpoints/ holds the run's checkpoint
    \* the worker's coroutine of each job
    wpc, wst, whandle, wobs, wlog, wgot,
    \* the reconciler's sweep
    rpc, todo, rjob, rhandle, robs, rlog, rgot, rknown,
    \* the cancel request of each job
    cpc, chandle,
    \* history: the statuses ever committed
    committed

dbVars == <<status, container, rows, notified, committed>>
queueVars == <<task, tries, mails>>
bucketVars == <<log, ckpt>>
workerVars == <<wpc, wst, whandle, wobs, wlog, wgot>>
sweepVars == <<rpc, todo, rjob, rhandle, robs, rlog, rgot, rknown>>
cancelVars == <<cpc, chandle>>
vars == <<providerVars, dbVars, queueVars, bucketVars, workerVars, sweepVars, cancelVars>>

DbTypeOK ==
    /\ status \in [Jobs -> Statuses]
    /\ container \in [Jobs -> Handles]
    /\ rows \in [Jobs -> Nat]
    /\ notified \in [Jobs -> SUBSET Notifiable]
    /\ committed \in [Jobs -> SUBSET Statuses]

QueueTypeOK ==
    /\ task \in [Jobs -> TaskStates]
    /\ tries \in [Jobs -> 0..MaxTries]
    /\ mails \in [Jobs -> [Notifiable -> Nat]]

BucketTypeOK ==
    /\ log \in [Jobs -> LogLevels]
    /\ ckpt \in [Jobs -> BOOLEAN]

WorkerTypeOK ==
    /\ wpc \in [Jobs -> WorkerPcs]
    /\ wst \in [Jobs -> Statuses]
    /\ whandle \in [Jobs -> Handles]
    /\ wobs \in [Jobs -> {"running"} \cup Outcomes]
    /\ wlog \in [Jobs -> LogLevels]
    /\ wgot \in [Jobs -> BOOLEAN]
    /\ \A j \in Jobs : wpc[j] \in {"tell", "mail"} => wst[j] \in Notifiable
    /\ \A j \in Jobs : wpc[j] \in Tracking => whandle[j] \in RunIds

SweepTypeOK ==
    /\ rpc \in SweepPcs
    /\ todo \subseteq Jobs
    /\ rjob \in Jobs
    /\ rhandle \in Handles
    /\ rpc # "idle" => rhandle \in RunIds
    /\ robs \in {"running"} \cup Outcomes
    /\ rlog \in LogLevels
    /\ rgot \in BOOLEAN
    /\ rknown \in BOOLEAN

CancelTypeOK ==
    /\ cpc \in [Jobs -> CancelPcs]
    /\ chandle \in [Jobs -> Handles]
    /\ \A j \in Jobs : cpc[j] \in {"stop", "remove"} => chandle[j] \in RunIds

TypeOK ==
    /\ ProvidersTypeOK
    /\ DbTypeOK
    /\ QueueTypeOK
    /\ BucketTypeOK
    /\ WorkerTypeOK
    /\ SweepTypeOK
    /\ CancelTypeOK

Init ==
    /\ ProvidersInit
    /\ status = [j \in Jobs |-> "none"]
    /\ container = [j \in Jobs |-> NoRun]
    /\ rows = [j \in Jobs |-> 0]
    /\ notified = [j \in Jobs |-> {}]
    /\ task = [j \in Jobs |-> "none"]
    /\ tries = [j \in Jobs |-> 0]
    /\ mails = [j \in Jobs |-> [s \in Notifiable |-> 0]]
    /\ log = [j \in Jobs |-> "absent"]
    /\ ckpt = [j \in Jobs |-> FALSE]
    /\ wpc = [j \in Jobs |-> "idle"]
    /\ wst = [j \in Jobs |-> "none"]
    /\ whandle = [j \in Jobs |-> NoRun]
    /\ wobs = [j \in Jobs |-> "running"]
    /\ wlog = [j \in Jobs |-> "absent"]
    /\ wgot = [j \in Jobs |-> FALSE]
    /\ rpc = "idle"
    /\ todo = {}
    /\ rjob \in Jobs
    /\ rhandle = NoRun
    /\ robs = "running"
    /\ rlog = "absent"
    /\ rgot = FALSE
    /\ rknown = FALSE
    /\ cpc = [j \in Jobs |-> "idle"]
    /\ chandle = [j \in Jobs |-> NoRun]
    /\ committed = [j \in Jobs |-> {}]

\* UPDATE jobs SET status = s, committed.
CommitStatus(j, s) ==
    /\ status' = [status EXCEPT ![j] = s]
    /\ committed' = [committed EXCEPT ![j] = @ \cup {s}]

\* Mutation: the insert's result ignored.
RowAlwaysInserted(j, s) == TRUE

\* INSERT ... ON CONFLICT (job_id, event) DO NOTHING, committed.  Its result,
\* whether a row came back, decides whether an email is queued.
InsertNotification(j, s) == notified' = [notified EXCEPT ![j] = @ \cup {s}]
RowInserted(j, s) == s \notin notified[j]

\* pool.enqueue_job("send_notification_email"); a Redis failure is swallowed.
EnqueueMail(j, s) ==
    \/ mails' = [mails EXCEPT ![j][s] = @ + 1]
    \/ "outage" \in Env /\ UNCHANGED mails

---------------------------------------------------------------------------
(* The API: create_job.                                                    *)

CreateJob(j) ==
    /\ status[j] = "none"
    /\ \E p \in ProviderTypes : provider' = [provider EXCEPT ![j] = p]
    /\ CommitStatus(j, "queued")
    /\ task' = [task EXCEPT ![j] = "pending"]
    /\ UNCHANGED <<runVars, container, rows, notified, tries, mails, bucketVars,
                   workerVars, sweepVars, cancelVars>>

EnqueueJob(j) ==
    /\ task[j] = "pending"
    /\ task' = [task EXCEPT ![j] = "ready"]
    /\ UNCHANGED <<providerVars, dbVars, tries, mails, bucketVars, workerVars,
                   sweepVars, cancelVars>>

---------------------------------------------------------------------------
(* The API: cancel_job.  It always goes through LocalDockerProvider, to    *)
(* which a Modal sandbox id is an unknown container.                       *)

Cancellable == {"queued", "running"}

CancelRead(j) ==
    /\ "cancel" \in Env
    /\ cpc[j] = "idle"
    /\ status[j] \in Cancellable
    /\ chandle' = [chandle EXCEPT ![j] = container[j]]
    /\ cpc' = [cpc EXCEPT ![j] = IF container[j] # NoRun /\ Local(j) THEN "stop" ELSE "write"]
    /\ UNCHANGED <<providerVars, dbVars, queueVars, bucketVars, workerVars, sweepVars>>

CancelStop(j) ==
    /\ cpc[j] = "stop"
    /\ StopRun(j, chandle[j])
    /\ cpc' = [cpc EXCEPT ![j] = "remove"]
    /\ UNCHANGED <<dbVars, queueVars, bucketVars, workerVars, sweepVars, chandle>>

CancelRemove(j) ==
    /\ cpc[j] = "remove"
    /\ RemoveRun(j, chandle[j])
    /\ cpc' = [cpc EXCEPT ![j] = "write"]
    /\ UNCHANGED <<dbVars, queueVars, bucketVars, workerVars, sweepVars, chandle>>

CancelWrite(j) ==
    /\ cpc[j] = "write"
    /\ CommitStatus(j, "cancelled")
    /\ cpc' = [cpc EXCEPT ![j] = "idle"]
    /\ chandle' = [chandle EXCEPT ![j] = NoRun]
    /\ UNCHANGED <<providerVars, container, rows, notified, queueVars, bucketVars,
                   workerVars, sweepVars>>

\* Docker or the database raises: the request ends in a 500.
CancelRaises(j) ==
    /\ "apicrash" \in Env
    /\ cpc[j] # "idle"
    /\ cpc' = [cpc EXCEPT ![j] = "idle"]
    /\ chandle' = [chandle EXCEPT ![j] = NoRun]
    /\ UNCHANGED <<providerVars, dbVars, queueVars, bucketVars, workerVars, sweepVars>>

---------------------------------------------------------------------------
(* The worker: run_job, under arq.                                         *)

GoTo(j, pc) == wpc' = [wpc EXCEPT ![j] = pc]

ActiveTasks == {k \in Jobs : task[k] = "active"}

\* arq starts an attempt, whose first await reads the row.
PickUp(j) ==
    /\ task[j] = "ready"
    /\ tries[j] < MaxTries
    /\ Cardinality(ActiveTasks) < Slots
    /\ task' = [task EXCEPT ![j] = "active"]
    /\ tries' = [tries EXCEPT ![j] = @ + 1]
    /\ wst' = [wst EXCEPT ![j] = status[j]]
    /\ whandle' = [whandle EXCEPT ![j] = container[j]]
    /\ GoTo(j, "mark")
    /\ UNCHANGED <<providerVars, dbVars, mails, bucketVars, wobs, wlog, wgot, sweepVars,
                   cancelVars>>

\* arq drops a task that has used up its attempts.
DropTask(j) ==
    /\ task[j] = "ready"
    /\ tries[j] = MaxTries
    /\ task' = [task EXCEPT ![j] = "done"]
    /\ UNCHANGED <<providerVars, dbVars, tries, mails, bucketVars, workerVars, sweepVars,
                   cancelVars>>

\* job.status = "running"; commit.  The session writes the column only if the
\* value it read was another one.
MarkRunning(j) ==
    /\ wpc[j] = "mark"
    /\ IF wst[j] = "running" THEN UNCHANGED <<status, committed>>
                             ELSE CommitStatus(j, "running")
    /\ wst' = [wst EXCEPT ![j] = "running"]
    /\ GoTo(j, "tell")
    /\ UNCHANGED <<providerVars, container, rows, notified, queueVars, bucketVars,
                   whandle, wobs, wlog, wgot, sweepVars, cancelVars>>

\* Mutation: every attempt submits, whatever container_id says.
NeverReattach(j) ==
    IF wst[j] = "running"
    THEN GoTo(j, "submit") /\ UNCHANGED <<task, wst, whandle, wobs, wlog, wgot>>
    ELSE /\ task' = [task EXCEPT ![j] = "done"]
         /\ GoTo(j, "idle")
         /\ UNCHANGED <<wst, whandle, wobs, wlog, wgot>>

\* What follows a notification: the run, or the end of the task.
AfterNotice(j) ==
    IF wst[j] = "running"
    THEN /\ GoTo(j, IF whandle[j] = NoRun THEN "submit" ELSE "poll")
         /\ UNCHANGED <<task, wst, whandle, wobs, wlog, wgot>>
    ELSE /\ task' = [task EXCEPT ![j] = "done"]
         /\ GoTo(j, "idle")
         /\ wst' = [wst EXCEPT ![j] = "none"]
         /\ whandle' = [whandle EXCEPT ![j] = NoRun]
         /\ wobs' = [wobs EXCEPT ![j] = "running"]
         /\ wlog' = [wlog EXCEPT ![j] = "absent"]
         /\ wgot' = [wgot EXCEPT ![j] = FALSE]

\* notify_job_status, for the status the task just committed.
Tell(j) ==
    /\ wpc[j] = "tell"
    /\ InsertNotification(j, wst[j])
    /\ IF RowInserted(j, wst[j])
       THEN GoTo(j, "mail") /\ UNCHANGED <<task, wst, whandle, wobs, wlog, wgot>>
       ELSE AfterNotice(j)
    /\ UNCHANGED <<providerVars, status, committed, container, rows, tries, mails,
                   bucketVars, sweepVars, cancelVars>>

Mail(j) ==
    /\ wpc[j] = "mail"
    /\ EnqueueMail(j, wst[j])
    /\ AfterNotice(j)
    /\ UNCHANGED <<providerVars, dbVars, tries, bucketVars, sweepVars, cancelVars>>

Submit(j) ==
    /\ wpc[j] = "submit"
    /\ \E n \in RunIds :
         /\ SubmitRun(j, n)
         /\ whandle' = [whandle EXCEPT ![j] = n]
    /\ GoTo(j, "record")
    /\ UNCHANGED <<dbVars, queueVars, bucketVars, wst, wobs, wlog, wgot, sweepVars,
                   cancelVars>>

\* submit_job raised: the except branch records the failure.
SubmitRaises(j) ==
    /\ wpc[j] = "submit"
    /\ SubmitMayFail(j)
    /\ CommitStatus(j, "failed")
    /\ wst' = [wst EXCEPT ![j] = "failed"]
    /\ GoTo(j, "tell")
    /\ UNCHANGED <<providerVars, container, rows, notified, queueVars, bucketVars,
                   whandle, wobs, wlog, wgot, sweepVars, cancelVars>>

\* job.container_id = run_handle.container_id; commit.
RecordHandle(j) ==
    /\ wpc[j] = "record"
    /\ container' = [container EXCEPT ![j] = whandle[j]]
    /\ GoTo(j, "poll")
    /\ UNCHANGED <<providerVars, status, rows, notified, committed, queueVars, bucketVars,
                   wst, whandle, wobs, wlog, wgot, sweepVars, cancelVars>>

Poll(j) ==
    /\ wpc[j] = "poll"
    /\ \E r \in PollResults(j, whandle[j]) : wobs' = [wobs EXCEPT ![j] = r]
    /\ GoTo(j, "logs")
    /\ UNCHANGED <<providerVars, dbVars, queueVars, bucketVars, wst, whandle, wlog, wgot,
                   sweepVars, cancelVars>>

ReadLogs(j) ==
    /\ wpc[j] = "logs"
    /\ \E l \in LogResults(j, whandle[j]) : wlog' = [wlog EXCEPT ![j] = l]
    /\ GoTo(j, "snapshot")
    /\ UNCHANGED <<providerVars, dbVars, queueVars, bucketVars, wst, whandle, wobs, wgot,
                   sweepVars, cancelVars>>

\* put_logs overwrites the object; _safe_put_logs swallows a failure.
SafePutLogs(j) ==
    \/ log' = [log EXCEPT ![j] = wlog[j]]
    \/ "outage" \in Env /\ UNCHANGED log

\* The text is not read again before stream_logs replaces it.
LogUsed(j) == wlog' = [wlog EXCEPT ![j] = "absent"]

\* Mutation: the loop is not left when the run has ended.
SnapshotNeverBreaks(j) ==
    /\ wpc[j] = "snapshot"
    /\ SafePutLogs(j) \/ UNCHANGED log
    /\ GoTo(j, "poll")
    /\ UNCHANGED <<providerVars, dbVars, queueVars, ckpt, wst, whandle, wobs, wlog, wgot,
                   sweepVars, cancelVars>>

\* The periodic snapshot is due at some polls only.  Then the loop goes round,
\* ends because the run did, or ends at the runtime cap.
Snapshot(j) ==
    /\ wpc[j] = "snapshot"
    /\ SafePutLogs(j) \/ UNCHANGED log
    /\ \/ wobs[j] # "running" /\ GoTo(j, "save") /\ UNCHANGED wlog
       \/ wobs[j] = "running" /\ GoTo(j, "poll") /\ LogUsed(j)
       \/ wobs[j] = "running" /\ "timeout" \in Env /\ GoTo(j, "stop") /\ LogUsed(j)
    /\ UNCHANGED <<providerVars, dbVars, queueVars, ckpt, wst, whandle, wobs, wgot,
                   sweepVars, cancelVars>>

\* Mutation: the run is not stopped at the runtime cap.
TimeoutLeavesRun(j) ==
    /\ wpc[j] = "stop"
    /\ GoTo(j, "relog")
    /\ UNCHANGED <<providerVars, dbVars, queueVars, bucketVars, wst, whandle, wobs, wlog,
                   wgot, sweepVars, cancelVars>>

\* while/else: provider.cancel(handle), the job's own provider this time.
TimeoutStop(j) ==
    /\ wpc[j] = "stop"
    /\ StopRun(j, whandle[j])
    /\ GoTo(j, IF Local(j) THEN "remove" ELSE "relog")
    /\ UNCHANGED <<dbVars, queueVars, bucketVars, wst, whandle, wobs, wlog, wgot,
                   sweepVars, cancelVars>>

TimeoutRemove(j) ==
    /\ wpc[j] = "remove"
    /\ RemoveRun(j, whandle[j])
    /\ GoTo(j, "relog")
    /\ UNCHANGED <<dbVars, queueVars, bucketVars, wst, whandle, wobs, wlog, wgot,
                   sweepVars, cancelVars>>

TimeoutLogs(j) ==
    /\ wpc[j] = "relog"
    /\ \E l \in LogResults(j, whandle[j]) : wlog' = [wlog EXCEPT ![j] = l]
    /\ wobs' = [wobs EXCEPT ![j] = "failed"]
    /\ GoTo(j, "save")
    /\ UNCHANGED <<providerVars, dbVars, queueVars, bucketVars, wst, whandle, wgot,
                   sweepVars, cancelVars>>

\* Mutation: the last log is left to the periodic snapshot.
SaveLogsSkipped(j) ==
    /\ wpc[j] = "save"
    /\ GoTo(j, "collect")
    /\ UNCHANGED <<providerVars, dbVars, queueVars, bucketVars, wst, whandle, wobs, wlog,
                   wgot, sweepVars, cancelVars>>

SaveLogs(j) ==
    /\ wpc[j] = "save"
    /\ SafePutLogs(j)
    /\ LogUsed(j)
    /\ GoTo(j, "collect")
    /\ UNCHANGED <<providerVars, dbVars, queueVars, ckpt, wst, whandle, wobs, wgot,
                   sweepVars, cancelVars>>

\* _safe_collect: the checkpoints go to the bucket; a failure collects nothing.
Collect(j) ==
    /\ wpc[j] = "collect"
    /\ \/ /\ wgot' = [wgot EXCEPT ![j] = HasCheckpoint(j)]
          /\ ckpt' = [ckpt EXCEPT ![j] = @ \/ HasCheckpoint(j)]
       \/ /\ "outage" \in Env
          /\ wgot' = [wgot EXCEPT ![j] = FALSE]
          /\ UNCHANGED ckpt
    /\ GoTo(j, "finish")
    /\ UNCHANGED <<providerVars, dbVars, queueVars, log, wst, whandle, wobs, wlog,
                   sweepVars, cancelVars>>

\* Mutation: final_state keeps its initial value.
FinishFailed(j) ==
    /\ wpc[j] = "finish"
    /\ rows' = [rows EXCEPT ![j] = IF wgot[j] THEN @ + 1 ELSE @]
    /\ CommitStatus(j, "failed")
    /\ wst' = [wst EXCEPT ![j] = "failed"]
    /\ GoTo(j, "tell")
    /\ UNCHANGED <<providerVars, container, notified, queueVars, bucketVars, whandle, wobs,
                   wlog, wgot, sweepVars, cancelVars>>

\* Mutation: the owner is told before the commit.
FinishUncommitted(j) ==
    /\ wpc[j] = "finish"
    /\ wst' = [wst EXCEPT ![j] = wobs[j]]
    /\ GoTo(j, "tell")
    /\ UNCHANGED <<providerVars, dbVars, queueVars, bucketVars, whandle, wobs, wlog, wgot,
                   sweepVars, cancelVars>>

\* Mutation: the outcome is recorded and nobody is told.
FinishSilent(j) ==
    /\ wpc[j] = "finish"
    /\ CommitStatus(j, wobs[j])
    /\ task' = [task EXCEPT ![j] = "done"]
    /\ GoTo(j, "idle")
    /\ UNCHANGED <<providerVars, container, rows, notified, tries, mails, bucketVars, wst,
                   whandle, wobs, wlog, wgot, sweepVars, cancelVars>>

\* The checkpoint rows and the final status, in one commit.
Finish(j) ==
    /\ wpc[j] = "finish"
    /\ rows' = [rows EXCEPT ![j] = IF wgot[j] THEN @ + 1 ELSE @]
    /\ CommitStatus(j, wobs[j])
    /\ wst' = [wst EXCEPT ![j] = wobs[j]]
    /\ GoTo(j, "tell")
    /\ UNCHANGED <<providerVars, container, notified, queueVars, bucketVars, whandle, wobs,
                   wlog, wgot, sweepVars, cancelVars>>

\* The attempt ends early and its memory is gone.  arq queues the task again
\* after a crash or a shutdown; a task that raised, or ran past job_timeout,
\* may be queued again or given up.
AttemptEnds(j) ==
    /\ "crash" \in Env
    /\ wpc[j] # "idle"
    /\ \E s \in {"ready", "done"} : task' = [task EXCEPT ![j] = s]
    /\ GoTo(j, "idle")
    /\ wst' = [wst EXCEPT ![j] = "none"]
    /\ whandle' = [whandle EXCEPT ![j] = NoRun]
    /\ wobs' = [wobs EXCEPT ![j] = "running"]
    /\ wlog' = [wlog EXCEPT ![j] = "absent"]
    /\ wgot' = [wgot EXCEPT ![j] = FALSE]
    /\ UNCHANGED <<providerVars, dbVars, tries, mails, bucketVars, sweepVars, cancelVars>>

---------------------------------------------------------------------------
(* The scheduler: reconcile_running_jobs, one sweep at a time.             *)

\* Mutation: the listing looks for jobs that have not started.
SweepListsQueued ==
    /\ rpc = "idle"
    /\ todo = {}
    /\ todo' = {j \in Jobs : status[j] = "queued" /\ container[j] # NoRun}
    /\ todo' # {}
    /\ UNCHANGED <<providerVars, dbVars, queueVars, bucketVars, workerVars, rpc, rjob,
                   rhandle, robs, rlog, rgot, rknown, cancelVars>>

\* The listing, in a session of its own.
Sweep ==
    /\ rpc = "idle"
    /\ todo = {}
    /\ todo' = {j \in Jobs : status[j] = "running" /\ container[j] # NoRun}
    /\ todo' # {}
    /\ UNCHANGED <<providerVars, dbVars, queueVars, bucketVars, workerVars, rpc, rjob,
                   rhandle, robs, rlog, rgot, rknown, cancelVars>>

\* _reconcile_one's first db.get, in a fresh session.
SweepRead(j) ==
    /\ rpc = "idle"
    /\ j \in todo
    /\ todo' = todo \ {j}
    /\ IF status[j] = "running" /\ container[j] # NoRun
       THEN rpc' = "poll" /\ rjob' = j /\ rhandle' = container[j]
       ELSE UNCHANGED <<rpc, rjob, rhandle>>
    /\ UNCHANGED <<providerVars, dbVars, queueVars, bucketVars, workerVars, robs, rlog,
                   rgot, rknown, cancelVars>>

SweepForgets ==
    /\ rpc' = "idle"
    /\ rhandle' = NoRun
    /\ robs' = "running"
    /\ rlog' = "absent"
    /\ rgot' = FALSE
    /\ rknown' = FALSE
    /\ UNCHANGED rjob

SweepPoll ==
    /\ rpc = "poll"
    /\ \E r \in PollResults(rjob, rhandle) :
         IF r = "running"
         THEN SweepForgets
         ELSE rpc' = "logs" /\ robs' = r /\ UNCHANGED <<rjob, rhandle, rlog, rgot, rknown>>
    /\ UNCHANGED <<providerVars, dbVars, queueVars, bucketVars, workerVars, todo, cancelVars>>

\* An empty log is not uploaded.
SweepLogs ==
    /\ rpc = "logs"
    /\ \E l \in LogResults(rjob, rhandle) :
         IF l = "empty" THEN rpc' = "collect" /\ UNCHANGED rlog
                        ELSE rpc' = "put" /\ rlog' = l
    /\ UNCHANGED <<providerVars, dbVars, queueVars, bucketVars, workerVars, todo, rjob,
                   rhandle, robs, rgot, rknown, cancelVars>>

SweepPut ==
    /\ rpc = "put"
    /\ \/ log' = [log EXCEPT ![rjob] = rlog]
       \/ "outage" \in Env /\ UNCHANGED log
    /\ rpc' = "collect"
    /\ rlog' = "absent"
    /\ UNCHANGED <<providerVars, dbVars, queueVars, ckpt, workerVars, todo, rjob, rhandle,
                   robs, rgot, rknown, cancelVars>>

SweepCollect ==
    /\ rpc = "collect"
    /\ \/ /\ rgot' = HasCheckpoint(rjob)
          /\ ckpt' = [ckpt EXCEPT ![rjob] = @ \/ HasCheckpoint(rjob)]
       \/ /\ "outage" \in Env
          /\ rgot' = FALSE
          /\ UNCHANGED ckpt
    /\ rpc' = IF rgot' THEN "known" ELSE "commit"
    /\ UNCHANGED <<providerVars, dbVars, queueVars, log, workerVars, todo, rjob, rhandle,
                   robs, rlog, rknown, cancelVars>>

\* The paths already recorded for the job.
SweepKnown ==
    /\ rpc = "known"
    /\ rknown' = (rows[rjob] > 0)
    /\ rpc' = "commit"
    /\ UNCHANGED <<providerVars, dbVars, queueVars, bucketVars, workerVars, todo, rjob,
                   rhandle, robs, rlog, rgot, cancelVars>>

\* The second db.get answers from the identity map, so the test of line 82
\* sees the status read by SweepRead and always lets the commit through.
SweepCommit ==
    /\ rpc = "commit"
    /\ rows' = [rows EXCEPT ![rjob] = IF rgot /\ ~rknown THEN @ + 1 ELSE @]
    /\ CommitStatus(rjob, robs)
    /\ rpc' = "tell"
    /\ UNCHANGED <<providerVars, container, notified, queueVars, bucketVars, workerVars,
                   todo, rjob, rhandle, robs, rlog, rgot, rknown, cancelVars>>

SweepTell ==
    /\ rpc = "tell"
    /\ InsertNotification(rjob, robs)
    /\ IF RowInserted(rjob, robs)
       THEN rpc' = "mail" /\ UNCHANGED <<rjob, rhandle, robs, rlog, rgot, rknown>>
       ELSE SweepForgets
    /\ UNCHANGED <<providerVars, status, committed, container, rows, queueVars, bucketVars,
                   workerVars, todo, cancelVars>>

SweepMail ==
    /\ rpc = "mail"
    /\ EnqueueMail(rjob, robs)
    /\ SweepForgets
    /\ UNCHANGED <<providerVars, dbVars, task, tries, bucketVars, workerVars, todo,
                   cancelVars>>

\* _reconcile_one raises; the sweep goes on with the next job.
SweepRaises ==
    /\ "apicrash" \in Env
    /\ rpc # "idle"
    /\ SweepForgets
    /\ UNCHANGED <<providerVars, dbVars, queueVars, bucketVars, workerVars, todo, cancelVars>>

\* The API process dies: the sweep, the cancel requests and the create_job
\* calls that had not reached Redis die with it.
ApiCrash ==
    /\ "apicrash" \in Env
    /\ SweepForgets
    /\ todo' = {}
    /\ cpc' = [j \in Jobs |-> "idle"]
    /\ chandle' = [j \in Jobs |-> NoRun]
    /\ task' = [j \in Jobs |-> IF task[j] = "pending" THEN "lost" ELSE task[j]]
    /\ UNCHANGED <<providerVars, dbVars, tries, mails, bucketVars, workerVars>>

---------------------------------------------------------------------------
(* The script.                                                             *)

ScriptExits(j) ==
    /\ \E n \in RunIds : RunExits(j, n)
    /\ UNCHANGED <<dbVars, queueVars, bucketVars, workerVars, sweepVars, cancelVars>>

Create(j) == CreateJob(j) \/ EnqueueJob(j)

Cancel(j) ==
    CancelRead(j) \/ CancelStop(j) \/ CancelRemove(j) \/ CancelWrite(j) \/ CancelRaises(j)

\* A task's own progress, without the accidents.
Work(j) ==
    \/ PickUp(j) \/ DropTask(j) \/ MarkRunning(j) \/ Tell(j) \/ Mail(j)
    \/ Submit(j) \/ SubmitRaises(j) \/ RecordHandle(j)
    \/ Poll(j) \/ ReadLogs(j) \/ Snapshot(j)
    \/ TimeoutStop(j) \/ TimeoutRemove(j) \/ TimeoutLogs(j)
    \/ SaveLogs(j) \/ Collect(j) \/ Finish(j)

Reconcile ==
    \/ Sweep \/ (\E j \in Jobs : SweepRead(j)) \/ SweepPoll \/ SweepLogs \/ SweepPut
    \/ SweepCollect \/ SweepKnown \/ SweepCommit \/ SweepTell \/ SweepMail

Next ==
    \/ \E j \in Jobs : Create(j) \/ Cancel(j) \/ Work(j) \/ AttemptEnds(j) \/ ScriptExits(j)
    \/ Reconcile
    \/ SweepRaises
    \/ ApiCrash

Spec == Init /\ [][Next]_vars

\* The event loops run what is runnable, the scheduler fires every minute, arq
\* picks queued tasks up, and every script ends (Modal enforces its own
\* timeout; a local script may be cut off by the runtime cap).
Fairness ==
    /\ \A j \in Jobs : WF_vars(EnqueueJob(j)) /\ WF_vars(Work(j)) /\ WF_vars(ScriptExits(j))
    /\ WF_vars(Reconcile)

FairSpec == Spec /\ Fairness
---------------------------------------------------------------------------
(* Safety.                                                                 *)

\* A job is shown as succeeded only if the run whose handle its row holds did
\* exit 0, whichever of the two finalisers wrote the status, from however old
\* an answer of the provider (tasks.py:159, job_reconciler.py:95).
SucceededIsTrue ==
    \A j \in Jobs :
        status[j] = "succeeded" => /\ container[j] # NoRun
                                   /\ run[j][container[j]] = "ok"

\* A local job never has two containers alive: the one attempt that crashed
\* between containers.run and the commit of container_id left a container whose
\* name refuses the next (local_docker.py:72).
OneLocalRun ==
    \A j \in Jobs : Local(j) =>
        \A m, n \in RunIds : run[j][m] = "up" /\ run[j][n] = "up" => m = n

\* A notification tells of a status that was committed before it
\* (notification_service.py:51, "never recorded for an outcome that failed to
\* persist"), on the tracking path and on the sweep's.
NoticeFollowsCommit ==
    \A j \in Jobs : notified[j] \subseteq committed[j]

\* At most one email is queued per job and event however often the tracking
\* task is retried and whether or not the sweep finalises the job as well; and
\* none is queued without its notification (notification_service.py:7).
MailedOnce ==
    \A j \in Jobs, s \in Notifiable :
        /\ mails[j][s] <= 1
        /\ mails[j][s] = 1 => s \in notified[j]

\* What makes the two finalisers disagree about how a run ended: the run is
\* stopped or removed under one of them, a lookup fails for one of them, or an
\* attempt whose submission was refused is followed by one that is accepted.
Disagreements == {"cancel", "timeout", "lookup", "nosubmit"}

\* The owner is never told both that the job succeeded and that it failed.
OutcomesAgree ==
    Env \cap Disagreements = {} =>
        \A j \in Jobs : ~(Outcomes \subseteq notified[j])

\* A job shown as failed has no run left behind that it still points to: a
\* tracked run is failed only once it has ended, be it at the runtime cap.  (For
\* a Modal run a failing lookup reads as a failed run; see modal_gpu.py:126.)
FailedRunIsOver ==
    \A j \in Jobs :
        /\ Local(j) \/ "lookup" \notin Env
        /\ status[j] = "failed" /\ container[j] # NoRun
        => run[j][container[j]] # "up"

\* When the task has run to its end and no sweep is under way, the bucket holds
\* the whole log of a succeeded job and its checkpoint: no older snapshot is
\* left over the complete one (tasks.py:129, 142).
ArtifactsComplete ==
    Env \subseteq {"apicrash", "nosubmit"} =>
        \A j \in Jobs :
            task[j] = "done" /\ rpc = "idle" /\ status[j] = "succeeded"
                => log[j] = "full" /\ ckpt[j]

---------------------------------------------------------------------------
(* What no step may do.                                                    *)

\* Once the row holds a handle it keeps that handle, and no further run of the
\* job is started: every later attempt reattaches (tasks.py:92-98).
TrackedRunIsOnly ==
    [][\A j \in Jobs : container[j] # NoRun =>
            /\ container'[j] = container[j]
            /\ \A n \in RunIds : run[j][n] = "none" => run'[j][n] = "none"]_vars

---------------------------------------------------------------------------
(* Liveness.                                                               *)

\* A job whose handle was recorded ends up with a final status and keeps it,
\* though its tracking task may have died for good (job_reconciler.py:1-16).
Settles ==
    \A j \in Jobs : container[j] # NoRun ~> [](status[j] \in Terminal)

\* Every job that reached the queue ends up with a final status, when as many
\* jobs as there are run one after the other on the worker's slots.
EveryJobSettles ==
    \A j \in Jobs : status[j] = "queued" ~> [](status[j] \in Terminal)

\* An outcome that was recorded is told to the owner, whichever finaliser
\* recorded it and whichever came second.
OutcomeTold ==
    \A j \in Jobs : \A s \in Outcomes : status[j] = s ~> s \in notified[j]

---------------------------------------------------------------------------
(* What the table promises to its readers.                                 *)

Record == INSTANCE JobRecord WITH Runs <- RunIds

\* The four actors together keep the promises of JobRecord: a handle is recorded
\* once, success comes with a handle only, and nothing is told that was not
\* committed.  A step changes one row, in one of JobRecord's ways, or none.
ImplementsRecord == Record!RecordSpec

---------------------------------------------------------------------------
(* What the documentation says and the code does not do.                   *)

\* frontend/src/app/jobs/[id]/page.tsx:110, on cancelling: "The running
\* container will be stopped immediately."  The run whose handle cancel_job read
\* is over when it commits "cancelled".
CancelStopsRun ==
    [][\A j \in Jobs :
         cpc[j] = "write" /\ cpc'[j] = "idle" /\ status'[j] = "cancelled"
         /\ chandle[j] # NoRun => run[j][chandle[j]] # "up"]_vars

=============================================================================
