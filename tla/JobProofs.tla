------------------------------ MODULE JobProofs ------------------------------
(***************************************************************************)
(* Proofs about JobLifecycle, for every set of jobs, every number of       *)
(* attempts and worker slots, and every behaviour of the environment: its  *)
(* types; the properties of what its tables record, each from the          *)
(* inductive invariant of JobInvariants that carries it; and that it       *)
(* implements JobRecord: the worker's attempts, the sweep and the          *)
(* requests, cut short anywhere, change the jobs table in JobRecord's ways *)
(* and in no other, one row at a time.                                     *)
(*                                                                         *)
(* Then the runs behind the rows: a local job has one at a time, a failed  *)
(* job none that is still up, the two finalisers tell the owner one        *)
(* outcome, and a run's log and checkpoint are in the bucket once its task *)
(* is done, each under the accidents its property allows.                  *)
(***************************************************************************)
EXTENDS JobInvariants, TLAPS

---------------------------------------------------------------------------
(* Types.                                                                  *)

\* What an action leaves alone keeps its type.
LEMMA Frame ==
  ASSUME TypeOK
  PROVE  /\ UNCHANGED providerVars => ProvidersTypeOK'
         /\ UNCHANGED dbVars => DbTypeOK'
         /\ UNCHANGED queueVars => QueueTypeOK'
         /\ UNCHANGED bucketVars => BucketTypeOK'
         /\ UNCHANGED workerVars => WorkerTypeOK'
         /\ UNCHANGED sweepVars => SweepTypeOK'
         /\ UNCHANGED cancelVars => CancelTypeOK'
<1> USE DEF TypeOK
<1>1. UNCHANGED providerVars => ProvidersTypeOK'
  BY DEF providerVars, runVars, ProvidersTypeOK
<1>2. UNCHANGED dbVars => DbTypeOK'
  BY DEF dbVars, DbTypeOK
<1>3. UNCHANGED queueVars => QueueTypeOK'
  BY DEF queueVars, QueueTypeOK
<1>4. UNCHANGED bucketVars => BucketTypeOK'
  BY DEF bucketVars, BucketTypeOK
<1>5. UNCHANGED workerVars => WorkerTypeOK'
  BY DEF workerVars, WorkerTypeOK
<1>6. UNCHANGED sweepVars => SweepTypeOK'
  BY DEF sweepVars, SweepTypeOK
<1>7. UNCHANGED cancelVars => CancelTypeOK'
  BY DEF cancelVars, CancelTypeOK
<1> QED
  BY <1>1, <1>2, <1>3, <1>4, <1>5, <1>6, <1>7

LEMMA TypeInit == Init => TypeOK
<1> SUFFICES ASSUME Init PROVE TypeOK
  OBVIOUS
<1> USE DEF Init
<1>1. ProvidersTypeOK
  BY DEF ProvidersInit, ProvidersTypeOK, ProviderTypes, RunStates
<1>2. DbTypeOK
  BY DEF DbTypeOK, Statuses, Handles
<1>3. QueueTypeOK
  BY MaxTriesAssumption DEF QueueTypeOK, TaskStates
<1>4. BucketTypeOK /\ CancelTypeOK
  BY DEF BucketTypeOK, CancelTypeOK, LogLevels, CancelPcs, Handles
<1>5. WorkerTypeOK
  BY DEF WorkerTypeOK, WorkerPcs, Statuses, Handles, LogLevels, Tracking
<1>6. SweepTypeOK
  BY DEF SweepTypeOK, SweepPcs, Handles, LogLevels
<1> QED
  BY <1>1, <1>2, <1>3, <1>4, <1>5, <1>6 DEF TypeOK

\* cancel, on either provider, keeps the types of the runs.
LEMMA StopRunTypes ==
  ASSUME ProvidersTypeOK, NEW j \in Jobs, NEW n, StopRun(j, n)
  PROVE  ProvidersTypeOK'
<1> PICK code \in {"ok", "bad"} :
           run' = [run EXCEPT ![j][n] = IF @ = "up" THEN code ELSE @]
  BY DEF StopRun
<1> QED
  BY DEF StopRun, ProvidersTypeOK, RunStates

LEMMA RemoveRunTypes ==
  ASSUME ProvidersTypeOK, NEW j \in Jobs, NEW n \in RunIds, RemoveRun(j, n)
  PROVE  ProvidersTypeOK'
  BY DEF RemoveRun, ProvidersTypeOK

LEMMA TypeCreate ==
  ASSUME TypeOK, NEW j \in Jobs, Create(j)
  PROVE  TypeOK'
<1>1. CASE CreateJob(j)
  <2>1. ProvidersTypeOK'
    BY <1>1 DEF TypeOK, ProvidersTypeOK, CreateJob, runVars
  <2>2. DbTypeOK'
    BY <1>1 DEF TypeOK, DbTypeOK, CreateJob, CommitStatus, Statuses
  <2>3. QueueTypeOK'
    BY <1>1 DEF TypeOK, QueueTypeOK, CreateJob, TaskStates
  <2> QED
    BY <1>1, <2>1, <2>2, <2>3, Frame DEF CreateJob, TypeOK
<1>2. CASE EnqueueJob(j)
  <2>1. QueueTypeOK'
    BY <1>2 DEF TypeOK, QueueTypeOK, EnqueueJob, TaskStates
  <2> QED
    BY <1>2, <2>1, Frame DEF EnqueueJob, TypeOK
<1> QED
  BY <1>1, <1>2 DEF Create

LEMMA TypeCancel ==
  ASSUME TypeOK, NEW j \in Jobs, Cancel(j)
  PROVE  TypeOK'
<1> USE DEF TypeOK
<1>1. CancelTypeOK'
  BY DEF DbTypeOK, CancelTypeOK, CancelPcs, Handles, NoRun, Cancel, CancelRead, CancelStop,
         CancelRemove, CancelWrite, CancelRaises
<1>2. CASE CancelStop(j) \/ CancelRemove(j)
  <2>1. ProvidersTypeOK'
    BY <1>2, StopRunTypes, RemoveRunTypes DEF CancelTypeOK, CancelStop, CancelRemove
  <2> QED
    BY <1>1, <1>2, <2>1, Frame DEF CancelStop, CancelRemove
<1>3. CASE CancelWrite(j)
  <2>1. DbTypeOK'
    BY <1>3 DEF DbTypeOK, CancelWrite, CommitStatus, Statuses, Terminal
  <2> QED
    BY <1>1, <1>3, <2>1, Frame DEF CancelWrite
<1>4. CASE CancelRead(j) \/ CancelRaises(j)
  BY <1>1, <1>4, Frame DEF CancelRead, CancelRaises
<1> QED
  BY <1>2, <1>3, <1>4 DEF Cancel

\* The email counters count.
LEMMA EnqueueMailTypes ==
  ASSUME mails \in [Jobs -> [Notifiable -> Nat]], NEW j \in Jobs, NEW s \in Notifiable,
         EnqueueMail(j, s)
  PROVE  mails' \in [Jobs -> [Notifiable -> Nat]]
<1>1. CASE mails' = [mails EXCEPT ![j][s] = @ + 1]
  <2>1. [mails[j] EXCEPT ![s] = @ + 1] \in [Notifiable -> Nat]
    OBVIOUS
  <2> QED
    BY <1>1, <2>1
<1> QED
  BY <1>1 DEF EnqueueMail

\* After a notification the task goes on with its run or ends.
LEMMA AfterNoticeTypes ==
  ASSUME WorkerTypeOK, task \in [Jobs -> TaskStates], NEW j \in Jobs, AfterNotice(j)
  PROVE  WorkerTypeOK' /\ task' \in [Jobs -> TaskStates]
<1>1. CASE wst[j] = "running"
  BY <1>1 DEF WorkerTypeOK, AfterNotice, GoTo, WorkerPcs, Tracking, Handles
<1>2. CASE wst[j] # "running"
  <2>1. /\ wpc' = [wpc EXCEPT ![j] = "idle"]
        /\ wst' = [wst EXCEPT ![j] = "none"]
        /\ whandle' = [whandle EXCEPT ![j] = NoRun]
        /\ wobs' = [wobs EXCEPT ![j] = "running"]
        /\ wlog' = [wlog EXCEPT ![j] = "absent"]
        /\ wgot' = [wgot EXCEPT ![j] = FALSE]
        /\ task' = [task EXCEPT ![j] = "done"]
    BY <1>2 DEF AfterNotice, GoTo
  <2>2. /\ NoRun \in Handles /\ "absent" \in LogLevels /\ "done" \in TaskStates
        /\ "idle" \in WorkerPcs \ Tracking /\ "none" \in Statuses
    BY DEF Handles, LogLevels, TaskStates, WorkerPcs, Tracking, Statuses
  <2> QED
    BY <2>1, <2>2 DEF WorkerTypeOK
<1> QED
  BY <1>1, <1>2

LEMMA TypeWork ==
  ASSUME TypeOK, NEW j \in Jobs, Work(j)
  PROVE  TypeOK'
<1> USE DEF TypeOK
<1>1. CASE PickUp(j)
  <2>1. QueueTypeOK'
    BY <1>1, MaxTriesAssumption DEF QueueTypeOK, PickUp, TaskStates
  <2>2. WorkerTypeOK'
    BY <1>1 DEF DbTypeOK, WorkerTypeOK, PickUp, GoTo, WorkerPcs, Tracking
  <2> QED
    BY <1>1, <2>1, <2>2, Frame DEF PickUp
<1>2. CASE DropTask(j)
  <2>1. QueueTypeOK'
    BY <1>2 DEF QueueTypeOK, DropTask, TaskStates
  <2> QED
    BY <1>2, <2>1, Frame DEF DropTask
<1>3. CASE MarkRunning(j)
  <2>1. DbTypeOK'
    BY <1>3 DEF DbTypeOK, MarkRunning, CommitStatus, Statuses
  <2>2. WorkerTypeOK'
    BY <1>3 DEF WorkerTypeOK, MarkRunning, GoTo, Statuses, WorkerPcs, Notifiable, Tracking
  <2> QED
    BY <1>3, <2>1, <2>2, Frame DEF MarkRunning
<1>4. CASE Tell(j)
  <2>1. DbTypeOK'
    BY <1>4 DEF DbTypeOK, WorkerTypeOK, Tell, InsertNotification
  <2>2. WorkerTypeOK' /\ QueueTypeOK'
    <3>1. CASE RowInserted(j, wst[j])
      BY <1>4, <3>1 DEF WorkerTypeOK, QueueTypeOK, Tell, GoTo, WorkerPcs, Tracking
    <3>2. CASE ~RowInserted(j, wst[j])
      BY <1>4, <3>2, AfterNoticeTypes DEF QueueTypeOK, Tell
    <3> QED
      BY <3>1, <3>2
  <2> QED
    BY <1>4, <2>1, <2>2, Frame DEF Tell
<1>4a. CASE Mail(j)
  <2>1. wst[j] \in Notifiable
    BY <1>4a DEF WorkerTypeOK, Mail
  <2>2. WorkerTypeOK' /\ QueueTypeOK'
    BY <1>4a, <2>1, AfterNoticeTypes, EnqueueMailTypes DEF QueueTypeOK, Mail
  <2> QED
    BY <1>4a, <2>2, Frame DEF Mail
<1>5. CASE Submit(j)
  <2>1. ProvidersTypeOK'
    BY <1>5 DEF ProvidersTypeOK, Submit, SubmitRun, RunStates
  <2>2. WorkerTypeOK'
    BY <1>5 DEF WorkerTypeOK, Submit, GoTo, WorkerPcs, Handles, Tracking
  <2> QED
    BY <1>5, <2>1, <2>2, Frame DEF Submit
<1>6. CASE SubmitRaises(j)
  <2>1. DbTypeOK'
    BY <1>6 DEF DbTypeOK, SubmitRaises, CommitStatus, Statuses, Terminal
  <2>2. WorkerTypeOK'
    BY <1>6 DEF WorkerTypeOK, SubmitRaises, GoTo, Statuses, Terminal, WorkerPcs,
                Notifiable, Outcomes, Tracking
  <2> QED
    BY <1>6, <2>1, <2>2, Frame DEF SubmitRaises
<1>7. CASE RecordHandle(j)
  <2>1. DbTypeOK'
    BY <1>7 DEF DbTypeOK, WorkerTypeOK, RecordHandle
  <2>2. WorkerTypeOK'
    BY <1>7 DEF WorkerTypeOK, RecordHandle, GoTo, WorkerPcs, Tracking
  <2> QED
    BY <1>7, <2>1, <2>2, Frame DEF RecordHandle
<1>8. CASE Poll(j)
  <2>1. WorkerTypeOK'
    BY <1>8 DEF WorkerTypeOK, Poll, PollResults, GoTo, WorkerPcs, Outcomes, Tracking
  <2> QED
    BY <1>8, <2>1, Frame DEF Poll
<1>9. CASE ReadLogs(j)
  <2>1. WorkerTypeOK'
    BY <1>9 DEF WorkerTypeOK, ReadLogs, LogResults, GoTo, WorkerPcs, LogLevels, Tracking
  <2> QED
    BY <1>9, <2>1, Frame DEF ReadLogs
<1>10. CASE Snapshot(j) \/ SaveLogs(j)
  <2>1. WorkerTypeOK'
    BY <1>10 DEF WorkerTypeOK, Snapshot, SaveLogs, LogUsed, GoTo, WorkerPcs, LogLevels,
                 Tracking
  <2>2. BucketTypeOK'
    BY <1>10 DEF BucketTypeOK, WorkerTypeOK, Snapshot, SaveLogs, SafePutLogs
  <2> QED
    BY <1>10, <2>1, <2>2, Frame DEF Snapshot, SaveLogs
<1>11. CASE TimeoutStop(j) \/ TimeoutRemove(j)
  <2>1. WorkerTypeOK'
    BY <1>11 DEF WorkerTypeOK, TimeoutStop, TimeoutRemove, GoTo, WorkerPcs, Tracking
  <2>2. ProvidersTypeOK'
    BY <1>11, StopRunTypes, RemoveRunTypes
       DEF WorkerTypeOK, TimeoutStop, TimeoutRemove, Tracking
  <2> QED
    BY <1>11, <2>1, <2>2, Frame DEF TimeoutStop, TimeoutRemove
<1>12. CASE TimeoutLogs(j)
  <2>1. WorkerTypeOK'
    BY <1>12 DEF WorkerTypeOK, TimeoutLogs, LogResults, GoTo, WorkerPcs, LogLevels,
                 Outcomes, Tracking
  <2> QED
    BY <1>12, <2>1, Frame DEF TimeoutLogs
<1>13. CASE Collect(j)
  <2>1. WorkerTypeOK'
    BY <1>13 DEF WorkerTypeOK, Collect, HasCheckpoint, GoTo, WorkerPcs, Tracking
  <2>2. BucketTypeOK'
    BY <1>13 DEF BucketTypeOK, Collect, HasCheckpoint
  <2> QED
    BY <1>13, <2>1, <2>2, Frame DEF Collect
<1>14. CASE Finish(j)
  <2>1. DbTypeOK'
    BY <1>14 DEF DbTypeOK, WorkerTypeOK, Finish, CommitStatus, Statuses, Terminal, Outcomes
  <2>2. WorkerTypeOK'
    BY <1>14 DEF WorkerTypeOK, Finish, GoTo, WorkerPcs, Statuses, Terminal, Notifiable,
                 Outcomes, Tracking
  <2> QED
    BY <1>14, <2>1, <2>2, Frame DEF Finish
<1> QED
  BY <1>1, <1>2, <1>3, <1>4, <1>4a, <1>5, <1>6, <1>7, <1>8, <1>9, <1>10, <1>11, <1>12,
     <1>13, <1>14 DEF Work

LEMMA TypeAccidents ==
  ASSUME TypeOK, NEW j \in Jobs, AttemptEnds(j) \/ ScriptExits(j)
  PROVE  TypeOK'
<1> USE DEF TypeOK
<1>1. CASE AttemptEnds(j)
  <2>1. QueueTypeOK'
    BY <1>1 DEF QueueTypeOK, AttemptEnds, TaskStates
  <2>2. WorkerTypeOK'
    BY <1>1 DEF WorkerTypeOK, AttemptEnds, GoTo, WorkerPcs, Statuses, Handles, LogLevels,
                Tracking
  <2> QED
    BY <1>1, <2>1, <2>2, Frame DEF AttemptEnds
<1>2. CASE ScriptExits(j)
  <2>1. ProvidersTypeOK'
    BY <1>2 DEF ProvidersTypeOK, ScriptExits, RunExits, RunStates
  <2> QED
    BY <1>2, <2>1, Frame DEF ScriptExits
<1> QED
  BY <1>1, <1>2

LEMMA TypeReconcile ==
  ASSUME TypeOK, Reconcile \/ SweepRaises \/ ApiCrash
  PROVE  TypeOK'
<1> USE DEF TypeOK
<1>1. CASE Sweep \/ \E j \in Jobs : SweepRead(j)
  <2>1. SweepTypeOK'
    BY <1>1 DEF SweepTypeOK, DbTypeOK, Sweep, SweepRead, SweepPcs, Handles
  <2> QED
    BY <1>1, <2>1, Frame DEF Sweep, SweepRead
<1>2. CASE SweepPoll \/ SweepLogs
  <2>1. SweepTypeOK'
    BY <1>2 DEF SweepTypeOK, SweepPoll, SweepLogs, SweepForgets, PollResults, LogResults,
                SweepPcs, Handles, Outcomes, LogLevels
  <2> QED
    BY <1>2, <2>1, Frame DEF SweepPoll, SweepLogs
<1>3. CASE SweepPut \/ SweepCollect
  <2>1. SweepTypeOK'
    BY <1>3 DEF SweepTypeOK, SweepPut, SweepCollect, HasCheckpoint, SweepPcs, LogLevels
  <2>2. BucketTypeOK'
    BY <1>3 DEF BucketTypeOK, SweepTypeOK, SweepPut, SweepCollect, HasCheckpoint
  <2> QED
    BY <1>3, <2>1, <2>2, Frame DEF SweepPut, SweepCollect
<1>4. CASE SweepKnown
  <2>1. SweepTypeOK'
    BY <1>4 DEF SweepTypeOK, SweepKnown, SweepPcs
  <2> QED
    BY <1>4, <2>1, Frame DEF SweepKnown
<1>5. CASE SweepCommit
  <2>1. SweepTypeOK'
    BY <1>5 DEF SweepTypeOK, SweepCommit, SweepPcs
  <2>2. DbTypeOK'
    BY <1>5 DEF DbTypeOK, SweepTypeOK, SweepCommit, CommitStatus, Statuses, Terminal,
                Outcomes
  <2> QED
    BY <1>5, <2>1, <2>2, Frame DEF SweepCommit
<1>6. CASE SweepTell \/ SweepMail
  <2>1. SweepTypeOK'
    BY <1>6 DEF SweepTypeOK, SweepTell, SweepMail, SweepForgets, SweepPcs, Handles,
                LogLevels
  <2>2. DbTypeOK'
    BY <1>6, Frame DEF DbTypeOK, SweepTypeOK, SweepTell, SweepMail, InsertNotification,
                       Notifiable
  <2>3. QueueTypeOK'
    BY <1>6, Frame, EnqueueMailTypes DEF QueueTypeOK, SweepTypeOK, SweepTell, SweepMail,
                                         Notifiable
  <2> QED
    BY <1>6, <2>1, <2>2, <2>3, Frame DEF SweepTell, SweepMail
<1>7. CASE SweepRaises \/ ApiCrash
  <2>1. SweepTypeOK'
    BY <1>7 DEF SweepTypeOK, SweepRaises, ApiCrash, SweepForgets, SweepPcs, Handles,
                LogLevels
  <2>2. CancelTypeOK' /\ QueueTypeOK'
    BY <1>7, Frame DEF CancelTypeOK, QueueTypeOK, SweepRaises, ApiCrash, CancelPcs,
                       Handles, TaskStates
  <2> QED
    BY <1>7, <2>1, <2>2, Frame DEF SweepRaises, ApiCrash
<1> QED
  BY <1>1, <1>2, <1>3, <1>4, <1>5, <1>6, <1>7 DEF Reconcile

LEMMA TypeNext == TypeOK /\ [Next]_vars => TypeOK'
<1> SUFFICES ASSUME TypeOK, [Next]_vars PROVE TypeOK'
  OBVIOUS
<1>1. CASE UNCHANGED vars
  BY <1>1, Frame DEF vars, TypeOK
<1> QED
  BY <1>1, TypeCreate, TypeCancel, TypeWork, TypeAccidents, TypeReconcile DEF Next

\* Every variable keeps its type; a notification is about a notifiable status and
\* a handle in use names a run.
THEOREM TypeCorrect == Spec => []TypeOK
  BY TypeInit, TypeNext, PTL DEF Spec

---------------------------------------------------------------------------
(* Notifications tell of committed statuses.                               *)

LEMMA NoticeInit == Init => NoticeInv
  BY DEF Init, NoticeInv

LEMMA NoticeRequests ==
  ASSUME TypeOK, NoticeInv, NEW j \in Jobs,
         Create(j) \/ Cancel(j) \/ AttemptEnds(j) \/ ScriptExits(j)
  PROVE  NoticeInv'
<1> USE DEF NoticeInv, TypeOK, DbTypeOK, WorkerTypeOK, SweepTypeOK, dbVars, workerVars,
            sweepVars
<1>1. CASE CreateJob(j)
  BY <1>1 DEF CreateJob, CommitStatus
<1>2. CASE CancelWrite(j)
  BY <1>2 DEF CancelWrite, CommitStatus
<1>3. CASE EnqueueJob(j) \/ CancelRead(j) \/ CancelStop(j) \/ CancelRemove(j)
           \/ CancelRaises(j) \/ ScriptExits(j)
  BY <1>3 DEF EnqueueJob, CancelRead, CancelStop, CancelRemove, CancelRaises, ScriptExits
<1>4. CASE AttemptEnds(j)
  BY <1>4 DEF AttemptEnds, GoTo
<1> QED
  BY <1>1, <1>2, <1>3, <1>4 DEF Create, Cancel

LEMMA NoticeWork ==
  ASSUME TypeOK, NoticeInv, NEW j \in Jobs, Work(j)
  PROVE  NoticeInv'
<1> USE DEF NoticeInv, TypeOK, DbTypeOK, WorkerTypeOK, SweepTypeOK, dbVars, workerVars,
            sweepVars, GoTo
<1>1. CASE PickUp(j)
  BY <1>1 DEF PickUp
<1>2. CASE DropTask(j)
  BY <1>2 DEF DropTask
<1>3. CASE MarkRunning(j)
  BY <1>3 DEF MarkRunning, CommitStatus
<1>4. CASE Tell(j)
  BY <1>4 DEF Tell, AfterNotice, InsertNotification
<1>5. CASE Mail(j)
  BY <1>5 DEF Mail, AfterNotice
<1>6. CASE SubmitRaises(j)
  BY <1>6 DEF SubmitRaises, CommitStatus
<1>7. CASE Finish(j)
  BY <1>7 DEF Finish, CommitStatus
<1>8. CASE Submit(j) \/ RecordHandle(j) \/ Poll(j) \/ ReadLogs(j) \/ TimeoutLogs(j)
  BY <1>8 DEF Submit, RecordHandle, Poll, ReadLogs, TimeoutLogs
<1>9. CASE Snapshot(j) \/ TimeoutStop(j) \/ TimeoutRemove(j) \/ SaveLogs(j) \/ Collect(j)
  BY <1>9 DEF Snapshot, TimeoutStop, TimeoutRemove, SaveLogs, Collect
<1> QED
  BY <1>1, <1>2, <1>3, <1>4, <1>5, <1>6, <1>7, <1>8, <1>9 DEF Work

LEMMA NoticeSweep ==
  ASSUME TypeOK, NoticeInv, Reconcile \/ SweepRaises \/ ApiCrash
  PROVE  NoticeInv'
<1> USE DEF NoticeInv, TypeOK, DbTypeOK, SweepTypeOK, dbVars, workerVars
<1>1. CASE SweepCommit
  BY <1>1 DEF SweepCommit, CommitStatus
<1>2. CASE SweepTell
  BY <1>2 DEF SweepTell, SweepForgets, InsertNotification
<1>3. CASE Sweep \/ (\E j \in Jobs : SweepRead(j)) \/ SweepPoll \/ SweepMail
           \/ SweepRaises \/ ApiCrash
  BY <1>3 DEF Sweep, SweepRead, SweepPoll, SweepMail, SweepRaises, ApiCrash, SweepForgets
<1>4. CASE SweepLogs \/ SweepPut \/ SweepCollect \/ SweepKnown
  BY <1>4 DEF SweepLogs, SweepPut, SweepCollect, SweepKnown
<1> QED
  BY <1>1, <1>2, <1>3, <1>4 DEF Reconcile

LEMMA NoticeNext == TypeOK /\ NoticeInv /\ [Next]_vars => NoticeInv'
<1> SUFFICES ASSUME TypeOK, NoticeInv, [Next]_vars PROVE NoticeInv'
  OBVIOUS
<1>1. CASE UNCHANGED vars
  BY <1>1 DEF NoticeInv, vars, dbVars, workerVars, sweepVars
<1> QED
  BY <1>1, NoticeRequests, NoticeWork, NoticeSweep DEF Next

\* No notification is ever recorded for a status that was not committed first,
\* whichever finaliser records it and wherever either of them is cut short.
THEOREM NoticesAreCommitted == Spec => []NoticeFollowsCommit
<1>1. NoticeInv => NoticeFollowsCommit
  BY DEF NoticeInv, NoticeFollowsCommit
<1> QED
  BY <1>1, TypeCorrect, NoticeInit, NoticeNext, PTL DEF Spec

---------------------------------------------------------------------------
(* At most one email per job and event.                                    *)

LEMMA MailInit == Init => MailInv
  BY DEF Init, MailInv, TaskOwes, SweepOwes

\* Queueing the email of (j, s) leaves every other counter alone.
LEMMA EnqueueMailCounts ==
  ASSUME QueueTypeOK, NEW j \in Jobs, NEW s \in Notifiable, EnqueueMail(j, s)
  PROVE  \A i \in Jobs, t \in Notifiable :
           \/ mails'[i][t] = mails[i][t]
           \/ i = j /\ t = s /\ mails'[i][t] = mails[i][t] + 1
<1>1. mails \in [Jobs -> [Notifiable -> Nat]]
  BY DEF QueueTypeOK
<1>2. CASE mails' = [mails EXCEPT ![j] = [mails[j] EXCEPT ![s] = mails[j][s] + 1]]
  <2> TAKE i \in Jobs, t \in Notifiable
  <2>1. CASE i = j
    <3>1. mails'[i] = [mails[j] EXCEPT ![s] = mails[j][s] + 1]
      BY <1>1, <1>2, <2>1
    <3>2. mails[j] \in [Notifiable -> Nat]
      BY <1>1
    <3> QED
      BY <2>1, <3>1, <3>2
  <2>2. CASE i # j
    BY <1>1, <1>2, <2>2
  <2> QED
    BY <2>1, <2>2
<1>3. CASE UNCHANGED mails
  BY <1>3
<1> QED
  BY <1>2, <1>3 DEF EnqueueMail

LEMMA MailRequests ==
  ASSUME TypeOK, MailInv, NEW j \in Jobs,
         Create(j) \/ Cancel(j) \/ AttemptEnds(j) \/ ScriptExits(j)
  PROVE  MailInv'
<1> USE DEF MailInv, TaskOwes, SweepOwes, TypeOK, DbTypeOK, QueueTypeOK, WorkerTypeOK,
            dbVars, queueVars, workerVars, sweepVars
<1>1. CASE CreateJob(j) \/ EnqueueJob(j) \/ CancelRead(j) \/ CancelWrite(j) \/ ScriptExits(j)
  BY <1>1 DEF CreateJob, EnqueueJob, CancelRead, CancelWrite, ScriptExits
<1>2. CASE CancelStop(j) \/ CancelRemove(j) \/ CancelRaises(j)
  BY <1>2 DEF CancelStop, CancelRemove, CancelRaises
<1>3. CASE AttemptEnds(j)
  <2>1. /\ wpc'[j] = "idle"
        /\ \A i \in Jobs : i # j => wpc'[i] = wpc[i] /\ wst'[i] = wst[i]
        /\ UNCHANGED <<notified, mails, rpc, rjob, robs>>
    BY <1>3 DEF AttemptEnds, GoTo
  <2> QED
    BY <2>1
<1> QED
  BY <1>1, <1>2, <1>3 DEF Create, Cancel

LEMMA MailWork ==
  ASSUME TypeOK, MailInv, NEW j \in Jobs, Work(j)
  PROVE  MailInv'
<1> USE DEF MailInv, TaskOwes, SweepOwes, TypeOK, DbTypeOK, QueueTypeOK, WorkerTypeOK,
            SweepTypeOK, dbVars, queueVars, workerVars, sweepVars, GoTo
<1>1. CASE PickUp(j) \/ DropTask(j) \/ MarkRunning(j) \/ SubmitRaises(j) \/ Finish(j)
  BY <1>1 DEF PickUp, DropTask, MarkRunning, SubmitRaises, Finish
<1>2. CASE Submit(j) \/ RecordHandle(j) \/ Poll(j) \/ ReadLogs(j) \/ TimeoutLogs(j)
  BY <1>2 DEF Submit, RecordHandle, Poll, ReadLogs, TimeoutLogs
<1>3. CASE Snapshot(j) \/ TimeoutStop(j) \/ TimeoutRemove(j) \/ SaveLogs(j) \/ Collect(j)
  BY <1>3 DEF Snapshot, TimeoutStop, TimeoutRemove, SaveLogs, Collect
<1>4. CASE Tell(j)
  <2>1. CASE wst[j] \notin notified[j]
    BY <1>4, <2>1 DEF Tell, RowInserted, InsertNotification
  <2>2. CASE wst[j] \in notified[j]
    BY <1>4, <2>2 DEF Tell, RowInserted, InsertNotification, AfterNotice
  <2> QED
    BY <2>1, <2>2
<1>5. CASE Mail(j)
  <2>1. wst[j] \in Notifiable /\ TaskOwes(j, wst[j])
    BY <1>5 DEF Mail
  <2>2. /\ wpc'[j] # "mail"
        /\ \A i \in Jobs : i # j => wpc'[i] = wpc[i] /\ wst'[i] = wst[i]
        /\ UNCHANGED <<notified, rpc, rjob, robs>>
    BY <1>5 DEF Mail, AfterNotice
  <2> HIDE DEF QueueTypeOK
  <2>3. \A i \in Jobs, t \in Notifiable :
           \/ mails'[i][t] = mails[i][t]
           \/ i = j /\ t = wst[j] /\ mails'[i][t] = mails[i][t] + 1
    BY <1>5, <2>1, EnqueueMailCounts DEF Mail
  <2> QED
    BY <2>1, <2>2, <2>3
<1> QED
  BY <1>1, <1>2, <1>3, <1>4, <1>5 DEF Work

LEMMA MailSweep ==
  ASSUME TypeOK, MailInv, Reconcile \/ SweepRaises \/ ApiCrash
  PROVE  MailInv'
<1> USE DEF MailInv, TaskOwes, SweepOwes, TypeOK, DbTypeOK, QueueTypeOK, SweepTypeOK,
            dbVars, queueVars, workerVars
<1>1. CASE Sweep \/ (\E j \in Jobs : SweepRead(j)) \/ SweepPoll \/ SweepCommit
           \/ SweepRaises \/ ApiCrash
  BY <1>1 DEF Sweep, SweepRead, SweepPoll, SweepCommit, SweepRaises, ApiCrash, SweepForgets
<1>2. CASE SweepLogs \/ SweepPut \/ SweepCollect \/ SweepKnown
  BY <1>2 DEF SweepLogs, SweepPut, SweepCollect, SweepKnown
<1>3. CASE SweepTell
  <2>1. CASE robs \notin notified[rjob]
    BY <1>3, <2>1 DEF SweepTell, RowInserted, InsertNotification
  <2>2. CASE robs \in notified[rjob]
    BY <1>3, <2>2 DEF SweepTell, RowInserted, InsertNotification, SweepForgets
  <2> QED
    BY <2>1, <2>2
<1>4. CASE SweepMail
  <2>1. robs \in Notifiable /\ SweepOwes(rjob, robs)
    BY <1>4 DEF SweepMail, Notifiable
  <2>2. rpc' # "mail" /\ UNCHANGED <<notified, wpc, wst>>
    BY <1>4 DEF SweepMail, SweepForgets
  <2> HIDE DEF QueueTypeOK
  <2>3. \A i \in Jobs, t \in Notifiable :
           \/ mails'[i][t] = mails[i][t]
           \/ i = rjob /\ t = robs /\ mails'[i][t] = mails[i][t] + 1
    BY <1>4, <2>1, EnqueueMailCounts DEF SweepMail
  <2> QED
    BY <2>1, <2>2, <2>3
<1> QED
  BY <1>1, <1>2, <1>3, <1>4 DEF Reconcile

LEMMA MailNext == TypeOK /\ MailInv /\ [Next]_vars => MailInv'
<1> SUFFICES ASSUME TypeOK, MailInv, [Next]_vars PROVE MailInv'
  OBVIOUS
<1>1. CASE UNCHANGED vars
  BY <1>1 DEF MailInv, TaskOwes, SweepOwes, vars, dbVars, queueVars, workerVars, sweepVars
<1> QED
  BY <1>1, MailRequests, MailWork, MailSweep DEF Next

\* The unique (job_id, event) row makes the email unique: whichever of the task's
\* attempts and the sweeps race to tell it, it is queued at most once.
THEOREM MailsAreUnique == Spec => []MailedOnce
<1>1. MailInv => MailedOnce
  BY DEF MailInv, MailedOnce
<1> QED
  BY <1>1, TypeCorrect, MailInit, MailNext, PTL DEF Spec

---------------------------------------------------------------------------
(* Recorded handles and recorded outcomes.                                 *)

LEMMA OutcomeInit == Init => OutcomeInv
  BY DEF Init, OutcomeInv, TaskHandle, SweepHandle, Observed

\* What the operations of a provider do to its runs: a run that exited 0 stays
\* so, and a run starts in SubmitRun only.
LEMMA ProviderSteps ==
  ASSUME ProvidersTypeOK, NEW j \in Jobs, NEW n \in RunIds
  PROVE  /\ SubmitRun(j, n) =>
              \A i \in Jobs, m \in RunIds :
                /\ run[i][m] = "ok" => run'[i][m] = "ok"
                /\ i # j => run'[i][m] = run[i][m]
         /\ StopRun(j, n) \/ RunExits(j, n) =>
              \A i \in Jobs, m \in RunIds :
                /\ run[i][m] = "ok" => run'[i][m] = "ok"
                /\ run[i][m] = "none" => run'[i][m] = "none"
<1>1. run \in [Jobs -> [RunIds -> RunStates]]
  BY DEF ProvidersTypeOK
<1>2. ASSUME NEW code \in RunStates, run' = [run EXCEPT ![j] = [run[j] EXCEPT ![n] = code]],
             NEW i \in Jobs, NEW m \in RunIds
      PROVE  run'[i][m] = IF i = j /\ m = n THEN code ELSE run[i][m]
  <2>1. CASE i = j
    <3>1. run'[i] = [run[j] EXCEPT ![n] = code]
      BY <1>1, <1>2, <2>1
    <3>2. run[j] \in [RunIds -> RunStates]
      BY <1>1
    <3> QED
      BY <2>1, <3>1, <3>2
  <2>2. CASE i # j
    BY <1>1, <1>2, <2>2
  <2> QED
    BY <2>1, <2>2
<1>3. ASSUME SubmitRun(j, n), NEW i \in Jobs, NEW m \in RunIds
      PROVE  /\ run[i][m] = "ok" => run'[i][m] = "ok"
             /\ i # j => run'[i][m] = run[i][m]
  <2>1. run' = [run EXCEPT ![j] = [run[j] EXCEPT ![n] = "up"]] /\ run[j][n] = "none"
    BY <1>3 DEF SubmitRun
  <2> QED
    BY <1>2, <2>1 DEF RunStates
<1>4. ASSUME StopRun(j, n) \/ RunExits(j, n), NEW i \in Jobs, NEW m \in RunIds
      PROVE  /\ run[i][m] = "ok" => run'[i][m] = "ok"
             /\ run[i][m] = "none" => run'[i][m] = "none"
  <2>1. PICK code \in {"ok", "bad"} :
          run' = [run EXCEPT ![j] = [run[j] EXCEPT ![n] = IF run[j][n] = "up" THEN code
                                                          ELSE run[j][n]]]
    BY <1>4 DEF StopRun, RunExits
  <2>2. (IF run[j][n] = "up" THEN code ELSE run[j][n]) \in RunStates
    BY <1>1 DEF RunStates
  <2> QED
    BY <1>2, <2>1, <2>2
<1> QED
  BY <1>3, <1>4

LEMMA OutcomeRequests ==
  ASSUME TypeOK, OutcomeInv, NEW j \in Jobs,
         Create(j) \/ Cancel(j) \/ AttemptEnds(j) \/ ScriptExits(j)
  PROVE  OutcomeInv'
<1> USE DEF OutcomeInv, TaskHandle, SweepHandle, Observed, SweepObserved, TypeOK, DbTypeOK,
            WorkerTypeOK, SweepTypeOK
<1>1. CASE CreateJob(j) \/ CancelWrite(j)
  BY <1>1 DEF CreateJob, CancelWrite, CommitStatus, providerVars, runVars, workerVars, sweepVars
<1>2. CASE EnqueueJob(j) \/ CancelRead(j) \/ CancelRemove(j) \/ CancelRaises(j)
  BY <1>2 DEF EnqueueJob, CancelRead, CancelRemove, RemoveRun, CancelRaises, providerVars,
              runVars, dbVars, workerVars, sweepVars
<1>3. CASE AttemptEnds(j)
  <2>1. /\ wpc'[j] = "idle"
        /\ \A i \in Jobs : i # j => /\ wpc'[i] = wpc[i] /\ whandle'[i] = whandle[i]
                                    /\ wobs'[i] = wobs[i]
        /\ UNCHANGED <<status, container, run, sweepVars>>
    BY <1>3 DEF AttemptEnds, GoTo, dbVars, providerVars, runVars
  <2> QED
    BY <2>1 DEF sweepVars
<1>4. CASE CancelStop(j) \/ ScriptExits(j)
  <2>1. UNCHANGED <<status, container, workerVars, sweepVars>>
    BY <1>4 DEF CancelStop, ScriptExits, dbVars
  <2>2. PICK n \in RunIds : StopRun(j, n) \/ RunExits(j, n)
    BY <1>4 DEF CancelStop, ScriptExits, CancelTypeOK
  <2>3. \A i \in Jobs, m \in RunIds : run[i][m] = "ok" => run'[i][m] = "ok"
    BY <2>2, ProviderSteps
  <2>4. \A i \in Jobs : wpc[i] \in Observed => whandle[i] \in RunIds
    BY DEF Tracking
  <2>5. \A i \in Jobs : container[i] # NoRun => container[i] \in RunIds
    BY DEF Handles
  <2> QED
    BY <2>1, <2>3, <2>4, <2>5 DEF workerVars, sweepVars
<1> QED
  BY <1>1, <1>2, <1>3, <1>4 DEF Create, Cancel

LEMMA OutcomeWork ==
  ASSUME TypeOK, OutcomeInv, NEW j \in Jobs, Work(j)
  PROVE  OutcomeInv'
<1> USE DEF OutcomeInv, TaskHandle, SweepHandle, Observed, SweepObserved, TypeOK, DbTypeOK,
            WorkerTypeOK, SweepTypeOK, GoTo
<1>1. CASE PickUp(j) \/ DropTask(j) \/ MarkRunning(j) \/ SubmitRaises(j)
  BY <1>1 DEF PickUp, DropTask, MarkRunning, SubmitRaises, CommitStatus, dbVars, providerVars,
              runVars, workerVars, sweepVars
<1>2. CASE Tell(j) \/ Mail(j)
  <2>1. /\ UNCHANGED <<status, container, run, sweepVars>>
        /\ \A i \in Jobs : i # j => /\ wpc'[i] = wpc[i] /\ whandle'[i] = whandle[i]
                                    /\ wobs'[i] = wobs[i]
    BY <1>2 DEF Tell, Mail, AfterNotice, dbVars, providerVars, runVars
  <2>2. \/ wpc'[j] = "idle"
        \/ wpc'[j] = "mail" /\ UNCHANGED whandle
        \/ wpc'[j] = "poll" /\ UNCHANGED whandle
        \/ wpc'[j] = "submit" /\ whandle[j] = NoRun /\ UNCHANGED whandle
    BY <1>2 DEF Tell, Mail, AfterNotice
  <2>3. wpc[j] \in {"tell", "mail"}
    BY <1>2 DEF Tell, Mail
  <2> QED
    BY <2>1, <2>2, <2>3 DEF sweepVars
<1>3. CASE Submit(j)
  <2>1. PICK n \in RunIds : SubmitRun(j, n) /\ whandle' = [whandle EXCEPT ![j] = n]
    BY <1>3 DEF Submit
  <2>2. /\ UNCHANGED <<status, container, wobs, sweepVars>>
        /\ wpc[j] = "submit" /\ wpc' = [wpc EXCEPT ![j] = "record"]
    BY <1>3 DEF Submit, dbVars
  <2>3. \A i \in Jobs, m \in RunIds : run[i][m] = "ok" => run'[i][m] = "ok"
    BY <2>1, ProviderSteps
  <2>4. \A i \in Jobs : wpc[i] \in Observed => whandle[i] \in RunIds
    BY DEF Tracking
  <2>5. \A i \in Jobs : container[i] # NoRun => container[i] \in RunIds
    BY DEF Handles
  <2> QED
    BY <2>1, <2>2, <2>3, <2>4, <2>5 DEF sweepVars
<1>4. CASE RecordHandle(j)
  BY <1>4 DEF RecordHandle, providerVars, runVars, sweepVars
<1>5. CASE Poll(j)
  <2>1. PICK r \in PollResults(j, whandle[j]) : wobs' = [wobs EXCEPT ![j] = r]
    BY <1>5 DEF Poll
  <2>2. r = "succeeded" => run[j][whandle[j]] = "ok"
    BY DEF PollResults
  <2>3. /\ UNCHANGED <<status, container, run, whandle, sweepVars>>
        /\ wpc[j] = "poll" /\ wpc' = [wpc EXCEPT ![j] = "logs"]
    BY <1>5 DEF Poll, dbVars, providerVars, runVars
  <2> QED
    BY <2>1, <2>2, <2>3 DEF sweepVars
<1>6. CASE ReadLogs(j) \/ Snapshot(j) \/ TimeoutLogs(j) \/ SaveLogs(j) \/ Collect(j)
  BY <1>6 DEF ReadLogs, Snapshot, TimeoutLogs, SaveLogs, Collect, dbVars, providerVars,
              runVars, sweepVars
<1>7. CASE TimeoutStop(j)
  <2>1. \A i \in Jobs, m \in RunIds : run[i][m] = "ok" => run'[i][m] = "ok"
    BY <1>7, ProviderSteps DEF TimeoutStop, Tracking
  <2>2. /\ UNCHANGED <<status, container, whandle, wobs, sweepVars>>
        /\ wpc[j] = "stop"
        /\ wpc' = [wpc EXCEPT ![j] = IF Local(j) THEN "remove" ELSE "relog"]
    BY <1>7 DEF TimeoutStop, dbVars
  <2>3. \A i \in Jobs : wpc[i] \in Observed => whandle[i] \in RunIds
    BY DEF Tracking
  <2>4. \A i \in Jobs : container[i] # NoRun => container[i] \in RunIds
    BY DEF Handles
  <2> QED
    BY <2>1, <2>2, <2>3, <2>4 DEF sweepVars
<1>8. CASE TimeoutRemove(j)
  BY <1>8 DEF TimeoutRemove, RemoveRun, dbVars, sweepVars
<1>9. CASE Finish(j)
  BY <1>9 DEF Finish, CommitStatus, Tracking, RunIds, NoRun, providerVars, runVars, sweepVars
<1> QED
  BY <1>1, <1>2, <1>3, <1>4, <1>5, <1>6, <1>7, <1>8, <1>9 DEF Work

LEMMA OutcomeSweep ==
  ASSUME TypeOK, OutcomeInv, Reconcile \/ SweepRaises \/ ApiCrash
  PROVE  OutcomeInv'
<1> USE DEF OutcomeInv, TaskHandle, SweepHandle, Observed, SweepObserved, TypeOK, DbTypeOK,
            SweepTypeOK, dbVars, providerVars, runVars, workerVars
<1>1. CASE Sweep \/ (\E j \in Jobs : SweepRead(j))
  BY <1>1 DEF Sweep, SweepRead
<1>2. CASE SweepPoll
  <2>1. PICK r \in PollResults(rjob, rhandle) :
          IF r = "running" THEN SweepForgets
          ELSE rpc' = "logs" /\ robs' = r /\ UNCHANGED <<rjob, rhandle, rlog, rgot, rknown>>
    BY <1>2 DEF SweepPoll
  <2>2. r = "succeeded" => run[rjob][rhandle] = "ok"
    BY DEF PollResults
  <2>3. rpc = "poll" /\ UNCHANGED <<status, container, run, workerVars>>
    BY <1>2 DEF SweepPoll
  <2> QED
    BY <2>1, <2>2, <2>3 DEF SweepForgets
<1>3. CASE SweepLogs \/ SweepPut \/ SweepCollect \/ SweepKnown
  BY <1>3 DEF SweepLogs, SweepPut, SweepCollect, SweepKnown
<1>4. CASE SweepCommit
  BY <1>4 DEF SweepCommit, CommitStatus
<1>5. CASE SweepTell \/ SweepMail \/ SweepRaises \/ ApiCrash
  BY <1>5 DEF SweepTell, SweepMail, SweepRaises, ApiCrash, SweepForgets
<1> QED
  BY <1>1, <1>2, <1>3, <1>4, <1>5 DEF Reconcile

LEMMA OutcomeNext == TypeOK /\ OutcomeInv /\ [Next]_vars => OutcomeInv'
<1> SUFFICES ASSUME TypeOK, OutcomeInv, [Next]_vars PROVE OutcomeInv'
  OBVIOUS
<1>1. CASE UNCHANGED vars
  BY <1>1 DEF OutcomeInv, TaskHandle, SweepHandle, vars, dbVars, providerVars, runVars,
              workerVars, sweepVars
<1> QED
  BY <1>1, OutcomeRequests, OutcomeWork, OutcomeSweep DEF Next

\* A job is recorded as succeeded only when the run its row points to exited 0,
\* for both finalisers and whatever happens between their look at the run and
\* their commit.
THEOREM SuccessIsGenuine == Spec => []SucceededIsTrue
<1>1. OutcomeInv => SucceededIsTrue
  BY DEF OutcomeInv, SucceededIsTrue
<1> QED
  BY <1>1, TypeCorrect, OutcomeInit, OutcomeNext, PTL DEF Spec

\* A handle, once in the row, stays there, and no run is started afterwards: the
\* step that could is Submit, and it is at "submit" that the row has no handle.
LEMMA HandleStays ==
  ASSUME TypeOK, OutcomeInv, [Next]_vars, NEW j \in Jobs, container[j] # NoRun
  PROVE  /\ container'[j] = container[j]
         /\ \A n \in RunIds : run[j][n] = "none" => run'[j][n] = "none"
<1> USE DEF TypeOK
<1>1. wpc[j] \notin {"submit", "record"}
  BY DEF OutcomeInv, TaskHandle
<1>2. ASSUME NEW i \in Jobs, Create(i) \/ Cancel(i) \/ AttemptEnds(i) \/ ScriptExits(i)
      PROVE  UNCHANGED container /\ \A n \in RunIds : run[j][n] = "none" => run'[j][n] = "none"
  <2>1. CASE CancelStop(i) \/ ScriptExits(i)
    <3>1. PICK n \in RunIds : StopRun(i, n) \/ RunExits(i, n)
      BY <2>1 DEF CancelStop, ScriptExits, CancelTypeOK
    <3>2. UNCHANGED container
      BY <2>1 DEF CancelStop, ScriptExits, dbVars
    <3> QED
      BY <3>1, <3>2, ProviderSteps
  <2>2. CASE CreateJob(i) \/ EnqueueJob(i) \/ CancelRead(i) \/ CancelRemove(i)
             \/ CancelWrite(i) \/ CancelRaises(i) \/ AttemptEnds(i)
    BY <2>2 DEF CreateJob, EnqueueJob, CancelRead, CancelRemove, RemoveRun, CancelWrite,
                CancelRaises, AttemptEnds, dbVars, providerVars, runVars
  <2> QED
    BY <1>2, <2>1, <2>2 DEF Create, Cancel
<1>3. ASSUME NEW i \in Jobs, Work(i)
      PROVE  /\ container'[j] = container[j]
             /\ \A n \in RunIds : run[j][n] = "none" => run'[j][n] = "none"
  <2>1. CASE Submit(i)
    <3>1. i # j /\ UNCHANGED container
      BY <1>1, <2>1 DEF Submit, dbVars
    <3> QED
      BY <2>1, <3>1, ProviderSteps DEF Submit
  <2>2. CASE RecordHandle(i)
    BY <1>1, <2>2 DEF RecordHandle, DbTypeOK, providerVars, runVars
  <2>3. CASE TimeoutStop(i)
    BY <2>3, ProviderSteps DEF TimeoutStop, WorkerTypeOK, Tracking, dbVars
  <2>4. CASE TimeoutRemove(i)
    BY <2>4 DEF TimeoutRemove, RemoveRun, dbVars
  <2>5. CASE PickUp(i) \/ DropTask(i) \/ MarkRunning(i) \/ Tell(i) \/ Mail(i)
             \/ SubmitRaises(i) \/ Finish(i)
    BY <2>5 DEF PickUp, DropTask, MarkRunning, Tell, Mail, SubmitRaises, Finish, dbVars,
                providerVars, runVars
  <2>6. CASE Poll(i) \/ ReadLogs(i) \/ Snapshot(i) \/ TimeoutLogs(i) \/ SaveLogs(i)
             \/ Collect(i)
    BY <2>6 DEF Poll, ReadLogs, Snapshot, TimeoutLogs, SaveLogs, Collect, dbVars,
                providerVars, runVars
  <2> QED
    BY <1>3, <2>1, <2>2, <2>3, <2>4, <2>5, <2>6 DEF Work
<1>4. CASE Reconcile \/ SweepRaises \/ ApiCrash
  BY <1>4 DEF Reconcile, Sweep, SweepRead, SweepPoll, SweepLogs, SweepPut, SweepCollect,
              SweepKnown, SweepCommit, SweepTell, SweepMail, SweepRaises, ApiCrash,
              SweepForgets, dbVars, providerVars, runVars
<1>5. CASE UNCHANGED vars
  BY <1>5 DEF vars, dbVars, providerVars, runVars
<1> QED
  BY <1>2, <1>3, <1>4, <1>5 DEF Next

\* Every attempt after the one that recorded a handle reattaches to that run.
THEOREM ReattachesOnly == Spec => TrackedRunIsOnly
<1>1. TypeOK /\ OutcomeInv /\ [Next]_vars =>
        [\A j \in Jobs : container[j] # NoRun =>
            /\ container'[j] = container[j]
            /\ \A n \in RunIds : run[j][n] = "none" => run'[j][n] = "none"]_vars
  BY HandleStays
<1> QED
  BY <1>1, TypeCorrect, OutcomeInit, OutcomeNext, PTL DEF Spec, TrackedRunIsOnly

---------------------------------------------------------------------------
(* Whoever is at work on a job, the job has a row.                         *)

LEMMA RowInit == Init => RowInv
  BY DEF Init, RowInv, Ending, SweepEnding

LEMMA RowRequests ==
  ASSUME TypeOK, RowInv, NEW j \in Jobs,
         Create(j) \/ Cancel(j) \/ AttemptEnds(j) \/ ScriptExits(j)
  PROVE  RowInv'
<1> USE DEF RowInv, Ending, TypeOK, DbTypeOK, QueueTypeOK, WorkerTypeOK, SweepTypeOK,
            CancelTypeOK, dbVars, queueVars, workerVars, sweepVars, cancelVars
<1>1. CASE CreateJob(j)
  BY <1>1 DEF CreateJob, CommitStatus
<1>2. CASE EnqueueJob(j) \/ ScriptExits(j)
  BY <1>2 DEF EnqueueJob, ScriptExits
<1>3. CASE CancelRead(j)
  BY <1>3 DEF CancelRead, Cancellable
<1>4. CASE CancelStop(j) \/ CancelRemove(j) \/ CancelRaises(j)
  BY <1>4 DEF CancelStop, CancelRemove, CancelRaises
<1>5. CASE CancelWrite(j)
  BY <1>5 DEF CancelWrite, CommitStatus
<1>6. CASE AttemptEnds(j)
  BY <1>6 DEF AttemptEnds, GoTo
<1> QED
  BY <1>1, <1>2, <1>3, <1>4, <1>5, <1>6 DEF Create, Cancel

LEMMA RowWork ==
  ASSUME TypeOK, RowInv, NEW j \in Jobs, Work(j)
  PROVE  RowInv'
<1> USE DEF RowInv, Ending, TypeOK, DbTypeOK, QueueTypeOK, WorkerTypeOK, SweepTypeOK, dbVars,
            queueVars, workerVars, sweepVars, cancelVars, GoTo
<1>1. CASE PickUp(j) \/ DropTask(j)
  BY <1>1 DEF PickUp, DropTask
<1>2. CASE MarkRunning(j) \/ SubmitRaises(j) \/ Finish(j)
  BY <1>2 DEF MarkRunning, SubmitRaises, Finish, CommitStatus, Outcomes
<1>3. CASE Tell(j) \/ Mail(j)
  <2>1. /\ UNCHANGED <<status, container, sweepVars, cancelVars>>
        /\ \A i \in Jobs : i # j => /\ wpc'[i] = wpc[i] /\ wobs'[i] = wobs[i]
                                    /\ task'[i] = task[i]
    BY <1>3 DEF Tell, Mail, AfterNotice
  <2>2. wpc[j] \in {"tell", "mail"} /\ wpc'[j] \in {"idle", "mail", "submit", "poll"}
    BY <1>3 DEF Tell, Mail, AfterNotice
  <2> QED
    BY <2>1, <2>2
<1>4. CASE Submit(j) \/ RecordHandle(j)
  <2>1. CASE Submit(j)
    BY <2>1 DEF Submit
  <2>2. CASE RecordHandle(j)
    BY <2>2 DEF RecordHandle
  <2> QED
    BY <1>4, <2>1, <2>2
<1>5. CASE Poll(j) \/ ReadLogs(j) \/ Snapshot(j)
  <2>1. CASE Poll(j)
    BY <2>1 DEF Poll
  <2>2. CASE ReadLogs(j)
    BY <2>2 DEF ReadLogs
  <2>3. CASE Snapshot(j)
    BY <2>3 DEF Snapshot, LogUsed
  <2> QED
    BY <1>5, <2>1, <2>2, <2>3
<1>6. CASE TimeoutStop(j) \/ TimeoutRemove(j) \/ TimeoutLogs(j)
  BY <1>6 DEF TimeoutStop, TimeoutRemove, TimeoutLogs, Outcomes
<1>7. CASE SaveLogs(j) \/ Collect(j)
  BY <1>7 DEF SaveLogs, LogUsed, Collect
<1> QED
  BY <1>1, <1>2, <1>3, <1>4, <1>5, <1>6, <1>7 DEF Work

LEMMA RowSweep ==
  ASSUME TypeOK, RowInv, Reconcile \/ SweepRaises \/ ApiCrash
  PROVE  RowInv'
<1> USE DEF RowInv, SweepEnding, TypeOK, DbTypeOK, QueueTypeOK, SweepTypeOK, SweepPcs, dbVars,
            queueVars, workerVars, cancelVars
<1>1. CASE Sweep \/ (\E j \in Jobs : SweepRead(j))
  BY <1>1 DEF Sweep, SweepRead
<1>2. CASE SweepPoll
  BY <1>2 DEF SweepPoll, SweepForgets, PollResults, Outcomes
<1>3. CASE SweepLogs \/ SweepPut \/ SweepCollect \/ SweepKnown
  BY <1>3 DEF SweepLogs, SweepPut, SweepCollect, SweepKnown
<1>4. CASE SweepCommit
  BY <1>4 DEF SweepCommit, CommitStatus, Outcomes
<1>5. CASE SweepTell \/ SweepMail \/ SweepRaises \/ ApiCrash
  BY <1>5 DEF SweepTell, SweepMail, SweepRaises, ApiCrash, SweepForgets
<1> QED
  BY <1>1, <1>2, <1>3, <1>4, <1>5 DEF Reconcile

LEMMA RowNext == TypeOK /\ RowInv /\ [Next]_vars => RowInv'
<1> SUFFICES ASSUME TypeOK, RowInv, [Next]_vars PROVE RowInv'
  OBVIOUS
<1>1. CASE UNCHANGED vars
  BY <1>1 DEF RowInv, vars, dbVars, queueVars, workerVars, sweepVars, cancelVars
<1> QED
  BY <1>1, RowRequests, RowWork, RowSweep DEF Next

---------------------------------------------------------------------------
(* Every step is one of JobRecord's, or changes nothing JobRecord speaks of *)

RecordStep == \E j \in Jobs :
    \/ Record!Submitted(j) \/ Record!Started(j) \/ Record!Tracked(j)
    \/ Record!Cancelled(j) \/ Record!Told(j)
    \/ \E s \in Record!Ended : Record!EndedAs(j, s)

Stutter == UNCHANGED <<status, container, notified, committed>>

LEMMA RequestsRecord ==
  ASSUME TypeOK, RowInv, NEW j \in Jobs,
         Create(j) \/ Cancel(j) \/ AttemptEnds(j) \/ ScriptExits(j)
  PROVE  RecordStep \/ Stutter
<1>1. CASE CreateJob(j)
  <2> Record!Submitted(j)
    BY <1>1 DEF CreateJob, CommitStatus, Record!Submitted, Record!Becomes
  <2> QED
    BY DEF RecordStep
<1>2. CASE CancelWrite(j)
  <2> Record!Cancelled(j)
    BY <1>2 DEF CancelWrite, CommitStatus, RowInv, Record!Cancelled, Record!Becomes
  <2> QED
    BY DEF RecordStep
<1>3. CASE EnqueueJob(j) \/ CancelRead(j) \/ CancelStop(j) \/ CancelRemove(j)
           \/ CancelRaises(j) \/ AttemptEnds(j) \/ ScriptExits(j)
  BY <1>3 DEF EnqueueJob, CancelRead, CancelStop, CancelRemove, CancelRaises, AttemptEnds,
              ScriptExits, dbVars, Stutter
<1> QED
  BY <1>1, <1>2, <1>3 DEF Create, Cancel

LEMMA WorkRecord ==
  ASSUME TypeOK, NoticeInv, OutcomeInv, RowInv, NEW j \in Jobs, Work(j)
  PROVE  RecordStep \/ Stutter
<1> USE DEF RowInv
<1>1. CASE MarkRunning(j)
  <2> Record!Started(j) \/ Stutter
    BY <1>1 DEF MarkRunning, CommitStatus, Record!Started, Record!Becomes, Stutter
  <2> QED
    BY DEF RecordStep
<1>2. CASE RecordHandle(j)
  <2>1. container[j] = NoRun /\ whandle[j] \in RunIds
    BY <1>2 DEF RecordHandle, OutcomeInv, TaskHandle, TypeOK, WorkerTypeOK, Tracking
  <2>2. Record!Tracked(j)
    BY <1>2, <2>1 DEF RecordHandle, Record!Tracked
  <2> QED
    BY <2>2 DEF RecordStep
<1>3. CASE SubmitRaises(j)
  <2> Record!EndedAs(j, "failed")
    BY <1>3 DEF SubmitRaises, CommitStatus, Record!EndedAs, Record!Becomes
  <2> QED
    BY DEF RecordStep, Record!Ended
<1>4. CASE Finish(j)
  <2>1. wobs[j] \in Record!Ended
    BY <1>4 DEF Finish, Ending, Outcomes, Record!Ended
  <2>2. container[j] # NoRun
    BY <1>4 DEF Finish, OutcomeInv, TaskHandle, TypeOK, WorkerTypeOK, Tracking, RunIds, NoRun
  <2>3. Record!EndedAs(j, wobs[j])
    BY <1>4, <2>2 DEF Finish, CommitStatus, Record!EndedAs, Record!Becomes
  <2> QED
    BY <2>1, <2>3 DEF RecordStep
<1>5. CASE Tell(j)
  <2>1. wst[j] \in committed[j] \cap ({"running"} \cup Record!Ended)
    BY <1>5 DEF Tell, NoticeInv, TypeOK, WorkerTypeOK, Notifiable, Outcomes, Record!Ended
  <2>2. Record!Told(j)
    BY <1>5, <2>1 DEF Tell, InsertNotification, Record!Told
  <2> QED
    BY <2>2 DEF RecordStep
<1>6. CASE PickUp(j) \/ DropTask(j) \/ Mail(j) \/ Submit(j) \/ Poll(j) \/ ReadLogs(j)
           \/ Snapshot(j) \/ TimeoutStop(j) \/ TimeoutRemove(j) \/ TimeoutLogs(j)
           \/ SaveLogs(j) \/ Collect(j)
  BY <1>6 DEF PickUp, DropTask, Mail, Submit, Poll, ReadLogs, Snapshot, TimeoutStop,
              TimeoutRemove, TimeoutLogs, SaveLogs, Collect, dbVars, Stutter
<1> QED
  BY <1>1, <1>2, <1>3, <1>4, <1>5, <1>6 DEF Work

LEMMA SweepRecord ==
  ASSUME TypeOK, NoticeInv, OutcomeInv, RowInv, Reconcile \/ SweepRaises \/ ApiCrash
  PROVE  RecordStep \/ Stutter
<1> USE DEF RowInv, SweepEnding, SweepPcs
<1>1. CASE SweepCommit
  <2>1. rjob \in Jobs /\ robs \in Record!Ended
    BY <1>1 DEF SweepCommit, Outcomes, TypeOK, SweepTypeOK, Record!Ended
  <2>2. container[rjob] # NoRun
    BY <1>1 DEF SweepCommit, OutcomeInv, SweepHandle
  <2>3. Record!EndedAs(rjob, robs)
    BY <1>1, <2>2 DEF SweepCommit, CommitStatus, Record!EndedAs, Record!Becomes
  <2> QED
    BY <2>1, <2>3 DEF RecordStep
<1>2. CASE SweepTell
  <2>1. rjob \in Jobs /\ robs \in committed[rjob] \cap ({"running"} \cup Record!Ended)
    BY <1>2 DEF SweepTell, NoticeInv, Outcomes, TypeOK, SweepTypeOK, Record!Ended
  <2>2. Record!Told(rjob)
    BY <1>2, <2>1 DEF SweepTell, InsertNotification, Record!Told
  <2> QED
    BY <2>1, <2>2 DEF RecordStep
<1>3. CASE Sweep \/ (\E j \in Jobs : SweepRead(j)) \/ SweepPoll \/ SweepLogs \/ SweepPut
           \/ SweepCollect \/ SweepKnown \/ SweepMail \/ SweepRaises \/ ApiCrash
  BY <1>3 DEF Sweep, SweepRead, SweepPoll, SweepLogs, SweepPut, SweepCollect, SweepKnown,
              SweepMail, SweepRaises, ApiCrash, dbVars, Stutter
<1> QED
  BY <1>1, <1>2, <1>3 DEF Reconcile

LEMMA RecordInitial == Init => Record!RecordInit
  BY DEF Init, Record!RecordInit

LEMMA RecordSteps ==
  TypeOK /\ NoticeInv /\ OutcomeInv /\ RowInv /\ [Next]_vars
    => [Record!RecordNext]_(Record!recordVars)
<1> SUFFICES ASSUME TypeOK, NoticeInv, OutcomeInv, RowInv, [Next]_vars
             PROVE  Record!RecordNext \/ UNCHANGED Record!recordVars
  OBVIOUS
<1>1. CASE UNCHANGED vars
  BY <1>1 DEF vars, dbVars, Record!recordVars
<1>2. RecordStep \/ Stutter => Record!RecordNext \/ UNCHANGED Record!recordVars
  BY DEF RecordStep, Stutter, Record!RecordNext, Record!recordVars
<1>3. CASE Next
  BY <1>2, <1>3, RequestsRecord, WorkRecord, SweepRecord DEF Next
<1> QED
  BY <1>1, <1>3

\* The four actors of JobLifecycle together keep the promises of JobRecord, for
\* every number of jobs and attempts, and whatever the environment does.
THEOREM KeepsTheRecord == Spec => ImplementsRecord
<1>1. TypeOK /\ NoticeInv /\ OutcomeInv /\ RowInv /\ [Next]_vars
        => [Record!RecordNext]_(Record!recordVars)
  BY RecordSteps
<1> QED
  BY <1>1, RecordInitial, TypeCorrect, NoticeInit, NoticeNext, OutcomeInit, OutcomeNext,
     RowInit, RowNext, PTL DEF Spec, ImplementsRecord, Record!RecordSpec


---------------------------------------------------------------------------
(* The runs behind the rows.  A run that has ended stays so, and one that  *)
(* was started is never taken for one that was not.                        *)

RunsKept ==
    \A i \in Jobs, m \in RunIds :
        /\ run[i][m] \in Over => run'[i][m] = run[i][m]
        /\ run[i][m] # "none" => run'[i][m] # "none"

\* What an operation of a provider does to the runs, run by run.
LEMMA RunEffect ==
  ASSUME ProvidersTypeOK, NEW j \in Jobs, NEW n \in RunIds,
         NEW code \in RunStates, run' = [run EXCEPT ![j] = [run[j] EXCEPT ![n] = code]]
  PROVE  \A i \in Jobs, m \in RunIds :
           run'[i][m] = IF i = j /\ m = n THEN code ELSE run[i][m]
<1>1. run \in [Jobs -> [RunIds -> RunStates]]
  BY DEF ProvidersTypeOK
<1> SUFFICES ASSUME NEW i \in Jobs, NEW m \in RunIds
             PROVE  run'[i][m] = IF i = j /\ m = n THEN code ELSE run[i][m]
  OBVIOUS
<1>2. CASE i = j
  <2>1. run'[i] = [run[j] EXCEPT ![n] = code] /\ run[j] \in [RunIds -> RunStates]
    BY <1>1, <1>2
  <2> QED
    BY <1>2, <2>1
<1>3. CASE i # j
  BY <1>1, <1>3
<1> QED
  BY <1>2, <1>3

LEMMA SubmitEffect ==
  ASSUME ProvidersTypeOK, NEW j \in Jobs, NEW n \in RunIds, SubmitRun(j, n)
  PROVE  /\ UNCHANGED gone /\ run[j][n] = "none" /\ run'[j][n] = "up"
         /\ \A i \in Jobs, m \in RunIds : i # j \/ m # n => run'[i][m] = run[i][m]
         /\ Local(j) => \A m \in RunIds \ gone[j] : run[j][m] = "none"
         /\ RunsKept
<1>1. /\ run' = [run EXCEPT ![j] = [run[j] EXCEPT ![n] = "up"]] /\ run[j][n] = "none"
      /\ UNCHANGED gone /\ ~NameTaken(j)
  BY DEF SubmitRun
<1>2. \A i \in Jobs, m \in RunIds : run'[i][m] = IF i = j /\ m = n THEN "up" ELSE run[i][m]
  <2>1. "up" \in RunStates
    BY DEF RunStates
  <2> QED
    BY <1>1, <2>1, RunEffect, ZenonT(40)
<1>3. Local(j) => \A m \in RunIds \ gone[j] : run[j][m] = "none"
  BY <1>1 DEF NameTaken
<1>4. run'[j][n] = "up"
  BY <1>2
<1>5. RunsKept
  <2>1. ASSUME NEW i \in Jobs, NEW m \in RunIds, run[i][m] # "none"
        PROVE  run'[i][m] = run[i][m]
    BY <1>1, <1>2, <2>1
  <2> QED
    BY <2>1 DEF RunsKept, Over
<1> QED
  BY <1>1, <1>2, <1>3, <1>4, <1>5

LEMMA EndEffect ==
  ASSUME ProvidersTypeOK, NEW j \in Jobs, NEW n \in RunIds, StopRun(j, n) \/ RunExits(j, n)
  PROVE  /\ provider' = provider /\ gone' = gone
         /\ run[j][n] # "none" => run'[j][n] \in Over
         /\ \A i \in Jobs, m \in RunIds : run'[i][m] = "up" => run[i][m] = "up"
         /\ \A i \in Jobs, m \in RunIds : run[i][m] = "none" => run'[i][m] = "none"
         /\ RunsKept
<1>1. PICK code \in {"ok", "bad"} :
        run' = [run EXCEPT ![j] = [run[j] EXCEPT ![n] = IF run[j][n] = "up" THEN code
                                                        ELSE run[j][n]]]
  BY DEF StopRun, RunExits
<1>2. run[j][n] \in RunStates
  BY DEF ProvidersTypeOK
<1>3. PICK end \in RunStates : end = IF run[j][n] = "up" THEN code ELSE run[j][n]
  BY <1>2 DEF RunStates
<1>4. \A i \in Jobs, m \in RunIds : run'[i][m] = IF i = j /\ m = n THEN end ELSE run[i][m]
  <2>1. run' = [run EXCEPT ![j] = [run[j] EXCEPT ![n] = end]]
    BY <1>1, <1>3
  <2> QED
    BY <2>1, RunEffect, ZenonT(40)
<1>5. /\ run[j][n] # "none" => end \in Over
      /\ run[j][n] = "none" => end = "none"
      /\ end # "up"
  BY <1>2, <1>3 DEF Over, RunStates
<1>6. provider' = provider /\ gone' = gone
  BY DEF StopRun, RunExits
<1>7. RunsKept
  <2>1. ASSUME NEW i \in Jobs, NEW m \in RunIds, i = j /\ m = n
        PROVE  /\ run[i][m] \in Over => run'[i][m] = run[i][m]
               /\ run[i][m] # "none" => run'[i][m] # "none"
    BY <1>3, <1>4, <1>5, <2>1 DEF Over
  <2>2. ASSUME NEW i \in Jobs, NEW m \in RunIds, ~(i = j /\ m = n)
        PROVE  run'[i][m] = run[i][m]
    BY <1>4, <2>2
  <2> QED
    BY <2>1, <2>2 DEF RunsKept
<1> QED
  BY <1>4, <1>5, <1>6, <1>7

\* The four things a step may do to the runs.
LEMMA RunCases ==
  ASSUME TypeOK, RunsInv, [Next]_vars
  PROVE  \/ UNCHANGED runVars
         \/ \E j \in Jobs, n \in RunIds : wpc[j] = "submit" /\ SubmitRun(j, n)
         \/ \E j \in Jobs, n \in RunIds : StopRun(j, n) \/ RunExits(j, n)
         \/ \E j \in Jobs, n \in RunIds : /\ cpc[j] = "remove" \/ wpc[j] = "remove"
                                          /\ RemoveRun(j, n) /\ run[j][n] \in Over
<1>1. ASSUME NEW j \in Jobs, CancelStop(j) \/ TimeoutStop(j)
      PROVE  \E n \in RunIds : StopRun(j, n)
  BY <1>1 DEF CancelStop, TimeoutStop, TypeOK, CancelTypeOK, WorkerTypeOK, Tracking
<1>2. ASSUME NEW j \in Jobs, CancelRemove(j) \/ TimeoutRemove(j)
      PROVE  \E n \in RunIds : /\ cpc[j] = "remove" \/ wpc[j] = "remove"
                              /\ RemoveRun(j, n) /\ run[j][n] \in Over
  BY <1>2 DEF CancelRemove, TimeoutRemove, TypeOK, CancelTypeOK, WorkerTypeOK, Tracking,
              RunsInv, HandleOK
<1>3. ASSUME NEW j \in Jobs, Submit(j)
      PROVE  wpc[j] = "submit" /\ \E n \in RunIds : SubmitRun(j, n)
  BY <1>3 DEF Submit
<1>4. ASSUME NEW j \in Jobs, ScriptExits(j)
      PROVE  \E n \in RunIds : RunExits(j, n)
  BY <1>4 DEF ScriptExits
<1>5. ASSUME NEW j \in Jobs,
             \/ CreateJob(j) \/ EnqueueJob(j) \/ CancelRead(j) \/ CancelWrite(j)
             \/ CancelRaises(j) \/ AttemptEnds(j)
      PROVE  UNCHANGED runVars
  BY <1>5 DEF CreateJob, EnqueueJob, CancelRead, CancelWrite, CancelRaises, AttemptEnds,
              providerVars, runVars
<1>6. ASSUME NEW j \in Jobs,
             \/ PickUp(j) \/ DropTask(j) \/ MarkRunning(j) \/ Tell(j) \/ Mail(j)
             \/ SubmitRaises(j) \/ RecordHandle(j) \/ Poll(j) \/ ReadLogs(j) \/ Snapshot(j)
             \/ TimeoutLogs(j) \/ SaveLogs(j) \/ Collect(j) \/ Finish(j)
      PROVE  UNCHANGED runVars
  BY <1>6 DEF PickUp, DropTask, MarkRunning, Tell, Mail, SubmitRaises, RecordHandle, Poll,
              ReadLogs, Snapshot, TimeoutLogs, SaveLogs, Collect, Finish, providerVars, runVars
<1>7. CASE Reconcile \/ SweepRaises \/ ApiCrash
  BY <1>7 DEF Reconcile, Sweep, SweepRead, SweepPoll, SweepLogs, SweepPut, SweepCollect,
              SweepKnown, SweepCommit, SweepTell, SweepMail, SweepRaises, ApiCrash,
              providerVars, runVars
<1>8. CASE UNCHANGED vars
  BY <1>8 DEF vars, providerVars, runVars
<1> QED
  BY <1>1, <1>2, <1>3, <1>4, <1>5, <1>6, <1>7, <1>8 DEF Next, Create, Cancel, Work

LEMMA RunsGoOn ==
  ASSUME TypeOK, RunsInv, [Next]_vars
  PROVE  RunsKept
<1>1. CASE UNCHANGED run
  BY <1>1 DEF RunsKept
<1>2. ProvidersTypeOK
  BY DEF TypeOK
<1> QED
  BY <1>1, <1>2, RunCases, SubmitEffect, EndEffect DEF runVars, RemoveRun

\* A job's provider is chosen when its row is made, and the row stays.
LEMMA RowStays ==
  ASSUME TypeOK, [Next]_vars, NEW j \in Jobs, status[j] # "none"
  PROVE  status'[j] # "none" /\ provider'[j] = provider[j]
<1> USE DEF TypeOK, DbTypeOK, ProvidersTypeOK
<1>1. ASSUME NEW i \in Jobs, Create(i) \/ Cancel(i) \/ AttemptEnds(i) \/ ScriptExits(i)
      PROVE  status'[j] # "none" /\ provider'[j] = provider[j]
  BY <1>1 DEF Create, Cancel, CreateJob, EnqueueJob, CancelRead, CancelStop, CancelRemove,
              CancelWrite, CancelRaises, AttemptEnds, ScriptExits, CommitStatus, StopRun,
              RemoveRun, RunExits, dbVars, providerVars
<1>2. ASSUME NEW i \in Jobs, Work(i)
      PROVE  status'[j] # "none" /\ provider'[j] = provider[j]
  <2>1. CASE MarkRunning(i) \/ SubmitRaises(i) \/ Finish(i)
    <3>1. wobs[i] # "none"
      BY DEF WorkerTypeOK, Outcomes
    <3>2. status' = status \/ \E s \in {"running", "failed", wobs[i]} :
                                status' = [status EXCEPT ![i] = s]
      BY <2>1 DEF MarkRunning, SubmitRaises, Finish, CommitStatus
    <3>3. UNCHANGED provider
      BY <2>1 DEF MarkRunning, SubmitRaises, Finish, providerVars
    <3> QED
      BY <3>1, <3>2, <3>3
  <2>2. CASE PickUp(i) \/ DropTask(i) \/ Tell(i) \/ Mail(i) \/ Submit(i) \/ RecordHandle(i)
             \/ Poll(i) \/ ReadLogs(i) \/ Snapshot(i)
    BY <2>2 DEF PickUp, DropTask, Tell, Mail, Submit, SubmitRun, RecordHandle, Poll, ReadLogs,
                Snapshot, dbVars, providerVars
  <2>3. CASE TimeoutStop(i) \/ TimeoutRemove(i) \/ TimeoutLogs(i) \/ SaveLogs(i) \/ Collect(i)
    BY <2>3 DEF TimeoutStop, TimeoutRemove, StopRun, RemoveRun, TimeoutLogs, SaveLogs, Collect,
                dbVars, providerVars
  <2> QED
    BY <1>2, <2>1, <2>2, <2>3 DEF Work
<1>3. CASE Reconcile \/ SweepRaises \/ ApiCrash
  BY <1>3 DEF Reconcile, Sweep, SweepRead, SweepPoll, SweepLogs, SweepPut, SweepCollect,
              SweepKnown, SweepCommit, SweepTell, SweepMail, SweepRaises, ApiCrash,
              CommitStatus, SweepTypeOK, Outcomes, dbVars, providerVars
<1>4. CASE UNCHANGED vars
  BY <1>4 DEF vars, dbVars, providerVars
<1> QED
  BY <1>1, <1>2, <1>3, <1>4 DEF Next

LEMMA SharedPreserved ==
  ASSUME TypeOK, RowInv, RunsInv, [Next]_vars
  PROVE  RunsShared'
<1>0. RunsShared /\ ProvidersTypeOK
  BY DEF RunsInv, TypeOK
<1>1. \A j \in Jobs : status[j] # "none" => status'[j] # "none" /\ provider'[j] = provider[j]
  BY RowStays
<1>2. \A j \in Jobs : status[j] = "none" => wpc[j] = "idle"
  BY DEF RowInv
<1>3. CASE UNCHANGED runVars
  BY <1>0, <1>1, <1>3 DEF RunsShared, OneLocalRun, Local, runVars, Over
<1>4. ASSUME NEW j \in Jobs, NEW n \in RunIds, wpc[j] = "submit", SubmitRun(j, n)
      PROVE  RunsShared'
  <2>1. /\ UNCHANGED gone /\ run[j][n] = "none" /\ run'[j][n] = "up"
        /\ \A i \in Jobs, m \in RunIds : i # j \/ m # n => run'[i][m] = run[i][m]
        /\ Local(j) => \A m \in RunIds \ gone[j] : run[j][m] = "none"
        /\ RunsKept
    BY <1>0, <1>4, SubmitEffect
  <2>2. status[j] # "none"
    BY <1>2, <1>4
  <2>3. gone \in [Jobs -> SUBSET RunIds]
    BY <1>0 DEF ProvidersTypeOK
  <2>4. \A i \in Jobs : status'[i] = "none" => \A m \in RunIds : run'[i][m] = "none"
    BY <1>0, <1>1, <2>1, <2>2 DEF RunsShared
  <2>5. \A i \in Jobs : \A m \in gone'[i] : run'[i][m] \in Over
    BY <1>0, <2>1, <2>3 DEF RunsShared, RunsKept
  <2>6. OneLocalRun'
    <3>1. Local(j) => \A m \in RunIds : run[j][m] # "up"
      BY <1>0, <2>1 DEF RunsShared, Over
    <3>2. \A m \in RunIds : Local(j) /\ run'[j][m] = "up" => m = n
      BY <2>1, <3>1
    <3>3. \A i \in Jobs : i # j => \A m \in RunIds : run'[i][m] = run[i][m]
      BY <2>1
    <3> QED
      BY <1>0, <1>1, <2>2, <3>2, <3>3 DEF RunsShared, OneLocalRun, Local
  <2> QED
    BY <2>4, <2>5, <2>6 DEF RunsShared
<1>5. ASSUME NEW j \in Jobs, NEW n \in RunIds, StopRun(j, n) \/ RunExits(j, n)
      PROVE  RunsShared'
  <2>1. /\ UNCHANGED gone
        /\ \A i \in Jobs, m \in RunIds : /\ run'[i][m] = "up" => run[i][m] = "up"
                                         /\ run[i][m] = "none" => run'[i][m] = "none"
        /\ RunsKept
    BY <1>0, <1>5, EndEffect
  <2>2. gone \in [Jobs -> SUBSET RunIds]
    BY <1>0 DEF ProvidersTypeOK
  <2> QED
    BY <1>0, <1>1, <2>1, <2>2 DEF RunsShared, OneLocalRun, Local, RunsKept
<1>6. ASSUME NEW j \in Jobs, NEW n \in RunIds, RemoveRun(j, n), run[j][n] \in Over
      PROVE  RunsShared'
  <2>1. UNCHANGED run /\ \A i \in Jobs : \A m \in gone'[i] : m \in gone[i] \/ (i = j /\ m = n)
    BY <1>0, <1>6 DEF RemoveRun, ProvidersTypeOK
  <2> QED
    BY <1>0, <1>1, <1>6, <2>1 DEF RunsShared, OneLocalRun, Local
<1> QED
  BY <1>3, <1>4, <1>5, <1>6, RunCases

\* Handles name runs, wherever they are kept.
LEMMA HandlesAreRuns ==
  ASSUME TypeOK, NEW j \in Jobs
  PROVE  /\ container[j] # NoRun => container[j] \in RunIds
         /\ wpc[j] \in Tracking => whandle[j] \in RunIds
         /\ cpc[j] \in {"stop", "remove"} => chandle[j] \in RunIds
BY DEF TypeOK, DbTypeOK, WorkerTypeOK, CancelTypeOK, Handles

LEMMA HandleRequests ==
  ASSUME TypeOK, RunsInv, RunsKept, NEW j \in Jobs,
         Create(j) \/ Cancel(j) \/ AttemptEnds(j) \/ ScriptExits(j)
  PROVE  \A i \in Jobs : HandleOK(i)'
<1> SUFFICES ASSUME NEW i \in Jobs PROVE HandleOK(i)'
  OBVIOUS
<1>0. /\ HandleOK(i)
      /\ container[i] # NoRun => container[i] \in RunIds
      /\ wpc[i] \in {"record", "remove"} => whandle[i] \in RunIds
      /\ cpc[i] \in {"stop", "remove"} => chandle[i] \in RunIds
  BY HandlesAreRuns DEF RunsInv, Tracking
<1> USE DEF HandleOK, TypeOK, WorkerTypeOK, CancelTypeOK, DbTypeOK
<1>1. CASE CreateJob(j) \/ EnqueueJob(j) \/ ScriptExits(j)
  BY <1>0, <1>1 DEF CreateJob, EnqueueJob, ScriptExits, RunsKept, dbVars, workerVars, cancelVars
<1>2. CASE CancelRead(j)
  BY <1>0, <1>2 DEF CancelRead, RunsKept, dbVars, workerVars
<1>3. CASE CancelStop(j)
  <2>1. StopRun(j, chandle[j]) /\ chandle[j] \in RunIds /\ run[j][chandle[j]] # "none"
    BY <1>3, HandlesAreRuns DEF CancelStop, RunsInv
  <2>2. run'[j][chandle[j]] \in Over
    BY <2>1, EndEffect
  <2>3. /\ UNCHANGED <<container, wpc, whandle, chandle>>
        /\ cpc[j] = "stop" /\ cpc' = [cpc EXCEPT ![j] = "remove"]
    BY <1>3 DEF CancelStop, dbVars, workerVars
  <2> QED
    BY <1>0, <2>2, <2>3 DEF RunsKept, Over
<1>4. CASE CancelRemove(j) \/ CancelWrite(j) \/ CancelRaises(j)
  BY <1>0, <1>4 DEF CancelRemove, CancelWrite, CancelRaises, RunsKept, dbVars, workerVars
<1>5. CASE AttemptEnds(j)
  BY <1>0, <1>5 DEF AttemptEnds, GoTo, RunsKept, dbVars, cancelVars
<1> QED
  BY <1>1, <1>2, <1>3, <1>4, <1>5 DEF Create, Cancel

LEMMA HandleWork ==
  ASSUME TypeOK, OutcomeInv, RunsInv, RunsKept, NEW j \in Jobs, Work(j)
  PROVE  \A i \in Jobs : HandleOK(i)'
<1> SUFFICES ASSUME NEW i \in Jobs PROVE HandleOK(i)'
  OBVIOUS
<1>0. /\ HandleOK(i)
      /\ container[i] # NoRun => container[i] \in RunIds
      /\ wpc[i] \in {"record", "remove"} => whandle[i] \in RunIds
      /\ cpc[i] \in {"stop", "remove"} => chandle[i] \in RunIds
  BY HandlesAreRuns DEF RunsInv, Tracking
<1> USE DEF HandleOK, TypeOK, WorkerTypeOK, DbTypeOK, GoTo
<1>1. CASE Submit(j)
  <2>1. PICK n \in RunIds : SubmitRun(j, n) /\ whandle' = [whandle EXCEPT ![j] = n]
    BY <1>1 DEF Submit
  <2>2. run'[j][n] = "up"
    BY <2>1, SubmitEffect
  <2>3. UNCHANGED <<container, cpc, chandle>> /\ wpc' = [wpc EXCEPT ![j] = "record"]
    BY <1>1 DEF Submit, dbVars, cancelVars
  <2>4. CASE i = j
    <3>1. whandle'[i] = n /\ wpc'[i] = "record"
      BY <2>1, <2>3, <2>4
    <3> QED
      BY <1>0, <2>2, <2>3, <2>4, <3>1 DEF RunsKept
  <2>5. CASE i # j
    <3>1. whandle'[i] = whandle[i] /\ wpc'[i] = wpc[i]
      BY <2>1, <2>3, <2>5
    <3> QED
      BY <1>0, <2>3, <3>1 DEF RunsKept
  <2> QED
    BY <2>4, <2>5
<1>2. CASE RecordHandle(j)
  BY <1>0, <1>2 DEF RecordHandle, RunsKept, cancelVars
<1>3. CASE TimeoutStop(j)
  <2>1. StopRun(j, whandle[j]) /\ whandle[j] \in RunIds
    BY <1>3, HandlesAreRuns DEF TimeoutStop, Tracking
  <2>2. run[j][whandle[j]] # "none"
    <3>1. whandle[j] = container[j] /\ whandle[j] # NoRun
      BY <1>3, <2>1 DEF TimeoutStop, OutcomeInv, TaskHandle, RunIds, NoRun
    <3> QED
      BY <3>1 DEF RunsInv
  <2>4. run'[j][whandle[j]] \in Over
    BY <2>1, <2>2, EndEffect
  <2>3. /\ UNCHANGED <<container, whandle, cpc, chandle>>
        /\ wpc[j] = "stop" /\ wpc'[j] \in {"remove", "relog"}
        /\ \A k \in Jobs : k # j => wpc'[k] = wpc[k]
    BY <1>3 DEF TimeoutStop, dbVars, cancelVars
  <2> QED
    BY <1>0, <2>3, <2>4 DEF RunsKept
<1>4. CASE Tell(j) \/ Mail(j)
  <2>1. /\ UNCHANGED <<container, cpc, chandle>>
        /\ wpc'[j] \in {"idle", "mail", "submit", "poll"}
        /\ \A k \in Jobs : k # j => wpc'[k] = wpc[k] /\ whandle'[k] = whandle[k]
    BY <1>4 DEF Tell, Mail, AfterNotice, dbVars, cancelVars
  <2> QED
    BY <1>0, <2>1 DEF RunsKept
<1>5. CASE PickUp(j) \/ DropTask(j) \/ MarkRunning(j) \/ SubmitRaises(j) \/ Finish(j)
  BY <1>0, <1>5 DEF PickUp, DropTask, MarkRunning, SubmitRaises, Finish, RunsKept, dbVars,
                    workerVars, cancelVars
<1>6. CASE Poll(j) \/ ReadLogs(j) \/ Snapshot(j) \/ TimeoutRemove(j) \/ TimeoutLogs(j)
           \/ SaveLogs(j) \/ Collect(j)
  BY <1>0, <1>6 DEF Poll, ReadLogs, Snapshot, TimeoutRemove, TimeoutLogs, SaveLogs, Collect,
                    RunsKept, dbVars, cancelVars
<1> QED
  BY <1>1, <1>2, <1>3, <1>4, <1>5, <1>6 DEF Work

LEMMA RunsNext == TypeOK /\ OutcomeInv /\ RowInv /\ RunsInv /\ [Next]_vars => RunsInv'
<1> SUFFICES ASSUME TypeOK, OutcomeInv, RowInv, RunsInv, [Next]_vars PROVE RunsInv'
  OBVIOUS
<1>1. RunsKept
  BY RunsGoOn
<1>2. ASSUME UNCHANGED <<container, wpc, whandle>>,
             \/ UNCHANGED cancelVars
             \/ cpc' = [j \in Jobs |-> "idle"]
      PROVE  \A j \in Jobs : HandleOK(j)'
  BY <1>1, <1>2, HandlesAreRuns DEF RunsInv, HandleOK, RunsKept, Tracking, cancelVars
<1>3. ASSUME Reconcile \/ SweepRaises \/ ApiCrash
      PROVE  \A j \in Jobs : HandleOK(j)'
  <2>1. /\ UNCHANGED <<container, wpc, whandle>>
        /\ UNCHANGED cancelVars \/ cpc' = [j \in Jobs |-> "idle"]
    BY <1>3 DEF Reconcile, Sweep, SweepRead, SweepPoll, SweepLogs, SweepPut, SweepCollect,
                SweepKnown, SweepCommit, SweepTell, SweepMail, SweepRaises, ApiCrash,
                dbVars, workerVars
  <2> QED
    BY <1>2, <2>1
<1>4. ASSUME UNCHANGED vars
      PROVE  \A j \in Jobs : HandleOK(j)'
  BY <1>2, <1>4 DEF vars, dbVars, workerVars
<1>5. \A j \in Jobs : HandleOK(j)'
  BY <1>1, <1>3, <1>4, HandleRequests, HandleWork DEF Next
<1> QED
  BY <1>5, SharedPreserved DEF RunsInv

LEMMA RunsInit == Init => RunsInv
BY DEF Init, ProvidersInit, RunsInv, RunsShared, HandleOK, OneLocalRun

LEMMA RunsHold == Spec => [](TypeOK /\ OutcomeInv /\ RowInv /\ RunsInv)
BY TypeCorrect, OutcomeInit, OutcomeNext, RowInit, RowNext, RunsInit, RunsNext, PTL DEF Spec

\* A local job never has two containers alive, for any number of attempts: the
\* container's name keeps the next one out until it is removed, and whoever
\* removes one has stopped it (local_docker.py:72).
THEOREM LocalRunsAreSingle == Spec => []OneLocalRun
<1>1. RunsInv => OneLocalRun
  BY DEF RunsInv, RunsShared
<1> QED
  BY <1>1, RunsHold, PTL

---------------------------------------------------------------------------
(* The runs of failed jobs.                                                *)

LEMMA TruthStays ==
  ASSUME TypeOK, [Next]_vars, NEW j \in Jobs, status[j] # "none"
  PROVE  Truthful(j)' = Truthful(j)
BY RowStays DEF Truthful, Local

\* A provider that can be trusted reports a failure only of a run that is over.
LEMMA FailureIsSeen ==
  ASSUME RunsInv, TypeOK, NEW j \in Jobs, NEW n \in RunIds, run[j][n] # "none", Truthful(j),
         "failed" \in PollResults(j, n)
  PROVE  run[j][n] \in Over
<1>1. n \in gone[j] => run[j][n] \in Over
  BY DEF RunsInv, RunsShared
<1>2. run[j][n] \in RunStates
  BY DEF TypeOK, ProvidersTypeOK
<1> QED
  BY <1>1, <1>2 DEF PollResults, Truthful, RunStates, Over

\* What a step leaves alone it leaves true.
LEMMA FailureElsewhere ==
  ASSUME TypeOK, RowInv, RunsKept, FailureInv, [Next]_vars, NEW i \in Jobs,
         wpc'[i] = wpc[i], wst'[i] = wst[i], whandle'[i] = whandle[i], wobs'[i] = wobs[i],
         container'[i] = container[i], status'[i] = status[i] \/ status'[i] # "failed"
  PROVE  JobFailure(i)'
<1>1. /\ container[i] # NoRun => container[i] \in RunIds
      /\ wpc[i] \in Tracking => whandle[i] \in RunIds
  BY HandlesAreRuns
<1>2. wpc[i] # "idle" \/ container[i] # NoRun => Truthful(i)' = Truthful(i)
  BY TruthStays DEF RowInv
<1>3. TaskFailure(i)'
  BY <1>1, <1>2 DEF FailureInv, JobFailure, TaskFailure, Submitting, RunsKept, Observed, Tracking
<1> QED
  BY <1>1, <1>2, <1>3 DEF FailureInv, JobFailure, RunsKept

LEMMA FailureOfSweep ==
  ASSUME TypeOK, RowInv, RunsKept, FailureInv, [Next]_vars, UNCHANGED sweepVars
  PROVE  SweepFailure'
<1>1. rjob \in Jobs /\ (rpc # "idle" => rhandle \in RunIds)
  BY DEF TypeOK, SweepTypeOK
<1>2. \A k \in Jobs : status[k] # "none" => provider'[k] = provider[k]
  BY RowStays
<1>3. rpc # "idle" => provider'[rjob] = provider[rjob]
  BY <1>1, <1>2 DEF RowInv
<1>4. rpc' = rpc /\ robs' = robs /\ rjob' = rjob /\ rhandle' = rhandle
  BY DEF sweepVars
<1> QED
  BY <1>1, <1>3, <1>4 DEF FailureInv, SweepFailure, SweepObserved, RunsKept, Truthful, Local

LEMMA FailureRequests ==
  ASSUME TypeOK, RowInv, RunsKept, FailureInv, [Next]_vars, NEW j \in Jobs,
         Create(j) \/ Cancel(j) \/ AttemptEnds(j) \/ ScriptExits(j)
  PROVE  FailureInv'
<1> USE DEF TypeOK, DbTypeOK, WorkerTypeOK
<1>1. UNCHANGED <<container, sweepVars>>
  BY DEF Create, Cancel, CreateJob, EnqueueJob, CancelRead, CancelStop, CancelRemove,
         CancelWrite, CancelRaises, AttemptEnds, ScriptExits, dbVars
<1>2. \A i \in Jobs : status'[i] = status[i] \/ status'[i] # "failed"
  BY DEF Create, Cancel, CreateJob, EnqueueJob, CancelRead, CancelStop, CancelRemove,
         CancelWrite, CancelRaises, AttemptEnds, ScriptExits, CommitStatus, dbVars
<1>3. \A i \in Jobs : JobFailure(i)'
  <2>1. CASE AttemptEnds(j)
    <3>1. /\ \A i \in Jobs : i # j => /\ wpc'[i] = wpc[i] /\ wst'[i] = wst[i]
                                      /\ whandle'[i] = whandle[i] /\ wobs'[i] = wobs[i]
          /\ wpc'[j] = "idle" /\ UNCHANGED <<status, container, provider, run>>
      BY <2>1 DEF AttemptEnds, GoTo, dbVars, providerVars, runVars
    <3>2. JobFailure(j)'
      BY <3>1 DEF FailureInv, JobFailure, TaskFailure, Submitting, Observed, Truthful, Local
    <3> QED
      BY <1>1, <1>2, <3>1, <3>2, FailureElsewhere
  <2>2. CASE Create(j) \/ Cancel(j) \/ ScriptExits(j)
    <3>1. UNCHANGED workerVars
      BY <2>2 DEF Create, Cancel, CreateJob, EnqueueJob, CancelRead, CancelStop, CancelRemove,
                  CancelWrite, CancelRaises, ScriptExits
    <3> QED
      BY <1>1, <1>2, <3>1, FailureElsewhere DEF workerVars
  <2> QED
    BY <2>1, <2>2
<1> QED
  BY <1>1, <1>3, FailureOfSweep DEF FailureInv
\* A task changes nothing of another job's.
LEMMA WorkIsLocal ==
  ASSUME TypeOK, NEW j \in Jobs, NEW i \in Jobs, i # j, Work(j)
  PROVE  /\ wpc'[i] = wpc[i] /\ wst'[i] = wst[i] /\ whandle'[i] = whandle[i]
         /\ wobs'[i] = wobs[i] /\ wlog'[i] = wlog[i]
         /\ container'[i] = container[i] /\ status'[i] = status[i]
         /\ task'[i] = task[i] /\ tries'[i] = tries[i]
         /\ log'[i] = log[i] /\ ckpt'[i] = ckpt[i]
<1> USE DEF TypeOK, DbTypeOK, QueueTypeOK, BucketTypeOK, WorkerTypeOK, GoTo, dbVars,
            queueVars, bucketVars, workerVars
<1>1. CASE PickUp(j) \/ DropTask(j) \/ MarkRunning(j)
  BY <1>1 DEF PickUp, DropTask, MarkRunning, CommitStatus
<1>2. CASE Tell(j) \/ Mail(j)
  BY <1>2 DEF Tell, Mail, AfterNotice
<1>3. CASE Submit(j) \/ SubmitRaises(j) \/ RecordHandle(j)
  BY <1>3 DEF Submit, SubmitRaises, RecordHandle, CommitStatus
<1>4. CASE Poll(j) \/ ReadLogs(j) \/ Snapshot(j)
  BY <1>4 DEF Poll, ReadLogs, Snapshot, SafePutLogs, LogUsed
<1>5. CASE TimeoutStop(j) \/ TimeoutRemove(j) \/ TimeoutLogs(j)
  BY <1>5 DEF TimeoutStop, TimeoutRemove, TimeoutLogs
<1>6. CASE SaveLogs(j) \/ Collect(j) \/ Finish(j)
  BY <1>6 DEF SaveLogs, Collect, Finish, CommitStatus, SafePutLogs, LogUsed
<1> QED
  BY <1>1, <1>2, <1>3, <1>4, <1>5, <1>6 DEF Work

LEMMA FailureWork ==
  ASSUME TypeOK, OutcomeInv, RowInv, RunsInv, RunsKept, FailureInv, [Next]_vars,
         NEW j \in Jobs, Work(j)
  PROVE  JobFailure(j)'
<1> USE DEF TypeOK, DbTypeOK, WorkerTypeOK, GoTo
<1>0. /\ JobFailure(j)
      /\ container[j] # NoRun => container[j] \in RunIds
      /\ wpc[j] \in Tracking => whandle[j] \in RunIds
      /\ wpc[j] \in Tracking \ {"record"} => /\ whandle[j] = container[j]
                                            /\ run[j][whandle[j]] # "none"
      /\ wpc[j] # "idle" \/ container[j] # NoRun => Truthful(j)' = Truthful(j)
  <2>1. wpc[j] \in Tracking => whandle[j] \in RunIds /\ whandle[j] # NoRun
    BY DEF RunIds, NoRun
  <2>2. wpc[j] # "idle" \/ container[j] # NoRun => Truthful(j)' = Truthful(j)
    BY TruthStays DEF RowInv
  <2> QED
    BY <2>1, <2>2, HandlesAreRuns DEF FailureInv, OutcomeInv, TaskHandle, RunsInv, HandleOK,
                                      Tracking
<1> USE DEF JobFailure, TaskFailure, Submitting, Observed
<1>1. CASE PickUp(j)
  BY <1>0, <1>1 DEF PickUp, RunsKept, dbVars
<1>2. CASE DropTask(j)
  BY <1>2, FailureElsewhere DEF DropTask, dbVars, workerVars
<1>3. CASE MarkRunning(j)
  BY <1>0, <1>3 DEF MarkRunning, CommitStatus, RunsKept
<1>4. CASE Tell(j) \/ Mail(j)
  <2>1. /\ UNCHANGED <<status, container>>
        /\ \/ wpc'[j] \in {"idle", "poll"}
           \/ /\ wpc'[j] \in {"mail", "submit"}
              /\ wst[j] = wst'[j]
              /\ wpc'[j] = "submit" => wst[j] = "running"
        /\ wpc[j] \in {"tell", "mail"}
    BY <1>4 DEF Tell, Mail, AfterNotice, dbVars
  <2> QED
    BY <1>0, <2>1 DEF RunsKept
<1>5. CASE Submit(j)
  BY <1>0, <1>5 DEF Submit, RunsKept, dbVars
<1>6. CASE SubmitRaises(j)
  BY <1>0, <1>6 DEF SubmitRaises, CommitStatus, OutcomeInv, TaskHandle
<1>7. CASE RecordHandle(j)
  BY <1>0, <1>7 DEF RecordHandle, OutcomeInv, TaskHandle
<1>8. CASE Poll(j)
  <2>1. /\ UNCHANGED <<status, container, whandle, run>>
        /\ wpc[j] = "poll" /\ wpc'[j] = "logs"
        /\ wobs'[j] \in PollResults(j, whandle[j])
    BY <1>8 DEF Poll, dbVars, providerVars, runVars
  <2>2. wobs'[j] = "failed" /\ Truthful(j) => run[j][whandle[j]] \in Over
    BY <1>0, <2>1, FailureIsSeen DEF Tracking
  <2> QED
    BY <1>0, <2>1, <2>2 DEF Tracking
<1>9. CASE ReadLogs(j) \/ Snapshot(j) \/ SaveLogs(j) \/ Collect(j)
  BY <1>0, <1>9 DEF ReadLogs, Snapshot, SaveLogs, Collect, dbVars, providerVars, runVars
<1>10. CASE TimeoutStop(j)
  <2>1. StopRun(j, whandle[j]) /\ whandle[j] \in RunIds /\ run[j][whandle[j]] # "none"
    BY <1>0, <1>10 DEF TimeoutStop, Tracking
  <2>2. run'[j][whandle[j]] \in Over
    BY <2>1, EndEffect
  <2>3. UNCHANGED <<status, container, whandle>> /\ wpc'[j] \in {"remove", "relog"}
    BY <1>10 DEF TimeoutStop, dbVars
  <2> QED
    BY <1>0, <2>2, <2>3 DEF RunsKept
<1>11. CASE TimeoutRemove(j)
  <2>1. UNCHANGED <<status, container, whandle, run>> /\ wpc[j] = "remove" /\ wpc'[j] = "relog"
    BY <1>11 DEF TimeoutRemove, RemoveRun, dbVars
  <2>2. run[j][whandle[j]] \in Over
    BY <2>1 DEF RunsInv, HandleOK
  <2> QED
    BY <1>0, <2>1, <2>2
<1>12. CASE TimeoutLogs(j)
  BY <1>0, <1>12 DEF TimeoutLogs, dbVars, providerVars, runVars
<1>13. CASE Finish(j)
  BY <1>0, <1>13 DEF Finish, CommitStatus, RowInv, Ending, Outcomes, Tracking, providerVars, runVars
<1> QED
  BY <1>1, <1>3, <1>4, <1>5, <1>6, <1>7, <1>8, <1>9, <1>10, <1>11, <1>13, <1>12, <1>2 DEF Work
LEMMA FailureReconcile ==
  ASSUME TypeOK, OutcomeInv, RowInv, RunsInv, RunsKept, FailureInv, [Next]_vars,
         Reconcile \/ SweepRaises \/ ApiCrash
  PROVE  FailureInv'
<1> USE DEF TypeOK, DbTypeOK, SweepTypeOK, SweepObserved
<1>0. /\ UNCHANGED <<container, workerVars, provider, run>>
      /\ status' = status \/ SweepCommit
  BY DEF Reconcile, Sweep, SweepRead, SweepPoll, SweepLogs, SweepPut, SweepCollect, SweepKnown,
         SweepCommit, SweepTell, SweepMail, SweepRaises, ApiCrash, dbVars, providerVars, runVars
<1>1. rpc # "idle" => /\ container[rjob] # NoRun /\ rhandle = container[rjob]
                      /\ run[rjob][rhandle] # "none"
  BY DEF OutcomeInv, SweepHandle, RunsInv, HandleOK
<1>2. \A i \in Jobs : JobFailure(i)'
  <2>1. ASSUME NEW i \in Jobs, ~(SweepCommit /\ i = rjob)
        PROVE  JobFailure(i)'
    <3>1. status'[i] = status[i]
      BY <1>0, <2>1 DEF SweepCommit, CommitStatus
    <3> QED
      BY <1>0, <3>1, FailureElsewhere DEF workerVars
  <2>2. ASSUME SweepCommit, NEW i \in Jobs, i = rjob
        PROVE  JobFailure(i)'
    <3>1. status'[i] = robs /\ rpc = "commit"
      BY <2>2 DEF SweepCommit, CommitStatus
    <3>2. TaskFailure(i) /\ container[i] # NoRun
      BY <1>1, <2>2, <3>1 DEF FailureInv, JobFailure
    <3>3. TaskFailure(i)'
      BY <1>0, <3>2 DEF TaskFailure, Submitting, Truthful, Local, workerVars
    <3>4. robs = "failed" /\ Truthful(i) => run[i][container[i]] \in Over
      BY <1>1, <2>2, <3>1 DEF FailureInv, SweepFailure
    <3> QED
      BY <1>0, <3>1, <3>3, <3>4 DEF JobFailure, Truthful, Local
  <2> QED
    BY <2>1, <2>2
<1>3. SweepFailure'
  <2>1. CASE SweepPoll
    <3>1. /\ rpc = "poll" /\ UNCHANGED rjob
          /\ rpc' # "idle" => robs' \in PollResults(rjob, rhandle) /\ rhandle' = rhandle
      BY <2>1 DEF SweepPoll, SweepForgets
    <3>2. rjob \in Jobs /\ rhandle \in RunIds /\ run[rjob][rhandle] # "none"
      BY <1>1, <3>1
    <3>3. rpc' # "idle" /\ robs' = "failed" /\ Truthful(rjob) => run[rjob][rhandle] \in Over
      BY <3>1, <3>2, FailureIsSeen
    <3> QED
      BY <1>0, <3>1, <3>3 DEF SweepFailure, Truthful, Local
  <2>2. CASE ~SweepPoll
    <3>1. \/ rpc' \in SweepPcs \ SweepObserved
          \/ rpc \in SweepObserved /\ UNCHANGED <<robs, rjob, rhandle>>
      <4>1. CASE Sweep \/ \E k \in Jobs : SweepRead(k)
        BY <4>1 DEF Sweep, SweepRead, SweepPcs
      <4>2. CASE SweepLogs \/ SweepPut \/ SweepCollect \/ SweepKnown \/ SweepCommit
        BY <4>2 DEF SweepLogs, SweepPut, SweepCollect, SweepKnown, SweepCommit
      <4>3. CASE SweepTell \/ SweepMail \/ SweepRaises \/ ApiCrash
        BY <4>3 DEF SweepTell, SweepMail, SweepForgets, SweepRaises, ApiCrash, SweepPcs
      <4> QED
        BY <2>2, <4>1, <4>2, <4>3 DEF Reconcile
    <3> QED
      BY <1>0, <3>1 DEF FailureInv, SweepFailure, Truthful, Local
  <2> QED
    BY <2>1, <2>2
<1> QED
  BY <1>2, <1>3 DEF FailureInv

LEMMA FailureNext ==
  TypeOK /\ OutcomeInv /\ RowInv /\ RunsInv /\ FailureInv /\ [Next]_vars => FailureInv'
<1> SUFFICES ASSUME TypeOK, OutcomeInv, RowInv, RunsInv, FailureInv, [Next]_vars
             PROVE  FailureInv'
  OBVIOUS
<1>1. RunsKept
  BY RunsGoOn
<1>2. ASSUME NEW j \in Jobs, Work(j)
      PROVE  FailureInv'
  <2>1. UNCHANGED sweepVars
    BY <1>2 DEF Work, PickUp, DropTask, MarkRunning, Tell, Mail, Submit, SubmitRaises,
                RecordHandle, Poll, ReadLogs, Snapshot, TimeoutStop, TimeoutRemove, TimeoutLogs,
                SaveLogs, Collect, Finish
  <2>2. ASSUME NEW i \in Jobs, i # j
        PROVE  JobFailure(i)'
    <3>1. /\ wpc'[i] = wpc[i] /\ wst'[i] = wst[i] /\ whandle'[i] = whandle[i]
          /\ wobs'[i] = wobs[i] /\ container'[i] = container[i] /\ status'[i] = status[i]
      BY <1>2, <2>2, WorkIsLocal
    <3> QED
      BY <1>1, <3>1, FailureElsewhere
  <2> QED
    BY <1>1, <1>2, <2>1, <2>2, FailureWork, FailureOfSweep DEF FailureInv
<1>3. CASE UNCHANGED vars
  <2>1. \A i \in Jobs : JobFailure(i)'
    BY <1>1, <1>3, FailureElsewhere DEF vars, workerVars, dbVars
  <2> QED
    BY <1>1, <1>3, <2>1, FailureOfSweep DEF FailureInv, vars
<1> QED
  BY <1>1, <1>2, <1>3, FailureRequests, FailureReconcile DEF Next

LEMMA FailureInit == Init => FailureInv
BY DEF Init, FailureInv, SweepFailure, SweepObserved, JobFailure, TaskFailure, Submitting, Observed

LEMMA FailureHolds == Spec => []FailureInv
BY RunsHold, FailureInit, FailureNext, PTL DEF Spec

\* A job shown as failed points to no run that is still up: whichever finaliser
\* wrote the status saw the run over, or stopped it at the cap and waited
\* (tasks.py:134), unless a lookup of Modal's can fail.
THEOREM FailedRunsAreOver == Spec => []FailedRunIsOver
<1>1. FailureInv => FailedRunIsOver
  BY DEF FailureInv, JobFailure, FailedRunIsOver, Truthful, Over
<1> QED
  BY <1>1, FailureHolds, PTL

---------------------------------------------------------------------------
(* What the owner is told of the two finalisers.                           *)

\* Without cancels and the runtime cap, nobody but the script ends a run.
LEMMA UndisturbedStays ==
  ASSUME TypeOK, RunsInv, [Next]_vars, "cancel" \notin Env, "timeout" \notin Env,
         \A i \in Jobs : Undisturbed(i)
  PROVE  UNCHANGED gone /\ \A i \in Jobs : Undisturbed(i)'
<1> USE DEF Undisturbed
<1>1. UNCHANGED gone
  BY RunCases, SubmitEffect, EndEffect DEF runVars, TypeOK
<1>2. \A i \in Jobs : cpc'[i] = "idle"
  <2>1. ASSUME NEW j \in Jobs, Cancel(j)
        PROVE  FALSE
    BY <2>1 DEF Cancel, CancelRead, CancelStop, CancelRemove, CancelWrite, CancelRaises
  <2>2. ASSUME NEW j \in Jobs, Create(j) \/ AttemptEnds(j) \/ ScriptExits(j)
        PROVE  UNCHANGED cpc
    BY <2>2 DEF Create, CreateJob, EnqueueJob, AttemptEnds, ScriptExits, cancelVars
  <2>3. ASSUME NEW j \in Jobs, Work(j)
        PROVE  UNCHANGED cpc
    BY <2>3 DEF Work, PickUp, DropTask, MarkRunning, Tell, Mail, Submit, SubmitRaises,
                RecordHandle, Poll, ReadLogs, Snapshot, TimeoutStop, TimeoutRemove, TimeoutLogs,
                SaveLogs, Collect, Finish, cancelVars
  <2>4. CASE Reconcile \/ SweepRaises
    BY <2>4 DEF Reconcile, Sweep, SweepRead, SweepPoll, SweepLogs, SweepPut, SweepCollect,
                SweepKnown, SweepCommit, SweepTell, SweepMail, SweepRaises, cancelVars
  <2>5. CASE ApiCrash \/ UNCHANGED vars
    BY <2>5 DEF ApiCrash, vars, cancelVars
  <2> QED
    BY <2>1, <2>2, <2>3, <2>4, <2>5 DEF Next
<1>3. \A i \in Jobs : wpc'[i] \notin {"stop", "remove", "relog"}
  <2> USE DEF TypeOK, WorkerTypeOK, GoTo
  <2>1. ASSUME NEW j \in Jobs, Create(j) \/ Cancel(j) \/ ScriptExits(j)
        PROVE  UNCHANGED wpc
    BY <2>1 DEF Create, Cancel, CreateJob, EnqueueJob, CancelRead, CancelStop, CancelRemove,
                CancelWrite, CancelRaises, ScriptExits, workerVars
  <2>2. ASSUME NEW j \in Jobs, AttemptEnds(j)
        PROVE  wpc' = [wpc EXCEPT ![j] = "idle"]
    BY <2>2 DEF AttemptEnds
  <2>3. ASSUME NEW j \in Jobs, Work(j)
        PROVE  \/ UNCHANGED wpc
               \/ \E pc \in WorkerPcs \ {"stop", "remove", "relog"} : wpc' = [wpc EXCEPT ![j] = pc]
    <3>1. CASE Tell(j) \/ Mail(j)
      BY <3>1 DEF Tell, Mail, AfterNotice, WorkerPcs
    <3>2. CASE PickUp(j) \/ DropTask(j) \/ MarkRunning(j) \/ Submit(j) \/ SubmitRaises(j)
               \/ RecordHandle(j) \/ Poll(j) \/ ReadLogs(j)
      BY <3>2 DEF PickUp, DropTask, MarkRunning, Submit, SubmitRaises, RecordHandle, Poll,
                  ReadLogs, WorkerPcs, workerVars
    <3>3. CASE Snapshot(j) \/ SaveLogs(j) \/ Collect(j) \/ Finish(j)
      BY <3>3 DEF Snapshot, SaveLogs, Collect, Finish, WorkerPcs
    <3> QED
      BY <2>3, <3>1, <3>2, <3>3 DEF Work, TimeoutStop, TimeoutRemove, TimeoutLogs
  <2>4. CASE Reconcile \/ SweepRaises \/ ApiCrash
    BY <2>4 DEF Reconcile, Sweep, SweepRead, SweepPoll, SweepLogs, SweepPut, SweepCollect,
                SweepKnown, SweepCommit, SweepTell, SweepMail, SweepRaises, ApiCrash, workerVars
  <2>5. CASE UNCHANGED vars
    BY <2>5 DEF vars, workerVars
  <2> QED
    BY <2>1, <2>2, <2>3, <2>4, <2>5 DEF Next
<1> QED
  BY <1>1, <1>2, <1>3

\* A name that is taken keeps every further attempt out.
LEMMA NoLaterRun ==
  ASSUME TypeOK, [Next]_vars, NEW j \in Jobs, NameTaken(j), wpc[j] # "record"
  PROVE  container'[j] = container[j] /\ wpc'[j] # "record"
<1> USE DEF TypeOK, DbTypeOK, WorkerTypeOK, GoTo
<1>1. ASSUME NEW i \in Jobs, Create(i) \/ Cancel(i) \/ AttemptEnds(i) \/ ScriptExits(i)
      PROVE  UNCHANGED container /\ (UNCHANGED wpc \/ wpc' = [wpc EXCEPT ![i] = "idle"])
  BY <1>1 DEF Create, Cancel, CreateJob, EnqueueJob, CancelRead, CancelStop, CancelRemove,
              CancelWrite, CancelRaises, AttemptEnds, ScriptExits, dbVars, workerVars
<1>2. ASSUME Work(j)
      PROVE  container'[j] = container[j] /\ wpc'[j] # "record"
  <2>1. ~Submit(j) /\ ~RecordHandle(j)
    BY DEF Submit, SubmitRun, RecordHandle
  <2>2. CASE Tell(j) \/ Mail(j)
    BY <2>2 DEF Tell, Mail, AfterNotice, dbVars
  <2>3. CASE PickUp(j) \/ DropTask(j) \/ MarkRunning(j) \/ SubmitRaises(j) \/ Finish(j)
    BY <2>3 DEF PickUp, DropTask, MarkRunning, SubmitRaises, Finish, dbVars, workerVars
  <2>4. CASE Poll(j) \/ ReadLogs(j) \/ Snapshot(j) \/ SaveLogs(j) \/ Collect(j)
    BY <2>4 DEF Poll, ReadLogs, Snapshot, SaveLogs, Collect, dbVars
  <2>5. CASE TimeoutStop(j) \/ TimeoutRemove(j) \/ TimeoutLogs(j)
    BY <2>5 DEF TimeoutStop, TimeoutRemove, TimeoutLogs, dbVars
  <2> QED
    BY <1>2, <2>1, <2>2, <2>3, <2>4, <2>5 DEF Work
<1>3. ASSUME NEW i \in Jobs, i # j, Work(i)
      PROVE  container'[j] = container[j] /\ wpc'[j] = wpc[j]
  BY <1>3, WorkIsLocal
<1>4. CASE Reconcile \/ SweepRaises \/ ApiCrash
  BY <1>4 DEF Reconcile, Sweep, SweepRead, SweepPoll, SweepLogs, SweepPut, SweepCollect,
              SweepKnown, SweepCommit, SweepTell, SweepMail, SweepRaises, ApiCrash, dbVars,
              workerVars
<1>5. CASE UNCHANGED vars
  BY <1>5 DEF vars, dbVars, workerVars
<1> QED
  BY <1>1, <1>2, <1>3, <1>4, <1>5 DEF Next

\* Evidence lasts: a run ends once, and a refused name stays refused.
LEMMA EvidenceStays ==
  ASSUME TypeOK, OutcomeInv, RowInv, RunsInv, [Next]_vars, UNCHANGED gone,
         NEW j \in Jobs, NEW s \in Outcomes, Evident(j, s)
  PROVE  Evident(j, s)'
<1>1. RunsKept
  BY RunsGoOn
<1>2. CASE container[j] # NoRun
  <2>1. container'[j] = container[j] /\ container[j] \in RunIds
    BY <1>2, HandleStays, HandlesAreRuns
  <2> QED
    BY <1>1, <1>2, <2>1 DEF Evident, RunsKept, Over
<1>3. CASE container[j] = NoRun
  <2>1. s = "failed" /\ NameTaken(j) /\ wpc[j] # "record"
    BY <1>3 DEF Evident
  <2>2. container'[j] = NoRun /\ wpc'[j] # "record"
    BY <1>3, <2>1, NoLaterRun
  <2>3. status[j] # "none"
    BY <2>1 DEF NameTaken, RunsInv, RunsShared
  <2>4. Local(j)' = Local(j)
    BY <2>3, RowStays DEF Local
  <2>5. NameTaken(j)'
    BY <1>1, <2>1, <2>4 DEF NameTaken, RunsKept
  <2> QED
    BY <2>1, <2>2, <2>5 DEF Evident
<1> QED
  BY <1>2, <1>3

\* While the container is there and lookups succeed, get_status tells the truth.
LEMMA PollIsEvidence ==
  ASSUME TypeOK, RunsInv, NEW j \in Jobs, container[j] # NoRun, gone[j] = {},
         "lookup" \notin Env, NEW r \in PollResults(j, container[j])
  PROVE  IF run[j][container[j]] = "up" THEN r = "running" ELSE r \in Outcomes /\ Evident(j, r)
<1>1. run[j][container[j]] \in RunStates \ {"none"}
  BY HandlesAreRuns DEF TypeOK, ProvidersTypeOK, RunsInv, HandleOK
<1> QED
  BY <1>1 DEF PollResults, RunStates, Evident, Outcomes

LEMMA ClaimsOfRequests ==
  ASSUME TypeOK, NEW i \in Jobs, Create(i) \/ Cancel(i) \/ AttemptEnds(i) \/ ScriptExits(i),
         NEW j \in Jobs, NEW s \in Outcomes, Claimed(j, s)'
  PROVE  Claimed(j, s)
<1> USE DEF Claimed, TaskClaims, SweepClaims, Observed, TypeOK, WorkerTypeOK
<1>1. CASE AttemptEnds(i)
  BY <1>1 DEF AttemptEnds, GoTo, dbVars, sweepVars
<1>2. CASE Create(i) \/ Cancel(i) \/ ScriptExits(i)
  BY <1>2 DEF Create, Cancel, CreateJob, EnqueueJob, CancelRead, CancelStop, CancelRemove,
              CancelWrite, CancelRaises, ScriptExits, dbVars, workerVars, sweepVars
<1> QED
  BY <1>1, <1>2

LEMMA ClaimsOfWork ==
  ASSUME TypeOK, OutcomeInv, RowInv, RunsInv, AgreeInv, Agreeable, NEW i \in Jobs, Work(i),
         NEW j \in Jobs, NEW s \in Outcomes, Claimed(j, s)'
  PROVE  Claimed(j, s) \/ Evident(j, s)'
<1> USE DEF Claimed, TaskClaims, SweepClaims, Observed, TypeOK, DbTypeOK, WorkerTypeOK, GoTo
<1>0. UNCHANGED sweepVars
  BY DEF Work, PickUp, DropTask, MarkRunning, Tell, Mail, Submit, SubmitRaises, RecordHandle,
         Poll, ReadLogs, Snapshot, TimeoutStop, TimeoutRemove, TimeoutLogs, SaveLogs, Collect,
         Finish
<1>1. CASE PickUp(i) \/ DropTask(i) \/ MarkRunning(i) \/ Finish(i)
  BY <1>0, <1>1 DEF PickUp, DropTask, MarkRunning, Finish, Outcomes, dbVars, workerVars,
                    sweepVars
<1>2. CASE Tell(i)
  BY <1>0, <1>2 DEF Tell, InsertNotification, AfterNotice, sweepVars
<1>3. CASE Mail(i)
  BY <1>0, <1>3 DEF Mail, AfterNotice, dbVars, sweepVars
<1>4. CASE Submit(i) \/ RecordHandle(i) \/ ReadLogs(i)
  BY <1>0, <1>4 DEF Submit, RecordHandle, ReadLogs, dbVars, sweepVars
<1>5. CASE SubmitRaises(i)
  <2>1. CASE j = i /\ s = "failed"
    <3>1. container[i] = NoRun /\ UNCHANGED <<container, providerVars>> /\ wpc'[i] = "tell"
      BY <1>5 DEF SubmitRaises, OutcomeInv, TaskHandle
    <3>2. NameTaken(i)
      BY <1>5 DEF SubmitRaises, SubmitMayFail, Agreeable, Disagreements
    <3>3. NameTaken(i)'
      BY <3>1, <3>2 DEF NameTaken, Local, providerVars, runVars
    <3> QED
      BY <2>1, <3>1, <3>3 DEF Evident
  <2>2. CASE ~(j = i /\ s = "failed")
    BY <1>0, <1>5, <2>2 DEF SubmitRaises, sweepVars
  <2> QED
    BY <2>1, <2>2
<1>6. CASE Poll(i)
  <2>1. /\ UNCHANGED <<container, provider, run, gone, notified, wst>>
        /\ wpc[i] = "poll" /\ wpc' = [wpc EXCEPT ![i] = "logs"]
        /\ wobs'[i] \in PollResults(i, whandle[i])
        /\ \A k \in Jobs : k # i => wobs'[k] = wobs[k]
    BY <1>6 DEF Poll, dbVars, providerVars, runVars
  <2>2. whandle[i] = container[i] /\ container[i] # NoRun /\ gone[i] = {}
    BY <2>1 DEF OutcomeInv, TaskHandle, Tracking, RunIds, NoRun, AgreeInv, Undisturbed
  <2>3. wobs'[i] \in Outcomes => Evident(i, wobs'[i])
    BY <2>1, <2>2, PollIsEvidence DEF Agreeable, Disagreements, Outcomes
  <2>4. CASE j = i /\ wobs'[i] = s
    BY <2>1, <2>2, <2>3, <2>4 DEF Evident
  <2>5. CASE ~(j = i /\ wobs'[i] = s)
    BY <1>0, <2>1, <2>5 DEF sweepVars
  <2> QED
    BY <2>4, <2>5
<1>7. CASE Snapshot(i) \/ SaveLogs(i) \/ Collect(i)
  BY <1>0, <1>7 DEF Snapshot, SaveLogs, Collect, dbVars, sweepVars
<1>8. ~TimeoutStop(i) /\ ~TimeoutRemove(i) /\ ~TimeoutLogs(i)
  BY DEF AgreeInv, Undisturbed, TimeoutStop, TimeoutRemove, TimeoutLogs
<1> QED
  BY <1>1, <1>2, <1>3, <1>4, <1>5, <1>6, <1>7, <1>8 DEF Work

LEMMA ClaimsOfSweep ==
  ASSUME TypeOK, OutcomeInv, RunsInv, AgreeInv, Agreeable, Reconcile \/ SweepRaises \/ ApiCrash,
         NEW j \in Jobs, NEW s \in Outcomes, Claimed(j, s)'
  PROVE  Claimed(j, s) \/ Evident(j, s)'
<1> USE DEF Claimed, TaskClaims, SweepClaims, SweepObserved, TypeOK, DbTypeOK, SweepTypeOK
<1>0. UNCHANGED <<container, workerVars, provider, run, gone>>
  BY DEF Reconcile, Sweep, SweepRead, SweepPoll, SweepLogs, SweepPut, SweepCollect, SweepKnown,
         SweepCommit, SweepTell, SweepMail, SweepRaises, ApiCrash, dbVars, providerVars, runVars
<1>1. CASE Sweep \/ (\E k \in Jobs : SweepRead(k)) \/ SweepRaises \/ ApiCrash
  BY <1>0, <1>1 DEF Sweep, SweepRead, SweepRaises, ApiCrash, SweepForgets, dbVars, workerVars
<1>2. CASE SweepPoll
  <2>1. /\ rpc = "poll" /\ UNCHANGED <<notified, rjob>>
        /\ rpc' # "idle" => robs' \in PollResults(rjob, rhandle)
    BY <1>2 DEF SweepPoll, SweepForgets, dbVars
  <2>2. rhandle = container[rjob] /\ container[rjob] # NoRun /\ gone[rjob] = {}
    BY <2>1 DEF OutcomeInv, SweepHandle, AgreeInv, Undisturbed
  <2>3. rpc' # "idle" /\ robs' \in Outcomes => Evident(rjob, robs')
    BY <2>1, <2>2, PollIsEvidence DEF Agreeable, Disagreements, Outcomes
  <2>4. CASE j = rjob /\ rpc' # "idle" /\ robs' = s
    BY <1>0, <2>2, <2>3, <2>4 DEF Evident
  <2>5. CASE ~(j = rjob /\ rpc' # "idle" /\ robs' = s)
    BY <1>0, <2>1, <2>5 DEF workerVars
  <2> QED
    BY <2>4, <2>5
<1>3. CASE SweepLogs \/ SweepPut \/ SweepCollect \/ SweepKnown \/ SweepCommit
  BY <1>0, <1>3 DEF SweepLogs, SweepPut, SweepCollect, SweepKnown, SweepCommit, dbVars,
                    workerVars
<1>4. CASE SweepTell
  BY <1>0, <1>4 DEF SweepTell, InsertNotification, SweepForgets, workerVars
<1>5. CASE SweepMail
  BY <1>0, <1>5 DEF SweepMail, SweepForgets, dbVars, workerVars
<1> QED
  BY <1>1, <1>2, <1>3, <1>4, <1>5 DEF Reconcile

LEMMA AgreeNext ==
  TypeOK /\ OutcomeInv /\ RowInv /\ RunsInv /\ AgreeInv /\ [Next]_vars => AgreeInv'
<1> SUFFICES ASSUME TypeOK, OutcomeInv, RowInv, RunsInv, AgreeInv, [Next]_vars, Agreeable
             PROVE  \A j \in Jobs : /\ Undisturbed(j)'
                                    /\ \A s \in Outcomes : Claimed(j, s)' => Evident(j, s)'
  BY DEF AgreeInv, Agreeable
<1>1. UNCHANGED gone /\ \A j \in Jobs : Undisturbed(j)'
  BY UndisturbedStays DEF AgreeInv, Agreeable, Disagreements
<1> SUFFICES ASSUME NEW j \in Jobs, NEW s \in Outcomes, Claimed(j, s)'
             PROVE  Evident(j, s)'
  BY <1>1
<1>3. Claimed(j, s) \/ Evident(j, s)'
  <2>1. CASE UNCHANGED vars
    BY <2>1 DEF vars, dbVars, workerVars, sweepVars, Claimed, TaskClaims, SweepClaims
  <2> QED
    BY <2>1, ClaimsOfRequests, ClaimsOfWork, ClaimsOfSweep DEF Next
<1> QED
  BY <1>1, <1>3, EvidenceStays DEF AgreeInv

LEMMA AgreeInit == Init => AgreeInv
  BY DEF Init, ProvidersInit, AgreeInv, Undisturbed, Claimed, TaskClaims, SweepClaims, Observed,
         SweepObserved, Outcomes

\* Where the two finalisers see a run end the same way, the owner is never told
\* both that the job succeeded and that it failed, though the task may be tried
\* again, die for good, and leave the job to a sweep that is itself cut short.
THEOREM TheOwnerHearsOneOutcome == Spec => []OutcomesAgree
<1>1. AgreeInv => OutcomesAgree
  BY DEF AgreeInv, Agreeable, OutcomesAgree, Outcomes, Claimed, Evident
<1>2. Spec => []AgreeInv
  BY RunsHold, AgreeInit, AgreeNext, PTL DEF Spec
<1> QED
  BY <1>1, <1>2, PTL

---------------------------------------------------------------------------
(* What is left in the bucket.                                             *)

\* A run seen to have ended has ended, where lookups succeed.
LEMMA SeenEndIsEnd ==
  ASSUME TypeOK, OutcomeInv, RowInv, FailureInv, Undamaged
  PROVE  /\ \A j \in Jobs : wpc[j] \in Observed /\ wobs[j] # "running" =>
              /\ whandle[j] = container[j] /\ container[j] \in RunIds
              /\ container[j] # NoRun /\ run[j][container[j]] \in Over
         /\ rpc \in SweepObserved => run[rjob][rhandle] \in Over
<1>1. \A j \in Jobs : Truthful(j)
  BY DEF Truthful, Undamaged
<1>2. ASSUME NEW j \in Jobs, wpc[j] \in Observed, wobs[j] # "running"
      PROVE  /\ whandle[j] = container[j] /\ container[j] \in RunIds
             /\ container[j] # NoRun /\ run[j][container[j]] \in Over
  <2>1. whandle[j] = container[j] /\ whandle[j] \in RunIds
    BY <1>2, HandlesAreRuns DEF OutcomeInv, TaskHandle, Observed, Tracking
  <2>2. wobs[j] \in Outcomes
    BY <1>2 DEF TypeOK, WorkerTypeOK
  <2>3. run[j][whandle[j]] \in Over
    BY <1>1, <1>2, <2>2 DEF OutcomeInv, TaskHandle, FailureInv, JobFailure, TaskFailure,
                            Outcomes, Over
  <2> QED
    BY <2>1, <2>3 DEF RunIds, NoRun
<1>3. ASSUME rpc \in SweepObserved
      PROVE  run[rjob][rhandle] \in Over
  <2>1. robs \in Outcomes /\ rjob \in Jobs
    BY <1>3 DEF RowInv, SweepEnding, SweepPcs, SweepObserved, TypeOK, SweepTypeOK
  <2> QED
    BY <1>1, <1>3, <2>1 DEF OutcomeInv, SweepHandle, FailureInv, SweepFailure, Outcomes, Over
<1> QED
  BY <1>2, <1>3

\* The log of an ended run reads whole while its container is there.
LEMMA LogIsWhole ==
  ASSUME Undamaged, NEW j \in Jobs, gone[j] = {}, NEW n, run[j][n] \in Over,
         NEW l \in LogResults(j, n)
  PROVE  l = "full"
  BY DEF LogResults, Undamaged, Over

LEMMA OnceStays ==
  ASSUME TypeOK, RowInv, ArtifactInv, Undamaged, [Next]_vars
  PROVE  \A i \in Jobs : TaskOnce(i)'
<1> USE DEF TypeOK, QueueTypeOK, WorkerTypeOK, TaskOnce, GoTo
<1>0. \A i \in Jobs : TaskOnce(i)
  BY DEF ArtifactInv
<1>1. ASSUME NEW j \in Jobs, Create(j) \/ Cancel(j) \/ ScriptExits(j)
      PROVE  \A i \in Jobs : TaskOnce(i)'
  <2>1. CASE CreateJob(j) \/ EnqueueJob(j)
    BY <1>0, <2>1 DEF CreateJob, EnqueueJob, RowInv, workerVars
  <2>2. CASE Cancel(j) \/ ScriptExits(j)
    BY <1>0, <2>2 DEF Cancel, CancelRead, CancelStop, CancelRemove, CancelWrite, CancelRaises,
                      ScriptExits, queueVars, workerVars
  <2> QED
    BY <1>1, <2>1, <2>2 DEF Create
<1>2. ASSUME NEW j \in Jobs, Work(j)
      PROVE  \A i \in Jobs : TaskOnce(i)'
  <2>1. TaskOnce(j)'
    <3>1. CASE PickUp(j) \/ DropTask(j)
      BY <1>0, <3>1, MaxTriesAssumption DEF PickUp, DropTask
    <3>2. CASE Tell(j) \/ Mail(j)
      BY <1>0, <3>2 DEF Tell, Mail, AfterNotice
    <3>3. CASE MarkRunning(j) \/ Submit(j) \/ SubmitRaises(j) \/ RecordHandle(j) \/ Poll(j)
               \/ ReadLogs(j) \/ Snapshot(j)
      BY <1>0, <3>3 DEF MarkRunning, Submit, SubmitRaises, RecordHandle, Poll, ReadLogs, Snapshot,
                        queueVars
    <3>4. CASE TimeoutStop(j) \/ TimeoutRemove(j) \/ TimeoutLogs(j) \/ SaveLogs(j) \/ Collect(j)
               \/ Finish(j)
      BY <1>0, <3>4 DEF TimeoutStop, TimeoutRemove, TimeoutLogs, SaveLogs, Collect, Finish,
                        queueVars
    <3> QED
      BY <1>2, <3>1, <3>2, <3>3, <3>4 DEF Work
  <2>2. ASSUME NEW i \in Jobs, i # j
        PROVE  task'[i] = task[i] /\ tries'[i] = tries[i] /\ wpc'[i] = wpc[i]
    BY <1>2, <2>2, WorkIsLocal
  <2> QED
    BY <1>0, <2>1, <2>2
<1>3. \A j \in Jobs : ~AttemptEnds(j)
  BY DEF AttemptEnds, Undamaged
<1>4. CASE Reconcile \/ SweepRaises
  BY <1>0, <1>4 DEF Reconcile, Sweep, SweepRead, SweepPoll, SweepLogs, SweepPut, SweepCollect,
              SweepKnown, SweepCommit, SweepTell, SweepMail, SweepRaises, queueVars, workerVars
<1>5. CASE ApiCrash
  BY <1>0, <1>5 DEF ApiCrash, workerVars
<1>6. CASE UNCHANGED vars
  BY <1>0, <1>6 DEF vars, queueVars, workerVars
<1> QED
  BY <1>1, <1>2, <1>3, <1>4, <1>5, <1>6 DEF Next

\* What others do to a job's row, runs and objects costs its task nothing.
LEMMA ArtifactsElsewhere ==
  ASSUME TypeOK, OutcomeInv, RowInv, RunsKept, FailureInv, ArtifactInv, Undamaged, NEW i \in Jobs,
         wpc'[i] = wpc[i], wst'[i] = wst[i], wobs'[i] = wobs[i], wlog'[i] = wlog[i],
         container'[i] = container[i], task'[i] = "done" => task[i] = "done",
         log'[i] \in {log[i], "full"}, ckpt[i] => ckpt'[i]
  PROVE  TaskArtifacts(i)'
<1>1. TaskArtifacts(i)
  BY DEF ArtifactInv
<1>2. Told(i)' => Told(i)
  BY DEF Told
<1>3. wpc[i] = "finish" \/ Told(i) => run'[i][container[i]] = run[i][container[i]]
  <2>1. wpc[i] = "finish" \/ Told(i) => container[i] \in RunIds /\ run[i][container[i]] \in Over
    BY <1>1, SeenEndIsEnd, HandlesAreRuns
       DEF TaskArtifacts, Told, Observed, RowInv, Ending, Outcomes
  <2> QED
    BY <2>1 DEF RunsKept
<1> QED
  BY <1>1, <1>2, <1>3 DEF TaskArtifacts

LEMMA ArtifactsOfWork ==
  ASSUME TypeOK, OutcomeInv, RowInv, RunsKept, FailureInv, ArtifactInv, Undamaged,
         NEW j \in Jobs, Work(j)
  PROVE  TaskArtifacts(j)'
<1> USE DEF TypeOK, QueueTypeOK, BucketTypeOK, WorkerTypeOK, GoTo
<1>0. /\ TaskArtifacts(j) /\ TaskOnce(j) /\ Undisturbed(j)
      /\ wpc[j] \in Observed /\ wobs[j] # "running" =>
           /\ whandle[j] = container[j] /\ container[j] \in RunIds
           /\ container[j] # NoRun /\ run[j][container[j]] \in Over
  BY SeenEndIsEnd DEF ArtifactInv
<1>1. CASE PickUp(j) \/ DropTask(j) \/ MarkRunning(j)
  BY <1>0, <1>1, MaxTriesAssumption
     DEF PickUp, DropTask, MarkRunning, TaskOnce, TaskArtifacts, Told, queueVars, Outcomes
<1>2. CASE Tell(j) \/ Mail(j)
  <2>1. /\ UNCHANGED <<container, providerVars, log, ckpt>>
        /\ wpc[j] \in {"tell", "mail"} /\ task[j] = "active"
    BY <1>0, <1>2 DEF Tell, Mail, TaskOnce, dbVars, bucketVars
  <2>2. \/ wpc'[j] = "mail" /\ wst'[j] = wst[j] /\ task'[j] = task[j]
        \/ wpc'[j] \in {"submit", "poll"} /\ task'[j] = task[j]
        \/ wpc'[j] = "idle" /\ wst[j] # "running"
    BY <1>2 DEF Tell, Mail, AfterNotice
  <2>3. wst[j] # "running" => wst[j] \in Outcomes
    BY <2>1 DEF Notifiable
  <2> QED
    BY <1>0, <2>1, <2>2, <2>3 DEF TaskArtifacts, Told, providerVars, runVars
<1>3. CASE Submit(j) \/ SubmitRaises(j) \/ RecordHandle(j) \/ Poll(j)
  <2>1. /\ wpc'[j] \in {"record", "tell", "poll", "logs"} /\ task'[j] = "active"
        /\ wpc'[j] = "tell" => container'[j] = NoRun
    BY <1>0, <1>3 DEF Submit, SubmitRaises, RecordHandle, Poll, TaskOnce, queueVars, OutcomeInv,
                      TaskHandle
  <2> QED
    BY <2>1 DEF TaskArtifacts, Told
<1>4. CASE ReadLogs(j)
  <2>1. /\ wpc[j] = "logs" /\ wpc'[j] = "snapshot" /\ task'[j] = "active"
        /\ wobs'[j] = wobs[j] /\ wlog'[j] \in LogResults(j, whandle[j])
    BY <1>0, <1>4 DEF ReadLogs, TaskOnce, queueVars
  <2>2. wobs[j] # "running" => wlog'[j] = "full"
    BY <1>0, <2>1, LogIsWhole DEF Observed, Undisturbed
  <2> QED
    BY <2>1, <2>2 DEF TaskArtifacts, Told
<1>5. CASE Snapshot(j)
  BY <1>0, <1>5 DEF Snapshot, TaskOnce, TaskArtifacts, Told, Undamaged, queueVars
<1>6. CASE SaveLogs(j)
  <2>1. /\ wpc[j] = "save" /\ wpc'[j] = "collect" /\ task'[j] = "active"
        /\ log'[j] = wlog[j]
    BY <1>0, <1>6 DEF SaveLogs, SafePutLogs, TaskOnce, Undamaged, queueVars
  <2>2. wlog[j] = "full"
    BY <1>0, <2>1 DEF TaskArtifacts, RowInv, Ending, Outcomes
  <2> QED
    BY <2>1, <2>2 DEF TaskArtifacts, Told
<1>7. CASE Collect(j)
  <2>1. /\ wpc[j] = "collect" /\ wpc'[j] = "finish" /\ task'[j] = "active"
        /\ log' = log /\ container' = container /\ run' = run
        /\ ckpt'[j] = (ckpt[j] \/ HasCheckpoint(j))
    BY <1>0, <1>7 DEF Collect, TaskOnce, Undamaged, queueVars, dbVars, providerVars, runVars
  <2>2. container[j] \in RunIds
    BY <1>0, <2>1 DEF RowInv, Ending, Outcomes, Observed
  <2> QED
    BY <1>0, <2>1, <2>2 DEF TaskArtifacts, Told, HasCheckpoint
<1>8. CASE Finish(j)
  <2>1. /\ wpc[j] = "finish" /\ wpc'[j] = "tell" /\ task'[j] = "active"
        /\ UNCHANGED <<container, run, log, ckpt>>
    BY <1>0, <1>8 DEF Finish, TaskOnce, queueVars, bucketVars, providerVars, runVars
  <2>2. run[j][container[j]] \in Over
    BY <1>0, <2>1 DEF RowInv, Ending, Outcomes, Observed
  <2> QED
    BY <1>0, <2>1, <2>2 DEF TaskArtifacts, Told
<1>9. ~TimeoutStop(j) /\ ~TimeoutRemove(j) /\ ~TimeoutLogs(j)
  BY <1>0 DEF Undisturbed, TimeoutStop, TimeoutRemove, TimeoutLogs
<1> QED
  BY <1>1, <1>2, <1>3, <1>4, <1>5, <1>6, <1>7, <1>8, <1>9 DEF Work

\* The sweep puts away nothing but whole logs.
LEMMA ArtifactsOfSweep ==
  ASSUME TypeOK, OutcomeInv, RowInv, RunsKept, FailureInv, ArtifactInv, Undamaged,
         Reconcile \/ SweepRaises \/ ApiCrash
  PROVE  /\ rpc' = "put" => rlog' = "full"
         /\ \A i \in Jobs : TaskArtifacts(i)'
<1> USE DEF TypeOK, BucketTypeOK, SweepTypeOK
<1>1. rpc' = "put" => rlog' = "full"
  <2>1. CASE SweepLogs
    <3>1. rpc = "logs" /\ (rpc' = "put" => rlog' \in LogResults(rjob, rhandle))
      BY <2>1 DEF SweepLogs
    <3>2. run[rjob][rhandle] \in Over /\ gone[rjob] = {}
      BY <3>1, SeenEndIsEnd DEF SweepObserved, ArtifactInv, Undisturbed
    <3> QED
      BY <3>1, <3>2, LogIsWhole
  <2>2. CASE SweepPut \/ SweepCollect \/ SweepKnown \/ SweepCommit \/ SweepTell \/ SweepMail
    BY <2>2 DEF SweepPut, SweepCollect, SweepKnown, SweepCommit, SweepTell, SweepMail,
                SweepForgets
  <2>3. CASE Sweep \/ (\E k \in Jobs : SweepRead(k)) \/ SweepPoll \/ SweepRaises \/ ApiCrash
    BY <2>3 DEF Sweep, SweepRead, SweepPoll, SweepRaises, ApiCrash, SweepForgets
  <2> QED
    BY <2>1, <2>2, <2>3 DEF Reconcile
<1>2. UNCHANGED <<container, workerVars>>
  BY DEF Reconcile, Sweep, SweepRead, SweepPoll, SweepLogs, SweepPut, SweepCollect, SweepKnown,
         SweepCommit, SweepTell, SweepMail, SweepRaises, ApiCrash, dbVars
<1>3. \A i \in Jobs : task'[i] = "done" => task[i] = "done"
  BY DEF Reconcile, Sweep, SweepRead, SweepPoll, SweepLogs, SweepPut, SweepCollect, SweepKnown,
         SweepCommit, SweepTell, SweepMail, SweepRaises, ApiCrash, queueVars
<1>4. \A i \in Jobs : log'[i] \in {log[i], "full"} /\ (ckpt[i] => ckpt'[i])
  <2>1. CASE SweepPut
    BY <2>1 DEF SweepPut, ArtifactInv
  <2>2. CASE SweepCollect
    BY <2>2 DEF SweepCollect
  <2>3. CASE ~SweepPut /\ ~SweepCollect
    BY <2>3 DEF Reconcile, Sweep, SweepRead, SweepPoll, SweepLogs, SweepKnown, SweepCommit,
                SweepTell, SweepMail, SweepRaises, ApiCrash, bucketVars
  <2> QED
    BY <2>1, <2>2, <2>3
<1> QED
  BY <1>1, <1>2, <1>3, <1>4, ArtifactsElsewhere DEF workerVars

LEMMA ArtifactNext ==
  TypeOK /\ OutcomeInv /\ RowInv /\ RunsInv /\ FailureInv /\ ArtifactInv /\ [Next]_vars
    => ArtifactInv'
<1> SUFFICES ASSUME TypeOK, OutcomeInv, RowInv, RunsInv, FailureInv, ArtifactInv, [Next]_vars,
                    Undamaged
             PROVE  /\ \A i \in Jobs : Undisturbed(i)' /\ TaskOnce(i)' /\ TaskArtifacts(i)'
                    /\ rpc' = "put" => rlog' = "full"
  BY DEF ArtifactInv, Undamaged
<1>1. RunsKept
  BY RunsGoOn
<1>2. \A i \in Jobs : Undisturbed(i)' /\ TaskOnce(i)'
  BY UndisturbedStays, OnceStays DEF ArtifactInv, Undamaged
<1>3. ASSUME NEW j \in Jobs, Create(j) \/ Cancel(j) \/ ScriptExits(j)
      PROVE  /\ \A i \in Jobs : TaskArtifacts(i)'
             /\ rpc' = "put" => rlog' = "full"
  <2>1. UNCHANGED <<container, bucketVars, workerVars, rpc, rlog>>
    BY <1>3 DEF Create, Cancel, CreateJob, EnqueueJob, CancelRead, CancelStop, CancelRemove,
                CancelWrite, CancelRaises, ScriptExits, dbVars, sweepVars
  <2>2. \A i \in Jobs : task'[i] = "done" => task[i] = "done"
    BY <1>3 DEF Create, Cancel, CreateJob, EnqueueJob, CancelRead, CancelStop, CancelRemove,
                CancelWrite, CancelRaises, ScriptExits, queueVars, TypeOK, QueueTypeOK
  <2> QED
    BY <1>1, <2>1, <2>2, ArtifactsElsewhere DEF ArtifactInv, bucketVars, workerVars
<1>4. ASSUME NEW j \in Jobs, Work(j)
      PROVE  /\ \A i \in Jobs : TaskArtifacts(i)'
             /\ rpc' = "put" => rlog' = "full"
  <2>1. UNCHANGED <<rpc, rlog>>
    BY <1>4 DEF Work, PickUp, DropTask, MarkRunning, Tell, Mail, Submit, SubmitRaises,
                RecordHandle, Poll, ReadLogs, Snapshot, TimeoutStop, TimeoutRemove, TimeoutLogs,
                SaveLogs, Collect, Finish, sweepVars
  <2>2. ASSUME NEW i \in Jobs, i # j
        PROVE  TaskArtifacts(i)'
    <3>1. /\ wpc'[i] = wpc[i] /\ wst'[i] = wst[i] /\ wobs'[i] = wobs[i]
          /\ wlog'[i] = wlog[i] /\ container'[i] = container[i] /\ task'[i] = task[i]
          /\ log'[i] = log[i] /\ ckpt'[i] = ckpt[i]
      BY <1>4, <2>2, WorkIsLocal
    <3> QED
      BY <1>1, <3>1, ArtifactsElsewhere
  <2> QED
    BY <1>1, <1>4, <2>1, <2>2, ArtifactsOfWork DEF ArtifactInv
<1>5. \A j \in Jobs : ~AttemptEnds(j)
  BY DEF AttemptEnds, Undamaged
<1>6. CASE UNCHANGED vars
  <2>1. UNCHANGED <<container, task, bucketVars, workerVars, rpc, rlog>>
    BY <1>6 DEF vars, dbVars, queueVars, bucketVars, workerVars, sweepVars
  <2> QED
    BY <1>1, <1>2, <2>1, ArtifactsElsewhere DEF ArtifactInv, bucketVars, workerVars
<1> QED
  BY <1>1, <1>2, <1>3, <1>4, <1>5, <1>6, ArtifactsOfSweep DEF Next

LEMMA ArtifactInit == Init => ArtifactInv
  BY DEF Init, ProvidersInit, ArtifactInv, Undisturbed, TaskOnce, TaskArtifacts, Told

\* Where only refused submissions and API crashes go wrong, the bucket holds the
\* whole log and the checkpoint of a succeeded job once its task is done, though
\* a sweep may finalise the same job, at any of the task's steps.
THEOREM ArtifactsAreKept == Spec => []ArtifactsComplete
<1>1. TypeOK /\ OutcomeInv /\ ArtifactInv => ArtifactsComplete
  BY DEF OutcomeInv, ArtifactInv, ArtifactsComplete, Undamaged, TaskArtifacts, Told
<1>2. Spec => []ArtifactInv
  BY RunsHold, FailureHolds, ArtifactInit, ArtifactNext, PTL DEF Spec
<1> QED
  BY <1>1, <1>2, RunsHold, PTL
=============================================================================
