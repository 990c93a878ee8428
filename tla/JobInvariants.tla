--------------------------- MODULE JobInvariants ---------------------------
(***************************************************************************)
(* The strengthenings that make the safety properties of JobLifecycle      *)
(* inductive: what each actor's memory owes to the shared state at each of *)
(* its program points.                                                     *)
(***************************************************************************)
EXTENDS JobLifecycle

---------------------------------------------------------------------------
(* For NoticeFollowsCommit: whatever a finaliser is about to tell has been *)
(* committed, by itself or by the actor whose status it read.              *)

NoticeInv ==
    /\ \A j \in Jobs :
         /\ status[j] # "none" => status[j] \in committed[j]
         /\ wpc[j] = "mark" /\ wst[j] # "none" => wst[j] \in committed[j]
         /\ wpc[j] \in {"tell", "mail"} => wst[j] \in committed[j]
         /\ notified[j] \subseteq committed[j]
    /\ rpc \in {"tell", "mail"} => robs \in committed[rjob]

---------------------------------------------------------------------------
(* For MailedOnce: an email that is owed is owed by one finaliser, which   *)
(* inserted the row.                                                       *)

TaskOwes(j, s) == wpc[j] = "mail" /\ wst[j] = s
SweepOwes(j, s) == rpc = "mail" /\ rjob = j /\ robs = s

MailInv ==
    \A j \in Jobs, s \in Notifiable :
        /\ mails[j][s] \in {0, 1}
        /\ mails[j][s] = 1 => s \in notified[j] /\ ~TaskOwes(j, s) /\ ~SweepOwes(j, s)
        /\ TaskOwes(j, s) => s \in notified[j] /\ ~SweepOwes(j, s)
        /\ SweepOwes(j, s) => s \in notified[j]

---------------------------------------------------------------------------
(* For SucceededIsTrue and TrackedRunIsOnly: every handle in memory is the *)
(* one of the row, and an observed success is that run's.                  *)

Observed == {"logs", "snapshot", "save", "collect", "finish"}
SweepObserved == {"logs", "put", "collect", "known", "commit"}

TaskHandle(j) ==
    /\ wpc[j] \in {"submit", "record"} => container[j] = NoRun
    /\ wpc[j] \notin {"idle", "record"} => whandle[j] = container[j]
    /\ wpc[j] \in Observed /\ wobs[j] = "succeeded" => run[j][whandle[j]] = "ok"

SweepHandle ==
    /\ rpc # "idle" => container[rjob] # NoRun /\ rhandle = container[rjob]
    /\ rpc \in SweepObserved /\ robs = "succeeded" => run[rjob][rhandle] = "ok"

OutcomeInv ==
    /\ \A j \in Jobs :
         /\ TaskHandle(j)
         /\ status[j] = "succeeded" => /\ container[j] # NoRun
                                       /\ run[j][container[j]] = "ok"
    /\ SweepHandle

---------------------------------------------------------------------------
(* For ImplementsRecord: whatever an actor remembers of a job, the job has *)
(* a row, and what a finaliser is about to write is an outcome.            *)

Ending == {"save", "collect", "finish"}
SweepEnding == SweepPcs \ {"idle", "poll"}

RowInv ==
    /\ \A j \in Jobs :
         /\ (task[j] # "none" \/ wpc[j] # "idle" \/ cpc[j] # "idle" \/ container[j] # NoRun)
            => status[j] # "none"
         /\ wpc[j] \in Ending => wobs[j] \in Outcomes
    /\ rpc # "idle" => status[rjob] # "none"
    /\ rpc \in SweepEnding => robs \in Outcomes

---------------------------------------------------------------------------
(* For OneLocalRun: what is removed has ended, handles are of runs that    *)
(* were started, and whoever is about to remove one has stopped it.        *)

Over == {"ok", "bad"}

HandleOK(j) ==
    /\ container[j] # NoRun => run[j][container[j]] # "none"
    /\ wpc[j] = "record" => run[j][whandle[j]] # "none"
    /\ wpc[j] = "remove" => run[j][whandle[j]] \in Over
    /\ cpc[j] \in {"stop", "remove"} => run[j][chandle[j]] # "none"
    /\ cpc[j] = "remove" => run[j][chandle[j]] \in Over

RunsShared ==
    /\ \A j \in Jobs : status[j] = "none" => \A n \in RunIds : run[j][n] = "none"
    /\ \A j \in Jobs : \A n \in gone[j] : run[j][n] \in Over
    /\ OneLocalRun

RunsInv == RunsShared /\ \A j \in Jobs : HandleOK(j)

---------------------------------------------------------------------------
(* For FailedRunIsOver: an observed failure is that run's end, unless its  *)
(* provider cannot be trusted, and the stop at the cap is waited for.  A   *)
(* job whose submission is under way has not failed.                       *)

Truthful(j) == Local(j) \/ "lookup" \notin Env

Submitting(j) ==
    /\ container[j] = NoRun
    /\ \/ wpc[j] \in {"mark", "tell", "mail"} /\ wst[j] = "running"
       \/ wpc[j] \in {"submit", "record"}

TaskFailure(j) ==
    /\ wpc[j] = "relog" => run[j][whandle[j]] \in Over
    /\ wpc[j] \in Observed /\ wobs[j] = "failed" /\ Truthful(j) => run[j][whandle[j]] \in Over
    /\ Submitting(j) => status[j] # "failed"

JobFailure(j) ==
    /\ TaskFailure(j)
    /\ Truthful(j) /\ status[j] = "failed" /\ container[j] # NoRun
       => run[j][container[j]] \in Over

SweepFailure ==
    rpc \in SweepObserved /\ robs = "failed" /\ Truthful(rjob) => run[rjob][rhandle] \in Over

FailureInv == SweepFailure /\ \A j \in Jobs : JobFailure(j)

---------------------------------------------------------------------------
(* For OutcomesAgree: where both finalisers see a run end the same way,    *)
(* whoever claims an outcome has the evidence for it: the run of the row   *)
(* ended so, or there is no such run and no attempt will ever start one.   *)

Agreeable == Env \cap Disagreements = {}

TaskClaims(j, s) == \/ wpc[j] \in {"tell", "mail"} /\ wst[j] = s
                    \/ wpc[j] \in Observed /\ wobs[j] = s

SweepClaims(j, s) == rpc \in SweepObserved \cup {"tell", "mail"} /\ rjob = j /\ robs = s

Claimed(j, s) == s \in notified[j] \/ TaskClaims(j, s) \/ SweepClaims(j, s)

Evident(j, s) ==
    IF container[j] = NoRun
    THEN s = "failed" /\ NameTaken(j) /\ wpc[j] # "record"
    ELSE run[j][container[j]] = IF s = "succeeded" THEN "ok" ELSE "bad"

\* Nobody but the script ends a run, and no container is removed.
Undisturbed(j) == /\ cpc[j] = "idle"
                  /\ gone[j] = {}
                  /\ wpc[j] \notin {"stop", "remove", "relog"}

AgreeInv ==
    Agreeable => \A j \in Jobs :
        /\ Undisturbed(j)
        /\ \A s \in Outcomes : Claimed(j, s) => Evident(j, s)

---------------------------------------------------------------------------
(* For ArtifactsComplete: what the task has read of an ended run is the    *)
(* whole log, and once it has put that away nothing shorter replaces it.   *)

Undamaged == Env \subseteq {"apicrash", "nosubmit"}

\* One attempt only: a task that is active or done was picked up once.
TaskOnce(j) ==
    /\ task[j] \in {"none", "pending", "ready"} => tries[j] = 0
    /\ wpc[j] # "idle" => task[j] = "active"

Told(j) ==
    container[j] # NoRun /\ \/ wpc[j] \in {"tell", "mail"} /\ wst[j] \in Outcomes
                            \/ task[j] = "done"

TaskArtifacts(j) ==
    /\ wpc[j] \in {"snapshot", "save"} /\ wobs[j] # "running" => wlog[j] = "full"
    /\ Told(j) => run[j][container[j]] \in Over
    /\ wpc[j] \in {"collect", "finish"} \/ Told(j) => log[j] = "full"
    /\ (wpc[j] = "finish" \/ Told(j)) /\ run[j][container[j]] = "ok" => ckpt[j]

ArtifactInv ==
    Undamaged =>
        /\ \A j \in Jobs : Undisturbed(j) /\ TaskOnce(j) /\ TaskArtifacts(j)
        /\ rpc = "put" => rlog = "full"
=============================================================================
