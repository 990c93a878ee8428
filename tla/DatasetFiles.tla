---------------------------- MODULE DatasetFiles ----------------------------
(***************************************************************************)
(* The datasets of a user: rows of the files table and objects of the      *)
(* bucket, kept in step by four kinds of actors that share no lock:        *)
(*                                                                         *)
(*   upload_file    api/files: object first, then a row that is born ready *)
(*   queue_import,  services/dataset_import: a row first, then an arq task *)
(*   retry          that fetches the object                                *)
(*   import_dataset the task: perform_import                               *)
(*   remove_file    api/files: object first, then the row                  *)
(*                                                                         *)
(* perform_import opens a session for each access to its row and loads the *)
(* row anew in each; between that load and its commit the row may still    *)
(* change, and the UPDATE of a row that is gone raises.  build_object_key  *)
(* makes every upload's key unique: a key is named by the task and attempt *)
(* that made it.                                                           *)
(***************************************************************************)
EXTENDS Naturals

CONSTANTS
    Files,          \* file ids
    Retries,        \* bound: retry requests per file
    ImportTries,    \* max_tries of import_dataset
    Env             \* what may go wrong; see EnvEvents

EnvEvents == {"remove",     \* the owner removes files
              "fetchfail",  \* a download or an upload fails, or is too large
              "outage",     \* Redis or the bucket refuses a call
              "crash",      \* an attempt ends early: crash, shutdown, arq's timeout
              "apicrash"}   \* the API process dies

ASSUME RetriesAssumption == Retries \in Nat
ASSUME ImportTriesAssumption == ImportTries \in Nat \ {0}
ASSUME EnvAssumption == Env \subseteq EnvEvents

Tasks == 0..Retries         \* 0 is queue_import's task, t > 0 that of retry request t
Attempts == 1..ImportTries
Keys == Tasks \X Attempts
NoKey == <<0, 0>>           \* the empty object_key
UploadKey == <<0, 1>>       \* a direct upload has no task 0

VARIABLES
    row,        \* files.status; none: not yet, deleted: no longer there
    key,        \* files.object_key
    objects,    \* objects[f]: the keys of f's objects in the bucket
    task,       \* task[f][t]: the import_dataset task in Redis
    tries,      \* tries[f][t]: attempts arq has started
    pc,         \* pc[f][t]: where the attempt under way stands
    seen,       \* seen[f][t]: the status its session has loaded
    uploading,  \* whether upload_file stands between the object and the row
    retrying,   \* retrying[f][t]: the retry request that will make task t
    removing,   \* where remove_file stands
    rkey,       \* the key it has read
    erased,     \* history: the keys a removal has deleted
    cut         \* history: whether a task of f was lost or an attempt cut short

dbVars == <<row, key>>
bucketVars == <<objects, erased>>
taskVars == <<task, tries, pc, seen>>
apiVars == <<uploading, retrying, removing, rkey>>
vars == <<dbVars, bucketVars, taskVars, apiVars, cut>>

RowStates == {"none", "importing", "ready", "failed", "deleted"}
TaskStates == {"none", "unqueued", "ready", "active", "done", "lost"}
Pcs == {"idle", "fetch", "found", "commit", "discard", "failed", "commitfail"}

DbTypeOK ==
    /\ row \in [Files -> RowStates]
    /\ key \in [Files -> Keys \cup {NoKey}]

BucketTypeOK ==
    /\ objects \in [Files -> SUBSET Keys]
    /\ erased \in [Files -> SUBSET Keys]

TaskTypeOK ==
    /\ task \in [Files -> [Tasks -> TaskStates]]
    /\ tries \in [Files -> [Tasks -> 0..ImportTries]]
    /\ pc \in [Files -> [Tasks -> Pcs]]
    /\ seen \in [Files -> [Tasks -> RowStates]]

ApiTypeOK ==
    /\ uploading \in [Files -> BOOLEAN]
    /\ retrying \in [Files -> [Tasks -> {"none", "write", "over"}]]
    /\ removing \in [Files -> {"idle", "object", "row"}]
    /\ rkey \in [Files -> Keys \cup {NoKey}]

TypeOK ==
    /\ DbTypeOK
    /\ BucketTypeOK
    /\ TaskTypeOK
    /\ ApiTypeOK
    /\ cut \in [Files -> BOOLEAN]

Init ==
    /\ row = [f \in Files |-> "none"]
    /\ key = [f \in Files |-> NoKey]
    /\ objects = [f \in Files |-> {}]
    /\ erased = [f \in Files |-> {}]
    /\ task = [f \in Files |-> [t \in Tasks |-> "none"]]
    /\ tries = [f \in Files |-> [t \in Tasks |-> 0]]
    /\ pc = [f \in Files |-> [t \in Tasks |-> "idle"]]
    /\ seen = [f \in Files |-> [t \in Tasks |-> "none"]]
    /\ uploading = [f \in Files |-> FALSE]
    /\ retrying = [f \in Files |-> [t \in Tasks |-> "none"]]
    /\ removing = [f \in Files |-> "idle"]
    /\ rkey = [f \in Files |-> NoKey]
    /\ cut = [f \in Files |-> FALSE]

Exists(f) == row[f] \notin {"none", "deleted"}

PutObject(f, k) == objects' = [objects EXCEPT ![f] = @ \cup {k}]
DropObject(f, k) == objects' = [objects EXCEPT ![f] = @ \ {k}]

---------------------------------------------------------------------------
(* api/files: upload_file.                                                 *)

UploadObject(f) ==
    /\ row[f] = "none"
    /\ ~uploading[f]
    /\ PutObject(f, UploadKey)
    /\ uploading' = [uploading EXCEPT ![f] = TRUE]
    /\ UNCHANGED <<dbVars, erased, taskVars, retrying, removing, rkey, cut>>

UploadRow(f) ==
    /\ uploading[f]
    /\ row' = [row EXCEPT ![f] = "ready"]
    /\ key' = [key EXCEPT ![f] = UploadKey]
    /\ uploading' = [uploading EXCEPT ![f] = FALSE]
    /\ UNCHANGED <<bucketVars, taskVars, retrying, removing, rkey, cut>>

---------------------------------------------------------------------------
(* queue_import and retry: commit, then enqueue.                           *)

QueueImport(f) ==
    /\ row[f] = "none"
    /\ ~uploading[f]
    /\ UploadKey \notin objects[f]      \* an upload that died has a file id of its own
    /\ row' = [row EXCEPT ![f] = "importing"]
    /\ task' = [task EXCEPT ![f][0] = "unqueued"]
    /\ UNCHANGED <<key, bucketVars, tries, pc, seen, apiVars, cut>>

Enqueue(f, t) ==
    /\ task[f][t] = "unqueued"
    /\ \/ /\ task' = [task EXCEPT ![f][t] = "ready"]
          /\ UNCHANGED cut
       \/ /\ "outage" \in Env
          /\ task' = [task EXCEPT ![f][t] = "lost"]
          /\ cut' = [cut EXCEPT ![f] = TRUE]
    /\ UNCHANGED <<dbVars, bucketVars, tries, pc, seen, apiVars>>

RetryRead(f, t) ==
    /\ t # 0
    /\ row[f] = "failed"
    /\ retrying[f][t] = "none"
    /\ retrying' = [retrying EXCEPT ![f][t] = "write"]
    /\ UNCHANGED <<dbVars, bucketVars, taskVars, uploading, removing, rkey, cut>>

\* The status goes back to importing whatever it has become since; the request
\* fails if the row is gone.
RetryWrite(f, t) ==
    /\ retrying[f][t] = "write"
    /\ retrying' = [retrying EXCEPT ![f][t] = "over"]
    /\ IF Exists(f)
       THEN /\ row' = [row EXCEPT ![f] = "importing"]
            /\ task' = [task EXCEPT ![f][t] = "unqueued"]
       ELSE UNCHANGED <<row, task>>
    /\ UNCHANGED <<key, bucketVars, tries, pc, seen, uploading, removing, rkey, cut>>

---------------------------------------------------------------------------
(* perform_import, under arq.                                              *)

GoTo(f, t, next) == pc' = [pc EXCEPT ![f][t] = next]

\* The attempt is over: it returned (done), or raised, after which arq may or
\* may not queue the task again.
Return(f, t) ==
    /\ GoTo(f, t, "idle")
    /\ task' = [task EXCEPT ![f][t] = "done"]
    /\ seen' = [seen EXCEPT ![f][t] = "none"]

Raise(f, t) ==
    /\ GoTo(f, t, "idle")
    /\ \E s \in {"ready", "done"} : task' = [task EXCEPT ![f][t] = s]
    /\ seen' = [seen EXCEPT ![f][t] = "none"]

\* Mutation: the task is queued without max_tries.
BeginForever(f, t) ==
    /\ task[f][t] = "ready"
    /\ tries' = [tries EXCEPT ![f][t] = @ + 1]
    /\ IF row[f] = "importing"
       THEN /\ task' = [task EXCEPT ![f][t] = "active"]
            /\ GoTo(f, t, "fetch")
            /\ UNCHANGED seen
       ELSE Return(f, t)
    /\ UNCHANGED <<dbVars, bucketVars, apiVars, cut>>

\* Only a row that is importing is worth an attempt.
Begin(f, t) ==
    /\ task[f][t] = "ready"
    /\ tries[f][t] < ImportTries
    /\ tries' = [tries EXCEPT ![f][t] = @ + 1]
    /\ IF row[f] = "importing"
       THEN /\ task' = [task EXCEPT ![f][t] = "active"]
            /\ GoTo(f, t, "fetch")
            /\ UNCHANGED seen
       ELSE Return(f, t)
    /\ UNCHANGED <<dbVars, bucketVars, apiVars, cut>>

GiveUp(f, t) ==
    /\ task[f][t] = "ready"
    /\ tries[f][t] = ImportTries
    /\ Return(f, t)
    /\ UNCHANGED <<dbVars, bucketVars, tries, apiVars, cut>>

OwnKey(f, t) == <<t, tries[f][t]>>

\* _stream_to_bucket: the object appears when its upload is complete.
Fetch(f, t) ==
    /\ pc[f][t] = "fetch"
    /\ \/ PutObject(f, OwnKey(f, t)) /\ GoTo(f, t, "found")
       \/ "fetchfail" \in Env /\ GoTo(f, t, "failed") /\ UNCHANGED objects
    /\ UNCHANGED <<dbVars, erased, task, tries, seen, apiVars, cut>>

\* The second session's db.get.
LoadFound(f, t) ==
    /\ pc[f][t] = "found"
    /\ GoTo(f, t, IF Exists(f) THEN "commit" ELSE "discard")
    /\ seen' = [seen EXCEPT ![f][t] = row[f]]
    /\ UNCHANGED <<dbVars, bucketVars, task, tries, apiVars, cut>>

\* Mutation: the object's key is left out of the commit.
CommitStatusOnly(f, t) ==
    /\ pc[f][t] = "commit"
    /\ IF Exists(f)
       THEN /\ row' = [row EXCEPT ![f] = IF seen[f][t] = "ready" THEN @ ELSE "ready"]
            /\ Return(f, t)
       ELSE Raise(f, t) /\ UNCHANGED row
    /\ UNCHANGED <<key, bucketVars, tries, apiVars, cut>>

\* The commit writes the columns that differ from what was loaded: the key
\* always, the status unless it was ready.  It raises if the row is gone.
CommitFound(f, t) ==
    /\ pc[f][t] = "commit"
    /\ IF Exists(f)
       THEN /\ row' = [row EXCEPT ![f] = IF seen[f][t] = "ready" THEN @ ELSE "ready"]
            /\ key' = [key EXCEPT ![f] = OwnKey(f, t)]
            /\ Return(f, t)
       ELSE Raise(f, t) /\ UNCHANGED dbVars
    /\ UNCHANGED <<bucketVars, tries, apiVars, cut>>

\* The row went while the bytes were coming.
Discard(f, t) ==
    /\ pc[f][t] = "discard"
    /\ \/ DropObject(f, OwnKey(f, t)) /\ Return(f, t)
       \/ "outage" \in Env /\ UNCHANGED objects /\ Raise(f, t)
    /\ UNCHANGED <<dbVars, erased, tries, apiVars, cut>>

LoadFailed(f, t) ==
    /\ pc[f][t] = "failed"
    /\ IF Exists(f)
       THEN GoTo(f, t, "commitfail") /\ seen' = [seen EXCEPT ![f][t] = row[f]] /\ UNCHANGED task
       ELSE Return(f, t)
    /\ UNCHANGED <<dbVars, bucketVars, tries, apiVars, cut>>

\* Mutation: the failure is logged and not recorded.
FailSilently(f, t) ==
    /\ pc[f][t] = "commitfail"
    /\ Return(f, t)
    /\ UNCHANGED <<dbVars, bucketVars, tries, apiVars, cut>>

CommitFailed(f, t) ==
    /\ pc[f][t] = "commitfail"
    /\ IF Exists(f)
       THEN /\ row' = [row EXCEPT ![f] = IF seen[f][t] = "failed" THEN @ ELSE "failed"]
            /\ Return(f, t)
       ELSE Raise(f, t) /\ UNCHANGED row
    /\ UNCHANGED <<key, bucketVars, tries, apiVars, cut>>

\* A cancellation is no Exception: nothing is recorded.  The upload's thread
\* may still complete.
AttemptEnds(f, t) ==
    /\ "crash" \in Env
    /\ pc[f][t] # "idle"
    /\ \/ UNCHANGED objects
       \/ pc[f][t] = "fetch" /\ PutObject(f, OwnKey(f, t))
    /\ Raise(f, t)
    /\ cut' = [cut EXCEPT ![f] = TRUE]
    /\ UNCHANGED <<dbVars, erased, tries, apiVars>>

---------------------------------------------------------------------------
(* api/files: remove_file, one request at a time for a file.               *)

RemoveRead(f) ==
    /\ "remove" \in Env
    /\ removing[f] = "idle"
    /\ Exists(f)
    /\ removing' = [removing EXCEPT ![f] = IF key[f] = NoKey THEN "row" ELSE "object"]
    /\ rkey' = [rkey EXCEPT ![f] = key[f]]
    /\ UNCHANGED <<dbVars, bucketVars, taskVars, uploading, retrying, cut>>

\* A failure here aborts the request and leaves the row in place.
RemoveObject(f) ==
    /\ removing[f] = "object"
    /\ \/ /\ DropObject(f, rkey[f])
          /\ erased' = [erased EXCEPT ![f] = @ \cup {rkey[f]}]
          /\ removing' = [removing EXCEPT ![f] = "row"]
          /\ UNCHANGED rkey
       \/ /\ "outage" \in Env
          /\ removing' = [removing EXCEPT ![f] = "idle"]
          /\ rkey' = [rkey EXCEPT ![f] = NoKey]
          /\ UNCHANGED bucketVars
    /\ UNCHANGED <<dbVars, taskVars, uploading, retrying, cut>>

RemoveRow(f) ==
    /\ removing[f] = "row"
    /\ row' = [row EXCEPT ![f] = "deleted"]
    /\ key' = [key EXCEPT ![f] = NoKey]
    /\ removing' = [removing EXCEPT ![f] = "idle"]
    /\ rkey' = [rkey EXCEPT ![f] = NoKey]
    /\ UNCHANGED <<bucketVars, taskVars, uploading, retrying, cut>>

\* The API process dies with the requests it was serving.
ApiCrash ==
    /\ "apicrash" \in Env
    /\ uploading' = [f \in Files |-> FALSE]
    /\ retrying' = [f \in Files |-> [t \in Tasks |->
                      IF retrying[f][t] = "write" THEN "over" ELSE retrying[f][t]]]
    /\ removing' = [f \in Files |-> "idle"]
    /\ rkey' = [f \in Files |-> NoKey]
    /\ task' = [f \in Files |-> [t \in Tasks |->
                  IF task[f][t] = "unqueued" THEN "lost" ELSE task[f][t]]]
    /\ cut' = [f \in Files |-> cut[f] \/ \E t \in Tasks : task[f][t] = "unqueued"]
    /\ UNCHANGED <<dbVars, bucketVars, tries, pc, seen>>

Request(f) ==
    \/ UploadObject(f) \/ UploadRow(f) \/ QueueImport(f)
    \/ RemoveRead(f) \/ RemoveObject(f) \/ RemoveRow(f)

Import(f, t) ==
    \/ Begin(f, t) \/ GiveUp(f, t) \/ Fetch(f, t)
    \/ LoadFound(f, t) \/ CommitFound(f, t) \/ Discard(f, t)
    \/ LoadFailed(f, t) \/ CommitFailed(f, t)

Next ==
    \/ \E f \in Files :
         \/ Request(f)
         \/ \E t \in Tasks : \/ RetryRead(f, t) \/ RetryWrite(f, t) \/ Enqueue(f, t)
                             \/ Import(f, t) \/ AttemptEnds(f, t)
    \/ ApiCrash

Spec == Init /\ [][Next]_vars

\* The request that committed the row goes on, and arq runs queued tasks; the
\* HTTP client's timeouts and the size limit bound every download.
Fairness ==
    \A f \in Files, t \in Tasks : WF_vars(Enqueue(f, t)) /\ WF_vars(Import(f, t))

FairSpec == Spec /\ Fairness

---------------------------------------------------------------------------
(* What must hold.                                                         *)

\* A dataset that is listed as ready, and so offered to kernels and jobs
\* (sdk.py:42), has its object in the bucket; only a removal the owner asked
\* for has ever taken it away.
ReadyIsDownloadable ==
    \A f \in Files : row[f] = "ready" => key[f] \in objects[f] \cup erased[f]

\* A row that is importing has a task that will settle it, however retries,
\* removals and late commits interleave, unless a task was lost or cut short.
ImportingHasTask ==
    \A f \in Files :
        row[f] = "importing" /\ ~cut[f] =>
            \E t \in Tasks : task[f][t] \in {"unqueued", "ready", "active"}

\* ... and it does settle it.
ImportSettles ==
    \A f \in Files : row[f] = "importing" ~> row[f] # "importing" \/ cut[f]

=============================================================================
