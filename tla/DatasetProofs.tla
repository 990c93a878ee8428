---------------------------- MODULE DatasetProofs ----------------------------
(***************************************************************************)
(* Datasets, in two parts.  First DatasetFiles, for any number of files,   *)
(* of retry requests and of attempts: a dataset that is listed as ready    *)
(* has its object, and one that is importing has a task that will settle   *)
(* it.  Then ListPages, for any number of items, of requests under way     *)
(* and of faults: a list that nothing is under way about is true.          *)
(*                                                                         *)
(* In the first part, TaskInv ties the attempts, their tasks and the retry *)
(* requests to the row.  ReadyInv says what an attempt about to commit has *)
(* put in the bucket, under a key no other attempt writes or deletes.      *)
(* SettlerInv strengthens ImportingHasTask: the task it names is not one   *)
(* that has already decided to leave the status as it is.                  *)
(***************************************************************************)
EXTENDS DatasetFiles, ListPages, FiniteSetTheorems, TLAPS

\* An attempt is under way only while its task is active; a task is made once,
\* after the row; and nobody uploads or removes what is not there.
TaskOK(f, t) ==
    /\ pc[f][t] # "idle" => task[f][t] = "active" /\ tries[f][t] \in Attempts
    /\ task[f][t] # "none" => row[f] # "none"
    /\ task[f][t] \in {"none", "unqueued"} => tries[f][t] = 0
    /\ t # 0 /\ retrying[f][t] = "none" => task[f][t] = "none"
    /\ retrying[f][t] = "write" => t # 0 /\ task[f][t] = "none" /\ row[f] # "none"
    /\ pc[f][t] = "discard" => row[f] = "deleted"

TaskInv ==
    \A f \in Files :
        /\ uploading[f] => row[f] = "none"
        /\ removing[f] # "idle" => row[f] # "none"
        /\ \A t \in Tasks : TaskOK(f, t)

Kept(f) == objects[f] \cup erased[f]

\* Whoever is about to name a key in the row has put its object in the bucket;
\* Discard takes away its own object only, when the row is gone.
ReadyInv ==
    /\ ReadyIsDownloadable
    /\ \A f \in Files :
         /\ uploading[f] => UploadKey \in Kept(f)
         /\ removing[f] = "object" => rkey[f] \in Keys
         /\ \A t \in Tasks : pc[f][t] \in {"found", "commit"} => OwnKey(f, t) \in Kept(f)

\* Task t will settle the row of f: it is not about to leave the status as it is.
Settler(f, t) ==
    /\ task[f][t] \in {"unqueued", "ready", "active"}
    /\ pc[f][t] = "commit" => seen[f][t] # "ready"
    /\ pc[f][t] = "commitfail" => seen[f][t] # "failed"

\* A task arq has queued again, other than after an accident, has found the row
\* gone.
Requeued(f, t) == task[f][t] = "ready" /\ tries[f][t] # 0

SettlerInv ==
    \A f \in Files : ~cut[f] =>
        /\ row[f] = "importing" => \E t \in Tasks : Settler(f, t)
        /\ \A t \in Tasks : Requeued(f, t) => row[f] = "deleted"

FilesInv ==
    /\ TypeOK
    /\ TaskInv
    /\ ReadyInv
    /\ SettlerInv

---------------------------------------------------------------------------
(* Types.                                                                  *)

LEMMA KeyFacts ==
  /\ 0 \in Tasks
  /\ 1 \in Attempts
  /\ UploadKey \in Keys
  /\ \A t \in Tasks, n \in Attempts : <<t, n>> \in Keys
  /\ NoKey \notin Keys
BY RetriesAssumption, ImportTriesAssumption DEF Tasks, Attempts, Keys, UploadKey, NoKey

LEMMA FilesInit == Init => FilesInv
<1> SUFFICES ASSUME Init PROVE FilesInv
  OBVIOUS
<1> USE DEF Init
<1>1. TypeOK
  BY ImportTriesAssumption
  DEF TypeOK, DbTypeOK, BucketTypeOK, TaskTypeOK, ApiTypeOK, RowStates, TaskStates, Pcs
<1>2. TaskInv /\ SettlerInv
  BY DEF TaskInv, TaskOK, SettlerInv, Requeued
<1>3. ReadyInv
  BY DEF ReadyInv, ReadyIsDownloadable
<1> QED
  BY <1>1, <1>2, <1>3 DEF FilesInv

\* What a step does to one entry of a task's attributes leaves the others alone.
LEMMA Update ==
  ASSUME NEW S, NEW g \in [Files -> [Tasks -> S]], NEW f \in Files, NEW t \in Tasks,
         NEW v \in S
  PROVE  /\ [g EXCEPT ![f][t] = v] \in [Files -> [Tasks -> S]]
         /\ \A i \in Files, u \in Tasks :
              [g EXCEPT ![f][t] = v][i][u] = IF i = f /\ u = t THEN v ELSE g[i][u]
OBVIOUS

\* Bucket operations.
LEMMA ObjectTypes ==
  ASSUME BucketTypeOK, NEW f \in Files, NEW k \in Keys, PutObject(f, k) \/ DropObject(f, k)
  PROVE  objects' \in [Files -> SUBSET Keys]
BY DEF BucketTypeOK, PutObject, DropObject

LEMMA GoToTypes ==
  ASSUME TaskTypeOK, NEW f \in Files, NEW t \in Tasks, NEW next \in Pcs, GoTo(f, t, next)
  PROVE  /\ pc' \in [Files -> [Tasks -> Pcs]]
         /\ \A i \in Files, u \in Tasks :
              pc'[i][u] = IF i = f /\ u = t THEN next ELSE pc[i][u]
BY Update DEF TaskTypeOK, GoTo

LEMMA TaskBecomes ==
  ASSUME TaskTypeOK, NEW f \in Files, NEW t \in Tasks, NEW s \in TaskStates,
         task' = [task EXCEPT ![f][t] = s]
  PROVE  /\ task' \in [Files -> [Tasks -> TaskStates]]
         /\ \A i \in Files, u \in Tasks :
              task'[i][u] = IF i = f /\ u = t THEN s ELSE task[i][u]
BY Update DEF TaskTypeOK

LEMMA SeenBecomes ==
  ASSUME TaskTypeOK, NEW f \in Files, NEW t \in Tasks, NEW s \in RowStates,
         seen' = [seen EXCEPT ![f][t] = s]
  PROVE  /\ seen' \in [Files -> [Tasks -> RowStates]]
         /\ \A i \in Files, u \in Tasks :
              seen'[i][u] = IF i = f /\ u = t THEN s ELSE seen[i][u]
BY Update DEF TaskTypeOK

LEMMA EndTypes ==
  ASSUME TaskTypeOK, NEW f \in Files, NEW t \in Tasks, Return(f, t) \/ Raise(f, t)
  PROVE  /\ task' \in [Files -> [Tasks -> TaskStates]]
         /\ pc' \in [Files -> [Tasks -> Pcs]]
         /\ seen' \in [Files -> [Tasks -> RowStates]]
         /\ task'[f][t] \in {"ready", "done"} /\ (Return(f, t) => task'[f][t] = "done")
         /\ pc'[f][t] = "idle"
         /\ \A i \in Files, u \in Tasks : i # f \/ u # t =>
              task'[i][u] = task[i][u] /\ pc'[i][u] = pc[i][u] /\ seen'[i][u] = seen[i][u]
<1>1. /\ pc' \in [Files -> [Tasks -> Pcs]]
      /\ \A i \in Files, u \in Tasks :
           pc'[i][u] = IF i = f /\ u = t THEN "idle" ELSE pc[i][u]
  BY GoToTypes DEF Return, Raise, Pcs
<1>2. PICK s \in {"ready", "done"} : /\ task' = [task EXCEPT ![f][t] = s]
                                     /\ Return(f, t) => s = "done"
  <2>1. CASE Return(f, t)
    BY <2>1 DEF Return
  <2>2. CASE ~Return(f, t)
    BY <2>2 DEF Raise
  <2> QED
    BY <2>1, <2>2
<1>3. s \in TaskStates /\ "none" \in RowStates
  BY <1>2 DEF TaskStates, RowStates
<1>4. task' = [task EXCEPT ![f][t] = s] /\ seen' = [seen EXCEPT ![f][t] = "none"]
  BY <1>2 DEF Return, Raise
<1>5. /\ task' \in [Files -> [Tasks -> TaskStates]]
      /\ \A i \in Files, u \in Tasks :
           task'[i][u] = IF i = f /\ u = t THEN s ELSE task[i][u]
  BY <1>3, <1>4, Update DEF TaskTypeOK
<1>6. /\ seen' \in [Files -> [Tasks -> RowStates]]
      /\ \A i \in Files, u \in Tasks :
           seen'[i][u] = IF i = f /\ u = t THEN "none" ELSE seen[i][u]
  BY <1>3, <1>4, Update DEF TaskTypeOK
<1> QED
  BY <1>1, <1>2, <1>5, <1>6

\* What a step leaves alone keeps its type.
LEMMA Frame ==
  ASSUME TypeOK
  PROVE  /\ UNCHANGED dbVars => DbTypeOK'
         /\ UNCHANGED bucketVars => BucketTypeOK'
         /\ UNCHANGED taskVars => TaskTypeOK'
         /\ UNCHANGED apiVars => ApiTypeOK'
         /\ UNCHANGED cut => (cut \in [Files -> BOOLEAN])'
BY DEF TypeOK, DbTypeOK, BucketTypeOK, TaskTypeOK, ApiTypeOK, dbVars, bucketVars, taskVars,
       apiVars

LEMMA RequestTypes ==
  ASSUME TypeOK, ReadyInv, NEW f \in Files, Request(f)
  PROVE  TypeOK'
<1> USE DEF TypeOK
<1>1. CASE UploadObject(f)
  <2>1. BucketTypeOK'
    BY <1>1, KeyFacts, ObjectTypes DEF UploadObject, BucketTypeOK
  <2>2. ApiTypeOK'
    BY <1>1 DEF UploadObject, ApiTypeOK
  <2> QED
    BY <1>1, <2>1, <2>2, Frame DEF UploadObject
<1>2. CASE UploadRow(f)
  <2>1. DbTypeOK'
    BY <1>2, KeyFacts DEF UploadRow, DbTypeOK, RowStates
  <2>2. ApiTypeOK'
    BY <1>2 DEF UploadRow, ApiTypeOK
  <2> QED
    BY <1>2, <2>1, <2>2, Frame DEF UploadRow
<1>3. CASE QueueImport(f)
  <2>1. DbTypeOK'
    BY <1>3 DEF QueueImport, DbTypeOK, RowStates
  <2>2. "unqueued" \in TaskStates /\ task' = [task EXCEPT ![f][0] = "unqueued"]
    BY <1>3 DEF QueueImport, TaskStates
  <2>3. TaskTypeOK'
    BY <1>3, <2>2, KeyFacts, Update DEF QueueImport, TaskTypeOK
  <2> QED
    BY <1>3, <2>1, <2>3, Frame DEF QueueImport
<1>4. CASE RemoveRead(f)
  <2>1. ApiTypeOK'
    BY <1>4 DEF RemoveRead, ApiTypeOK, DbTypeOK
  <2> QED
    BY <1>4, <2>1, Frame DEF RemoveRead
<1>5. CASE RemoveObject(f)
  <2>1. rkey[f] \in Keys
    BY <1>5 DEF RemoveObject, ReadyInv
  <2>2. BucketTypeOK'
    BY <1>5, <2>1, ObjectTypes DEF RemoveObject, BucketTypeOK, bucketVars
  <2>3. ApiTypeOK'
    BY <1>5 DEF RemoveObject, ApiTypeOK
  <2> QED
    BY <1>5, <2>2, <2>3, Frame DEF RemoveObject
<1>6. CASE RemoveRow(f)
  <2>1. DbTypeOK'
    BY <1>6 DEF RemoveRow, DbTypeOK, RowStates
  <2>2. ApiTypeOK'
    BY <1>6 DEF RemoveRow, ApiTypeOK
  <2> QED
    BY <1>6, <2>1, <2>2, Frame DEF RemoveRow
<1> QED
  BY <1>1, <1>2, <1>3, <1>4, <1>5, <1>6 DEF Request

LEMMA RetryTypes ==
  ASSUME TypeOK, NEW f \in Files, NEW t \in Tasks,
         RetryRead(f, t) \/ RetryWrite(f, t) \/ Enqueue(f, t)
  PROVE  TypeOK'
<1> USE DEF TypeOK
<1>1. CASE RetryRead(f, t)
  <2>1. retrying' \in [Files -> [Tasks -> {"none", "write", "over"}]]
    BY <1>1, Update DEF RetryRead, ApiTypeOK
  <2>2. ApiTypeOK'
    BY <1>1, <2>1 DEF RetryRead, ApiTypeOK
  <2> QED
    BY <1>1, <2>2, Frame DEF RetryRead
<1>2. CASE RetryWrite(f, t)
  <2>0. retrying' \in [Files -> [Tasks -> {"none", "write", "over"}]]
    BY <1>2, Update DEF RetryWrite, ApiTypeOK
  <2>1. ApiTypeOK'
    BY <1>2, <2>0 DEF RetryWrite, ApiTypeOK
  <2>2. DbTypeOK'
    BY <1>2 DEF RetryWrite, DbTypeOK, RowStates
  <2>3. "unqueued" \in TaskStates
    BY DEF TaskStates
  <2>4. task' = [task EXCEPT ![f][t] = "unqueued"] \/ task' = task
    BY <1>2 DEF RetryWrite
  <2>5. task' \in [Files -> [Tasks -> TaskStates]]
    BY <2>3, <2>4, TaskBecomes DEF TaskTypeOK
  <2>6. TaskTypeOK'
    BY <1>2, <2>5 DEF RetryWrite, TaskTypeOK
  <2> QED
    BY <1>2, <2>1, <2>2, <2>6, Frame DEF RetryWrite
<1>3. CASE Enqueue(f, t)
  <2>1. PICK s \in TaskStates : task' = [task EXCEPT ![f][t] = s]
    BY <1>3 DEF Enqueue, TaskStates
  <2>2. task' \in [Files -> [Tasks -> TaskStates]]
    BY <2>1, Update DEF TaskTypeOK
  <2>3. TaskTypeOK' /\ (cut \in [Files -> BOOLEAN])'
    BY <1>3, <2>2 DEF Enqueue, TaskTypeOK
  <2> QED
    BY <1>3, <2>3, Frame DEF Enqueue
<1> QED
  BY <1>1, <1>2, <1>3

LEMMA ImportTypes ==
  ASSUME TypeOK, TaskInv, NEW f \in Files, NEW t \in Tasks,
         Import(f, t) \/ AttemptEnds(f, t)
  PROVE  TypeOK'
<1> USE DEF TypeOK
<1>0. pc[f][t] # "idle" => OwnKey(f, t) \in Keys
  BY KeyFacts DEF TaskInv, TaskOK, OwnKey
<1>1. CASE Begin(f, t)
  <2>1. tries[f][t] + 1 \in 0..ImportTries
    BY <1>1, ImportTriesAssumption DEF Begin, TaskTypeOK
  <2>2. tries' \in [Files -> [Tasks -> 0..ImportTries]]
    BY <1>1, <2>1, Update DEF Begin, TaskTypeOK
  <2>3. "active" \in TaskStates /\ "fetch" \in Pcs
    BY DEF TaskStates, Pcs
  <2>4. CASE row[f] = "importing"
    <3>1. pc' \in [Files -> [Tasks -> Pcs]]
      BY <1>1, <2>3, <2>4, GoToTypes DEF Begin
    <3>2. task' \in [Files -> [Tasks -> TaskStates]]
      BY <1>1, <2>3, <2>4, TaskBecomes DEF Begin
    <3>3. TaskTypeOK'
      BY <1>1, <2>2, <2>4, <3>1, <3>2 DEF Begin, TaskTypeOK
    <3> QED
      BY <1>1, <3>3, Frame DEF Begin
  <2>5. CASE row[f] # "importing"
    BY <1>1, <2>2, <2>5, EndTypes, Frame DEF Begin, TaskTypeOK
  <2> QED
    BY <2>4, <2>5
<1>2. CASE GiveUp(f, t)
  BY <1>2, EndTypes, Frame DEF GiveUp, TaskTypeOK
<1>3. CASE Fetch(f, t)
  <2>1. OwnKey(f, t) \in Keys /\ {"found", "failed"} \subseteq Pcs
    BY <1>0, <1>3 DEF Fetch, Pcs
  <2>2. BucketTypeOK'
    BY <1>3, <2>1, ObjectTypes DEF Fetch, BucketTypeOK
  <2>3. TaskTypeOK'
    BY <1>3, <2>1, GoToTypes DEF Fetch, TaskTypeOK
  <2> QED
    BY <1>3, <2>2, <2>3, Frame DEF Fetch
<1>4. CASE LoadFound(f, t) \/ LoadFailed(f, t)
  <2>1. row[f] \in RowStates /\ {"commit", "discard", "commitfail"} \subseteq Pcs
    BY DEF DbTypeOK, Pcs
  <2>2. CASE LoadFailed(f, t) /\ ~Exists(f)
    BY <2>2, EndTypes, Frame DEF LoadFailed, TaskTypeOK
  <2>3. CASE LoadFound(f, t) \/ Exists(f)
    <3>1. /\ seen' = [seen EXCEPT ![f][t] = row[f]] /\ UNCHANGED <<task, tries>>
          /\ \E next \in Pcs : GoTo(f, t, next)
      BY <1>4, <2>1, <2>3 DEF LoadFound, LoadFailed
    <3>2. seen' \in [Files -> [Tasks -> RowStates]]
      BY <2>1, <3>1, Update DEF TaskTypeOK
    <3>3. TaskTypeOK'
      BY <3>1, <3>2, GoToTypes DEF TaskTypeOK
    <3> QED
      BY <1>4, <3>3, Frame DEF LoadFound, LoadFailed
  <2> QED
    BY <1>4, <2>2, <2>3
<1>5. CASE CommitFound(f, t) \/ CommitFailed(f, t)
  <2>1. OwnKey(f, t) \in Keys
    BY <1>0, <1>5 DEF CommitFound, CommitFailed
  <2>2. DbTypeOK'
    BY <1>5, <2>1 DEF CommitFound, CommitFailed, DbTypeOK, RowStates, dbVars
  <2>3. TaskTypeOK'
    BY <1>5, EndTypes DEF CommitFound, CommitFailed, TaskTypeOK
  <2> QED
    BY <1>5, <2>2, <2>3, Frame DEF CommitFound, CommitFailed
<1>6. CASE Discard(f, t)
  <2>1. OwnKey(f, t) \in Keys
    BY <1>0, <1>6 DEF Discard
  <2>2. BucketTypeOK'
    BY <1>6, <2>1, ObjectTypes DEF Discard, BucketTypeOK
  <2>3. TaskTypeOK'
    BY <1>6, EndTypes DEF Discard, TaskTypeOK
  <2> QED
    BY <1>6, <2>2, <2>3, Frame DEF Discard
<1>7. CASE AttemptEnds(f, t)
  <2>1. OwnKey(f, t) \in Keys
    BY <1>0, <1>7 DEF AttemptEnds
  <2>2. BucketTypeOK'
    BY <1>7, <2>1, ObjectTypes DEF AttemptEnds, BucketTypeOK
  <2>3. TaskTypeOK' /\ (cut \in [Files -> BOOLEAN])'
    BY <1>7, EndTypes DEF AttemptEnds, TaskTypeOK
  <2> QED
    BY <1>7, <2>2, <2>3, Frame DEF AttemptEnds
<1> QED
  BY <1>1, <1>2, <1>3, <1>4, <1>5, <1>6, <1>7 DEF Import

LEMMA CrashTypes ==
  ASSUME TypeOK, ApiCrash
  PROVE  TypeOK'
<1>1. TaskTypeOK'
  BY DEF TypeOK, ApiCrash, TaskTypeOK, TaskStates
<1>2. ApiTypeOK' /\ (cut \in [Files -> BOOLEAN])'
  BY DEF TypeOK, ApiCrash, ApiTypeOK
<1> QED
  BY <1>1, <1>2, Frame DEF TypeOK, ApiCrash

LEMMA TypePreserved == FilesInv /\ [Next]_vars => TypeOK'
<1> SUFFICES ASSUME FilesInv, [Next]_vars PROVE TypeOK'
  OBVIOUS
<1>1. CASE UNCHANGED vars
  BY <1>1, Frame DEF FilesInv, TypeOK, vars
<1> QED
  BY <1>1, RequestTypes, RetryTypes, ImportTypes, CrashTypes DEF Next, FilesInv

---------------------------------------------------------------------------
(* What a step of an import does, seen from outside.                       *)

\* To everything but its own task and row: nothing.
Alone(f, t) ==
    /\ UNCHANGED <<erased, apiVars>>
    /\ \A i \in Files, u \in Tasks : i # f \/ u # t =>
         /\ task'[i][u] = task[i][u] /\ tries'[i][u] = tries[i][u]
         /\ pc'[i][u] = pc[i][u] /\ seen'[i][u] = seen[i][u]
    /\ \A i \in Files : i # f =>
         /\ row'[i] = row[i] /\ key'[i] = key[i]
         /\ objects'[i] = objects[i] /\ cut'[i] = cut[i]

\* To the task and the row.
Works(f, t) ==
    /\ task[f][t] # "none" /\ task'[f][t] \in {"ready", "active", "done"}
    /\ pc'[f][t] # "idle" => task'[f][t] = "active" /\ tries'[f][t] \in Attempts
    /\ row'[f] # "none"
    /\ row[f] = "deleted" => row'[f] = "deleted"
    /\ pc'[f][t] = "discard" => row'[f] = "deleted"

\* To the objects.
Keeps(f, t) ==
    /\ row'[f] = "ready" => key'[f] \in Kept(f)'
    /\ pc'[f][t] \in {"found", "commit"} => OwnKey(f, t)' \in Kept(f)'
    /\ \A u \in Tasks : u # t /\ OwnKey(f, u) \in Kept(f) => OwnKey(f, u) \in Kept(f)'

\* To the outcome.
Settling(f, t) ==
    ~cut'[f] =>
        /\ ~cut[f]
        /\ row'[f] = "importing" => row[f] = "importing" /\ (Settler(f, t) => Settler(f, t)')
        /\ Requeued(f, t)' => row'[f] = "deleted"

ImportStep(f, t) == Alone(f, t) /\ Works(f, t) /\ Keeps(f, t) /\ Settling(f, t)

LEMMA BeginStep ==
  ASSUME FilesInv, NEW f \in Files, NEW t \in Tasks, Begin(f, t)
  PROVE  ImportStep(f, t)
<1>0. TaskOK(f, t) /\ TaskTypeOK /\ ReadyIsDownloadable
  BY DEF FilesInv, TaskInv, TypeOK, ReadyInv
<1>1. /\ task[f][t] = "ready" /\ pc[f][t] = "idle"
      /\ UNCHANGED <<row, key, objects, erased, apiVars, cut>>
  BY <1>0 DEF Begin, TaskOK, dbVars, bucketVars
<1>2. /\ tries'[f][t] = tries[f][t] + 1 /\ tries'[f][t] \in Attempts
      /\ \A i \in Files, u \in Tasks : i # f \/ u # t => tries'[i][u] = tries[i][u]
  <2>1. tries[f][t] + 1 \in Attempts /\ Attempts \subseteq 0..ImportTries
    BY <1>0, ImportTriesAssumption DEF Begin, TaskTypeOK, Attempts
  <2> QED
    BY <1>0, <2>1, Update DEF Begin, TaskTypeOK
<1>3. /\ \A i \in Files, u \in Tasks : i # f \/ u # t =>
            task'[i][u] = task[i][u] /\ pc'[i][u] = pc[i][u] /\ seen'[i][u] = seen[i][u]
      /\ \/ row[f] = "importing" /\ task'[f][t] = "active" /\ pc'[f][t] = "fetch"
         \/ row[f] # "importing" /\ task'[f][t] = "done" /\ pc'[f][t] = "idle"
  <2>1. CASE row[f] = "importing"
    BY <1>0, <2>1, GoToTypes, TaskBecomes DEF Begin, Pcs, TaskStates
  <2>2. CASE row[f] # "importing"
    BY <1>0, <2>2, EndTypes DEF Begin
  <2> QED
    BY <2>1, <2>2
<1>4. Alone(f, t)
  BY <1>1, <1>2, <1>3 DEF Alone
<1>5. Works(f, t)
  BY <1>0, <1>1, <1>2, <1>3 DEF Works, TaskOK
<1>6. Keeps(f, t)
  BY <1>0, <1>1, <1>3 DEF Keeps, Kept, ReadyIsDownloadable
<1>7. Settling(f, t)
  BY <1>1, <1>3 DEF Settling, Settler, Requeued
<1> QED
  BY <1>4, <1>5, <1>6, <1>7 DEF ImportStep

LEMMA GiveUpStep ==
  ASSUME FilesInv, NEW f \in Files, NEW t \in Tasks, GiveUp(f, t)
  PROVE  ImportStep(f, t)
<1>0. TaskOK(f, t) /\ TaskTypeOK /\ ReadyIsDownloadable
  BY DEF FilesInv, TaskInv, TypeOK, ReadyInv
<1>1. task[f][t] = "ready" /\ UNCHANGED <<row, key, objects, erased, tries, apiVars, cut>>
  BY DEF GiveUp, dbVars, bucketVars
<1>2. ~cut[f] => row[f] # "importing"
  BY ImportTriesAssumption DEF GiveUp, FilesInv, SettlerInv, Requeued
<1>3. /\ task'[f][t] = "done" /\ pc'[f][t] = "idle"
      /\ \A i \in Files, u \in Tasks : i # f \/ u # t =>
           task'[i][u] = task[i][u] /\ pc'[i][u] = pc[i][u] /\ seen'[i][u] = seen[i][u]
  BY <1>0, EndTypes DEF GiveUp
<1>4. Alone(f, t)
  BY <1>1, <1>3 DEF Alone
<1>5. Works(f, t)
  BY <1>0, <1>1, <1>3 DEF Works, TaskOK
<1>6. Keeps(f, t)
  BY <1>0, <1>1, <1>3 DEF Keeps, Kept, ReadyIsDownloadable, OwnKey
<1>7. Settling(f, t)
  BY <1>1, <1>2, <1>3 DEF Settling, Settler, Requeued
<1> QED
  BY <1>4, <1>5, <1>6, <1>7 DEF ImportStep

LEMMA FetchStep ==
  ASSUME FilesInv, NEW f \in Files, NEW t \in Tasks, Fetch(f, t)
  PROVE  ImportStep(f, t)
<1>0. TaskOK(f, t) /\ TaskTypeOK /\ BucketTypeOK /\ ReadyIsDownloadable
  BY DEF FilesInv, TaskInv, TypeOK, ReadyInv
<1>1. /\ pc[f][t] = "fetch" /\ UNCHANGED <<row, key, erased, task, tries, seen, apiVars, cut>>
  BY DEF Fetch, dbVars
<1>2. PICK next \in {"found", "failed"} :
        /\ GoTo(f, t, next)
        /\ next = "found" => PutObject(f, OwnKey(f, t))
        /\ next = "failed" => UNCHANGED objects
  BY DEF Fetch
<1>3. \A i \in Files, u \in Tasks : pc'[i][u] = IF i = f /\ u = t THEN next ELSE pc[i][u]
  BY <1>0, <1>2, GoToTypes DEF Pcs
<1>4. /\ \A i \in Files : objects[i] \subseteq objects'[i] /\ (i # f => objects'[i] = objects[i])
      /\ next = "found" => OwnKey(f, t) \in objects'[f]
  BY <1>0, <1>2 DEF PutObject, BucketTypeOK
<1>5. Alone(f, t)
  BY <1>1, <1>3, <1>4 DEF Alone
<1>6. Works(f, t)
  BY <1>0, <1>1, <1>2, <1>3 DEF Works, TaskOK
<1>7. Keeps(f, t)
  BY <1>0, <1>1, <1>2, <1>3, <1>4 DEF Keeps, Kept, ReadyIsDownloadable, OwnKey
<1>8. Settling(f, t)
  BY <1>0, <1>1, <1>2, <1>3 DEF Settling, Settler, Requeued, TaskOK
<1> QED
  BY <1>5, <1>6, <1>7, <1>8 DEF ImportStep

LEMMA LoadStep ==
  ASSUME FilesInv, NEW f \in Files, NEW t \in Tasks, LoadFound(f, t) \/ LoadFailed(f, t)
  PROVE  ImportStep(f, t)
<1>0. /\ TaskOK(f, t) /\ TaskTypeOK /\ row[f] \in RowStates /\ ReadyIsDownloadable
      /\ pc[f][t] = "found" => OwnKey(f, t) \in Kept(f)
  BY DEF FilesInv, TaskInv, TypeOK, DbTypeOK, ReadyInv
<1>1. /\ pc[f][t] \in {"found", "failed"}
      /\ UNCHANGED <<row, key, objects, erased, tries, apiVars, cut>>
  BY DEF LoadFound, LoadFailed, dbVars, bucketVars
<1>2. task[f][t] = "active" /\ tries[f][t] \in Attempts /\ row[f] # "none"
  BY <1>0, <1>1 DEF TaskOK
<1>3. /\ \A i \in Files, u \in Tasks : i # f \/ u # t =>
            task'[i][u] = task[i][u] /\ pc'[i][u] = pc[i][u] /\ seen'[i][u] = seen[i][u]
      /\ \/ /\ task'[f][t] = "active" /\ seen'[f][t] = row[f]
            /\ \/ pc[f][t] = "found" /\ pc'[f][t] = "commit"
               \/ pc'[f][t] = "discard" /\ ~Exists(f)
               \/ pc'[f][t] = "commitfail"
         \/ task'[f][t] = "done" /\ pc'[f][t] = "idle" /\ ~Exists(f)
  <2>1. CASE LoadFailed(f, t) /\ ~Exists(f)
    BY <1>0, <2>1, EndTypes DEF LoadFailed
  <2>2. CASE LoadFailed(f, t) /\ Exists(f)
    BY <1>0, <1>2, <2>2, GoToTypes, SeenBecomes DEF LoadFailed, Pcs
  <2>3. CASE LoadFound(f, t)
    <3>1. PICK next \in {"commit", "discard"} :
            GoTo(f, t, next) /\ (next = "discard" => ~Exists(f))
      BY <2>3 DEF LoadFound
    <3>2. \A i \in Files, u \in Tasks :
            pc'[i][u] = IF i = f /\ u = t THEN next ELSE pc[i][u]
      BY <1>0, <3>1, GoToTypes DEF Pcs
    <3>3. \A i \in Files, u \in Tasks :
            seen'[i][u] = IF i = f /\ u = t THEN row[f] ELSE seen[i][u]
      BY <1>0, <2>3, SeenBecomes DEF LoadFound
    <3> QED
      BY <1>2, <2>3, <3>1, <3>2, <3>3 DEF LoadFound
  <2> QED
    BY <2>1, <2>2, <2>3
<1>4. Alone(f, t)
  BY <1>1, <1>3 DEF Alone
<1>5. Works(f, t)
  BY <1>1, <1>2, <1>3 DEF Works, Exists
<1>6. Keeps(f, t)
  BY <1>0, <1>1, <1>3 DEF Keeps, Kept, ReadyIsDownloadable, OwnKey
<1>7. Settling(f, t)
  BY <1>1, <1>2, <1>3 DEF Settling, Settler, Requeued, Exists
<1> QED
  BY <1>4, <1>5, <1>6, <1>7 DEF ImportStep

LEMMA CommitStep ==
  ASSUME FilesInv, NEW f \in Files, NEW t \in Tasks, CommitFound(f, t) \/ CommitFailed(f, t)
  PROVE  ImportStep(f, t)
<1>0. /\ TaskOK(f, t) /\ TaskTypeOK /\ DbTypeOK /\ ReadyIsDownloadable
      /\ pc[f][t] = "commit" => OwnKey(f, t) \in Kept(f)
  BY DEF FilesInv, TaskInv, TypeOK, ReadyInv
<1>1. /\ pc[f][t] \in {"commit", "commitfail"}
      /\ UNCHANGED <<objects, erased, tries, apiVars, cut>>
  BY DEF CommitFound, CommitFailed, bucketVars
<1>2. task[f][t] = "active" /\ row[f] # "none"
  BY <1>0, <1>1 DEF TaskOK
<1>3. /\ pc'[f][t] = "idle" /\ task'[f][t] \in {"ready", "done"}
      /\ task'[f][t] = "ready" => row'[f] = "deleted"
      /\ \A i \in Files, u \in Tasks : i # f \/ u # t =>
           task'[i][u] = task[i][u] /\ pc'[i][u] = pc[i][u] /\ seen'[i][u] = seen[i][u]
  <2>1. CASE Exists(f)
    <3>1. Return(f, t)
      BY <2>1 DEF CommitFound, CommitFailed
    <3> QED
      BY <1>0, <3>1, EndTypes
  <2>2. CASE ~Exists(f)
    <3>1. Raise(f, t) /\ row' = row /\ row[f] = "deleted"
      BY <1>2, <2>2 DEF CommitFound, CommitFailed, Exists, dbVars
    <3> QED
      BY <1>0, <3>1, EndTypes
  <2> QED
    BY <2>1, <2>2
<1>4. /\ \A i \in Files : i # f => row'[i] = row[i] /\ key'[i] = key[i]
      /\ row[f] = "deleted" => row'[f] = "deleted"
      /\ row'[f] # "none"
      /\ row'[f] = "ready" => key'[f] \in Kept(f)
      /\ row'[f] = "importing" => row[f] = "importing" /\ ~Settler(f, t)
  <2>1. CASE ~Exists(f)
    BY <1>2, <2>1 DEF CommitFound, CommitFailed, Exists, dbVars
  <2>2. CASE Exists(f) /\ CommitFound(f, t)
    BY <1>0, <1>2, <2>2 DEF CommitFound, DbTypeOK, Exists, Settler
  <2>3. CASE Exists(f) /\ CommitFailed(f, t)
    BY <1>0, <1>2, <2>3
    DEF CommitFailed, DbTypeOK, Exists, Settler, Kept, ReadyIsDownloadable
  <2> QED
    BY <2>1, <2>2, <2>3
<1>5. Alone(f, t)
  BY <1>1, <1>3, <1>4 DEF Alone
<1>6. Works(f, t)
  BY <1>2, <1>3, <1>4 DEF Works
<1>7. Keeps(f, t)
  BY <1>1, <1>3, <1>4 DEF Keeps, Kept
<1>8. Settling(f, t)
  BY <1>1, <1>3, <1>4 DEF Settling, Requeued
<1> QED
  BY <1>5, <1>6, <1>7, <1>8 DEF ImportStep

LEMMA DiscardStep ==
  ASSUME FilesInv, NEW f \in Files, NEW t \in Tasks, Discard(f, t)
  PROVE  ImportStep(f, t)
<1>0. TaskOK(f, t) /\ TaskTypeOK /\ BucketTypeOK
  BY DEF FilesInv, TaskInv, TypeOK
<1>1. /\ pc[f][t] = "discard" /\ task[f][t] = "active" /\ row[f] = "deleted"
      /\ UNCHANGED <<row, key, erased, tries, apiVars, cut>>
  BY <1>0 DEF Discard, TaskOK, dbVars
<1>2. /\ pc'[f][t] = "idle" /\ task'[f][t] \in {"ready", "done"}
      /\ \A i \in Files, u \in Tasks : i # f \/ u # t =>
           task'[i][u] = task[i][u] /\ pc'[i][u] = pc[i][u] /\ seen'[i][u] = seen[i][u]
  <2>1. Return(f, t) \/ Raise(f, t)
    BY DEF Discard
  <2> QED
    BY <1>0, <2>1, EndTypes
<1>3. \A i \in Files : /\ i # f => objects'[i] = objects[i]
                       /\ objects[i] \ {OwnKey(f, t)} \subseteq objects'[i]
  BY <1>0 DEF Discard, DropObject, BucketTypeOK
<1>4. Alone(f, t)
  BY <1>1, <1>2, <1>3 DEF Alone
<1>5. Works(f, t)
  BY <1>1, <1>2 DEF Works
<1>6. Keeps(f, t)
  BY <1>1, <1>2, <1>3 DEF Keeps, Kept, OwnKey
<1>7. Settling(f, t)
  BY <1>1, <1>2 DEF Settling, Requeued
<1> QED
  BY <1>4, <1>5, <1>6, <1>7 DEF ImportStep

LEMMA EndsStep ==
  ASSUME FilesInv, NEW f \in Files, NEW t \in Tasks, AttemptEnds(f, t)
  PROVE  ImportStep(f, t)
<1>0. TaskOK(f, t) /\ TaskTypeOK /\ BucketTypeOK /\ cut \in [Files -> BOOLEAN]
      /\ ReadyIsDownloadable
  BY DEF FilesInv, TaskInv, TypeOK, ReadyInv
<1>1. /\ pc[f][t] # "idle" /\ task[f][t] = "active" /\ row[f] # "none"
      /\ cut' = [cut EXCEPT ![f] = TRUE]
      /\ UNCHANGED <<row, key, erased, tries, apiVars>>
  BY <1>0 DEF AttemptEnds, TaskOK, dbVars
<1>2. /\ pc'[f][t] = "idle" /\ task'[f][t] \in {"ready", "done"}
      /\ \A i \in Files, u \in Tasks : i # f \/ u # t =>
           task'[i][u] = task[i][u] /\ pc'[i][u] = pc[i][u] /\ seen'[i][u] = seen[i][u]
  <2>1. Raise(f, t)
    BY DEF AttemptEnds
  <2> QED
    BY <1>0, <2>1, EndTypes
<1>3. \A i \in Files : objects[i] \subseteq objects'[i] /\ (i # f => objects'[i] = objects[i])
  BY <1>0 DEF AttemptEnds, PutObject, BucketTypeOK
<1>4. Alone(f, t)
  BY <1>0, <1>1, <1>2, <1>3 DEF Alone
<1>5. Works(f, t)
  BY <1>1, <1>2 DEF Works
<1>6. Keeps(f, t)
  BY <1>0, <1>1, <1>2, <1>3 DEF Keeps, Kept, OwnKey, ReadyIsDownloadable
<1>7. Settling(f, t)
  BY <1>0, <1>1 DEF Settling
<1> QED
  BY <1>4, <1>5, <1>6, <1>7 DEF ImportStep

LEMMA EveryImportStep ==
  ASSUME FilesInv, NEW f \in Files, NEW t \in Tasks, Import(f, t) \/ AttemptEnds(f, t)
  PROVE  ImportStep(f, t)
BY BeginStep, GiveUpStep, FetchStep, LoadStep, CommitStep, DiscardStep, EndsStep DEF Import

---------------------------------------------------------------------------
(* The invariant.                                                          *)

LEMMA ImportKeepsInv ==
  ASSUME FilesInv, NEW f \in Files, NEW t \in Tasks, ImportStep(f, t)
  PROVE  TaskInv' /\ ReadyInv' /\ SettlerInv'
<1>0. TaskInv /\ ReadyInv /\ SettlerInv /\ cut \in [Files -> BOOLEAN]
  BY DEF FilesInv, TypeOK
<1>1. Alone(f, t) /\ Works(f, t) /\ Keeps(f, t) /\ Settling(f, t)
  BY DEF ImportStep
<1>2. TaskInv'
  <2>1. ASSUME NEW i \in Files, NEW u \in Tasks PROVE TaskOK(i, u)'
    <3>1. TaskOK(i, u)
      BY <1>0 DEF TaskInv
    <3> QED
      BY <1>1, <3>1 DEF TaskOK, Alone, Works, apiVars
  <2>2. ASSUME NEW i \in Files
        PROVE (uploading'[i] => row'[i] = "none") /\ (removing'[i] # "idle" => row'[i] # "none")
    BY <1>0, <1>1 DEF TaskInv, TaskOK, Alone, Works, apiVars
  <2> QED
    BY <2>1, <2>2 DEF TaskInv
<1>3. ReadyInv'
  BY <1>0, <1>1 DEF ReadyInv, ReadyIsDownloadable, Kept, OwnKey, TaskInv, TaskOK, Alone, Works,
                    Keeps, apiVars
<1>4. SettlerInv'
  <2> SUFFICES ASSUME NEW i \in Files, ~cut'[i]
               PROVE  /\ row'[i] = "importing" => \E u \in Tasks : Settler(i, u)'
                      /\ \A u \in Tasks : Requeued(i, u)' => row'[i] = "deleted"
    BY DEF SettlerInv
  <2>1. ~cut[i]
    BY <1>1 DEF Alone, Settling
  <2>2. ASSUME row'[i] = "importing" PROVE \E u \in Tasks : Settler(i, u)'
    <3>1. row[i] = "importing"
      BY <1>1, <2>2 DEF Alone, Settling
    <3>2. PICK u \in Tasks : Settler(i, u)
      BY <1>0, <2>1, <3>1 DEF SettlerInv
    <3>3. Settler(i, u)'
      BY <1>1, <2>2, <3>2 DEF Settler, Alone, Settling
    <3> QED
      BY <3>3
  <2>3. ASSUME NEW u \in Tasks, Requeued(i, u)' PROVE row'[i] = "deleted"
    <3>1. CASE i = f /\ u = t
      BY <1>1, <2>3, <3>1 DEF Settling
    <3>2. CASE i # f \/ u # t
      <4>1. row[i] = "deleted"
        BY <1>0, <1>1, <2>1, <2>3, <3>2 DEF SettlerInv, Requeued, Alone
      <4> QED
        BY <1>1, <4>1 DEF Alone, Works
    <3> QED
      BY <3>1, <3>2
  <2> QED
    BY <2>2, <2>3
<1> QED
  BY <1>2, <1>3, <1>4

\* A row that is not there yet has no task.
LEMMA NoRowNoTask ==
  ASSUME TypeOK, TaskInv, NEW f \in Files, row[f] = "none", NEW t \in Tasks
  PROVE  /\ task[f][t] = "none" /\ tries[f][t] = 0 /\ pc[f][t] = "idle"
         /\ retrying[f][t] # "write"
BY DEF TaskInv, TaskOK

LEMMA RequestKeepsInv ==
  ASSUME FilesInv, NEW f \in Files, Request(f)
  PROVE  TaskInv' /\ ReadyInv' /\ SettlerInv'
<1>0. TypeOK /\ TaskInv /\ ReadyInv /\ SettlerInv
  BY DEF FilesInv
<1> DEFINE Same == UNCHANGED <<taskVars, retrying, cut>>
<1>1. ASSUME Same, row' = row,
             \A i \in Files : /\ uploading'[i] => row[i] = "none"
                              /\ removing'[i] # "idle" => row[i] # "none"
      PROVE  TaskInv' /\ SettlerInv'
  BY <1>0, <1>1 DEF TaskInv, TaskOK, SettlerInv, Settler, Requeued, taskVars
<1>2. ASSUME Same, UNCHANGED <<row, key>>,
             \A i \in Files : /\ Kept(i) \subseteq Kept(i)'
                              /\ uploading'[i] => UploadKey \in Kept(i)'
                              /\ removing'[i] = "object" => rkey'[i] \in Keys
      PROVE  ReadyInv'
  BY <1>0, <1>2 DEF ReadyInv, ReadyIsDownloadable, Kept, OwnKey, taskVars
<1>3. CASE UploadObject(f)
  <2>1. /\ Same /\ UNCHANGED <<row, key, erased, removing, rkey>> /\ row[f] = "none"
        /\ uploading' = [uploading EXCEPT ![f] = TRUE]
        /\ objects' = [objects EXCEPT ![f] = @ \cup {UploadKey}]
    BY <1>3 DEF UploadObject, PutObject, dbVars
  <2>2. \A i \in Files : /\ uploading'[i] => row[i] = "none"
                         /\ Kept(i) \subseteq Kept(i)'
                         /\ uploading'[i] => UploadKey \in Kept(i)'
    BY <1>0, <2>1 DEF TypeOK, ApiTypeOK, BucketTypeOK, TaskInv, ReadyInv, Kept
  <2> QED
    BY <1>0, <1>1, <1>2, <2>1, <2>2 DEF TaskInv, ReadyInv
<1>4. CASE UploadRow(f)
  <2>1. /\ Same /\ UNCHANGED <<objects, erased, removing, rkey>> /\ uploading[f]
        /\ row[f] = "none"
        /\ uploading' = [uploading EXCEPT ![f] = FALSE]
        /\ row' = [row EXCEPT ![f] = "ready"] /\ key' = [key EXCEPT ![f] = UploadKey]
    BY <1>0, <1>4 DEF UploadRow, bucketVars, TaskInv
  <2>2. \A t \in Tasks : task[f][t] = "none" /\ pc[f][t] = "idle" /\ retrying[f][t] # "write"
    BY <1>0, <2>1, NoRowNoTask
  <2>3. TaskInv'
    BY <1>0, <2>1, <2>2 DEF TaskInv, TaskOK, TypeOK, DbTypeOK, ApiTypeOK, taskVars
  <2>4. ReadyInv'
    BY <1>0, <2>1 DEF ReadyInv, ReadyIsDownloadable, Kept, OwnKey, TypeOK, DbTypeOK, ApiTypeOK,
                      taskVars
  <2>5. SettlerInv'
    BY <1>0, <2>1, <2>2 DEF SettlerInv, Settler, Requeued, TypeOK, DbTypeOK, taskVars
  <2> QED
    BY <2>3, <2>4, <2>5
<1>5. CASE QueueImport(f)
  <2>1. /\ UNCHANGED <<key, objects, erased, tries, pc, seen, apiVars, cut>>
        /\ row[f] = "none" /\ ~uploading[f]
        /\ row' = [row EXCEPT ![f] = "importing"]
        /\ task' = [task EXCEPT ![f][0] = "unqueued"]
    BY <1>5 DEF QueueImport, bucketVars
  <2>2. \A t \in Tasks : /\ task[f][t] = "none" /\ tries[f][t] = 0 /\ pc[f][t] = "idle"
                         /\ retrying[f][t] # "write"
    BY <1>0, <2>1, NoRowNoTask
  <2>3. \A i \in Files, u \in Tasks :
          task'[i][u] = IF i = f /\ u = 0 THEN "unqueued" ELSE task[i][u]
    <3>1. "unqueued" \in TaskStates /\ 0 \in Tasks
      BY KeyFacts DEF TaskStates
    <3>2. TaskTypeOK
      BY <1>0 DEF TypeOK
    <3>3. task' = [task EXCEPT ![f][0] = "unqueued"]
      BY <2>1
    <3> QED
      BY <3>1, <3>2, <3>3, TaskBecomes, ZenonT(40)
  <2>4. \A i \in Files : row'[i] = IF i = f THEN "importing" ELSE row[i]
    BY <1>0, <2>1 DEF TypeOK, DbTypeOK
  <2>5. TaskInv'
    BY <1>0, <2>1, <2>2, <2>3, <2>4 DEF TaskInv, TaskOK, apiVars
  <2>6. ReadyInv'
    BY <1>0, <2>1, <2>4 DEF ReadyInv, ReadyIsDownloadable, Kept, OwnKey, apiVars
  <2>7. Settler(f, 0)'
    BY <2>1, <2>2, <2>3, KeyFacts DEF Settler
  <2>8. SettlerInv'
    BY <1>0, <2>1, <2>2, <2>3, <2>4, <2>7, KeyFacts DEF SettlerInv, Settler, Requeued
  <2> QED
    BY <2>5, <2>6, <2>8
<1>6. CASE RemoveRead(f)
  <2>1. /\ Same /\ UNCHANGED <<row, key, objects, erased, uploading>> /\ Exists(f)
        /\ removing' = [removing EXCEPT ![f] = IF key[f] = NoKey THEN "row" ELSE "object"]
        /\ rkey' = [rkey EXCEPT ![f] = key[f]]
    BY <1>6 DEF RemoveRead, dbVars, bucketVars
  <2>2. \A i \in Files : /\ removing'[i] # "idle" => row[i] # "none"
                         /\ removing'[i] = "object" => rkey'[i] \in Keys
    BY <1>0, <2>1 DEF TypeOK, DbTypeOK, ApiTypeOK, Exists, TaskInv, ReadyInv
  <2>3. \A i \in Files : Kept(i)' = Kept(i)
    BY <2>1 DEF Kept
  <2> QED
    BY <1>0, <1>1, <1>2, <2>1, <2>2, <2>3 DEF TaskInv, ReadyInv
<1>7. CASE RemoveObject(f)
  <2>1. /\ Same /\ UNCHANGED <<row, key, uploading>> /\ removing[f] = "object"
        /\ \/ /\ objects' = [objects EXCEPT ![f] = @ \ {rkey[f]}]
              /\ erased' = [erased EXCEPT ![f] = @ \cup {rkey[f]}]
              /\ removing' = [removing EXCEPT ![f] = "row"] /\ rkey' = rkey
           \/ /\ removing' = [removing EXCEPT ![f] = "idle"]
              /\ rkey' = [rkey EXCEPT ![f] = NoKey]
              /\ UNCHANGED <<objects, erased>>
    BY <1>7 DEF RemoveObject, DropObject, dbVars, bucketVars
  <2>2. \A i \in Files : /\ removing'[i] # "idle" => row[i] # "none"
                         /\ removing'[i] = "object" => rkey'[i] \in Keys
    BY <1>0, <2>1 DEF TypeOK, ApiTypeOK, TaskInv, ReadyInv
  <2>3. \A i \in Files : Kept(i) \subseteq Kept(i)'
    BY <1>0, <2>1 DEF Kept, TypeOK, BucketTypeOK
  <2> QED
    BY <1>0, <1>1, <1>2, <2>1, <2>2, <2>3 DEF TaskInv, ReadyInv
<1>8. CASE RemoveRow(f)
  <2>1. /\ Same /\ UNCHANGED <<objects, erased, uploading>> /\ removing[f] = "row"
        /\ row' = [row EXCEPT ![f] = "deleted"] /\ key' = [key EXCEPT ![f] = NoKey]
        /\ removing' = [removing EXCEPT ![f] = "idle"]
        /\ rkey' = [rkey EXCEPT ![f] = NoKey]
    BY <1>8 DEF RemoveRow, bucketVars
  <2>2. row[f] # "none"
    BY <1>0, <2>1 DEF TaskInv
  <2>3. TaskInv'
    BY <1>0, <2>1, <2>2 DEF TaskInv, TaskOK, TypeOK, DbTypeOK, ApiTypeOK, taskVars
  <2>4. ReadyInv'
    BY <1>0, <2>1 DEF ReadyInv, ReadyIsDownloadable, Kept, OwnKey, TypeOK, DbTypeOK, ApiTypeOK,
                      taskVars
  <2>5. SettlerInv'
    BY <1>0, <2>1 DEF SettlerInv, Settler, Requeued, TypeOK, DbTypeOK, taskVars
  <2> QED
    BY <2>3, <2>4, <2>5
<1> QED
  BY <1>3, <1>4, <1>5, <1>6, <1>7, <1>8 DEF Request

LEMMA RetryKeepsInv ==
  ASSUME FilesInv, NEW f \in Files, NEW t \in Tasks,
         RetryRead(f, t) \/ RetryWrite(f, t) \/ Enqueue(f, t)
  PROVE  TaskInv' /\ ReadyInv' /\ SettlerInv'
<1>0. TypeOK /\ TaskInv /\ ReadyInv /\ SettlerInv /\ TaskTypeOK
  BY DEF FilesInv, TypeOK
<1>1. CASE RetryRead(f, t)
  <2>1. /\ UNCHANGED <<row, key, objects, erased, taskVars, uploading, removing, rkey, cut>>
        /\ t # 0 /\ row[f] = "failed" /\ retrying[f][t] = "none"
        /\ retrying' = [retrying EXCEPT ![f][t] = "write"]
    BY <1>1 DEF RetryRead, dbVars, bucketVars
  <2>2. \A i \in Files, u \in Tasks :
          retrying'[i][u] = IF i = f /\ u = t THEN "write" ELSE retrying[i][u]
    BY <1>0, <2>1, Update DEF TypeOK, ApiTypeOK
  <2>3. TaskInv'
    BY <1>0, <2>1, <2>2 DEF TaskInv, TaskOK, taskVars
  <2>4. ReadyInv' /\ SettlerInv'
    BY <1>0, <2>1 DEF ReadyInv, ReadyIsDownloadable, Kept, OwnKey, SettlerInv, Settler, Requeued,
                      taskVars
  <2> QED
    BY <2>3, <2>4
<1>2. CASE RetryWrite(f, t)
  <2>1. /\ UNCHANGED <<key, objects, erased, tries, pc, seen, uploading, removing, rkey, cut>>
        /\ retrying[f][t] = "write" /\ retrying' = [retrying EXCEPT ![f][t] = "over"]
        /\ IF Exists(f) THEN /\ row' = [row EXCEPT ![f] = "importing"]
                             /\ task' = [task EXCEPT ![f][t] = "unqueued"]
                        ELSE UNCHANGED <<row, task>>
    BY <1>2 DEF RetryWrite, bucketVars
  <2>2. /\ t # 0 /\ task[f][t] = "none" /\ tries[f][t] = 0 /\ pc[f][t] = "idle"
        /\ row[f] # "none"
    BY <1>0, <2>1 DEF TaskInv, TaskOK
  <2>3. \A i \in Files, u \in Tasks :
          retrying'[i][u] = IF i = f /\ u = t THEN "over" ELSE retrying[i][u]
    BY <1>0, <2>1, Update DEF TypeOK, ApiTypeOK
  <2>4. CASE ~Exists(f)
    <3>1. TaskInv'
      BY <1>0, <2>1, <2>3, <2>4 DEF TaskInv, TaskOK
    <3>2. ReadyInv' /\ SettlerInv'
      BY <1>0, <2>1, <2>4 DEF ReadyInv, ReadyIsDownloadable, Kept, OwnKey, SettlerInv, Settler,
                              Requeued
    <3> QED
      BY <3>1, <3>2
  <2>5. CASE Exists(f)
    <3>0. "unqueued" \in TaskStates /\ task' = [task EXCEPT ![f][t] = "unqueued"]
      BY <2>1, <2>5 DEF TaskStates
    <3>1. \A i \in Files, u \in Tasks :
            task'[i][u] = IF i = f /\ u = t THEN "unqueued" ELSE task[i][u]
      BY <1>0, <3>0, TaskBecomes
    <3>2. \A i \in Files : row'[i] = IF i = f THEN "importing" ELSE row[i]
      BY <1>0, <2>1, <2>5 DEF TypeOK, DbTypeOK
    <3>3. row[f] # "deleted"
      BY <2>5 DEF Exists
    <3>4. TaskInv'
      BY <1>0, <2>1, <2>2, <2>3, <3>1, <3>2, <3>3 DEF TaskInv, TaskOK
    <3>5. ReadyInv'
      BY <1>0, <2>1, <3>2 DEF ReadyInv, ReadyIsDownloadable, Kept, OwnKey
    <3>6. Settler(f, t)'
      BY <2>1, <2>2, <3>1 DEF Settler
    <3>7. SettlerInv'
      BY <1>0, <2>1, <2>2, <3>1, <3>2, <3>3, <3>6 DEF SettlerInv, Settler, Requeued
    <3> QED
      BY <3>4, <3>5, <3>7
  <2> QED
    BY <2>4, <2>5
<1>3. CASE Enqueue(f, t)
  <2>1. /\ UNCHANGED <<row, key, objects, erased, tries, pc, seen, apiVars>>
        /\ task[f][t] = "unqueued"
    BY <1>3 DEF Enqueue, dbVars, bucketVars
  <2>2. tries[f][t] = 0 /\ row[f] # "none" /\ pc[f][t] = "idle" /\ retrying[f][t] # "write"
    BY <1>0, <2>1 DEF TaskInv, TaskOK
  <2>3. PICK s \in {"ready", "lost"} :
          /\ task' = [task EXCEPT ![f][t] = s]
          /\ cut' = IF s = "lost" THEN [cut EXCEPT ![f] = TRUE] ELSE cut
    BY <1>3 DEF Enqueue
  <2>4. s \in TaskStates
    BY DEF TaskStates
  <2>5. \A i \in Files, u \in Tasks :
          task'[i][u] = IF i = f /\ u = t THEN s ELSE task[i][u]
    BY <1>0, <2>3, <2>4, TaskBecomes
  <2>6. TaskInv'
    BY <1>0, <2>1, <2>2, <2>5 DEF TaskInv, TaskOK, apiVars
  <2>7. ReadyInv'
    BY <1>0, <2>1 DEF ReadyInv, ReadyIsDownloadable, Kept, OwnKey, apiVars
  <2>8. SettlerInv'
    BY <1>0, <2>1, <2>2, <2>3, <2>5 DEF SettlerInv, Settler, Requeued, TypeOK
  <2> QED
    BY <2>6, <2>7, <2>8
<1> QED
  BY <1>1, <1>2, <1>3

LEMMA CrashKeepsInv ==
  ASSUME FilesInv, ApiCrash
  PROVE  TaskInv' /\ ReadyInv' /\ SettlerInv'
<1>0. TypeOK /\ TaskInv /\ ReadyInv /\ SettlerInv
  BY DEF FilesInv
<1>1. /\ UNCHANGED <<row, key, objects, erased, tries, pc, seen>>
      /\ \A i \in Files : /\ ~uploading'[i] /\ removing'[i] = "idle"
                          /\ ~cut'[i] => ~cut[i] /\ \A u \in Tasks : task'[i][u] = task[i][u]
      /\ \A i \in Files, u \in Tasks :
           /\ task'[i][u] = IF task[i][u] = "unqueued" THEN "lost" ELSE task[i][u]
           /\ retrying'[i][u] = IF retrying[i][u] = "write" THEN "over" ELSE retrying[i][u]
  BY DEF ApiCrash, dbVars, bucketVars
<1>2. TaskInv'
  BY <1>0, <1>1 DEF TaskInv, TaskOK
<1>3. ReadyInv'
  BY <1>0, <1>1 DEF ReadyInv, ReadyIsDownloadable, Kept, OwnKey
<1>4. SettlerInv'
  BY <1>0, <1>1 DEF SettlerInv, Settler, Requeued
<1> QED
  BY <1>2, <1>3, <1>4

LEMMA FilesInvPreserved == FilesInv /\ [Next]_vars => FilesInv'
<1> SUFFICES ASSUME FilesInv, [Next]_vars PROVE TaskInv' /\ ReadyInv' /\ SettlerInv'
  BY TypePreserved DEF FilesInv
<1>1. CASE UNCHANGED vars
  BY <1>1 DEF FilesInv, TaskInv, TaskOK, ReadyInv, ReadyIsDownloadable, Kept, OwnKey, SettlerInv,
              Settler, Requeued, vars, dbVars, bucketVars, taskVars, apiVars
<1>2. ASSUME NEW f \in Files, NEW t \in Tasks, Import(f, t) \/ AttemptEnds(f, t)
      PROVE  TaskInv' /\ ReadyInv' /\ SettlerInv'
  BY <1>2, EveryImportStep, ImportKeepsInv
<1> QED
  BY <1>1, <1>2, RequestKeepsInv, RetryKeepsInv, CrashKeepsInv DEF Next

LEMMA FilesInvHolds == Spec => []FilesInv
BY FilesInit, FilesInvPreserved, PTL DEF Spec

---------------------------------------------------------------------------
(* Theorems.                                                               *)

\* Type correctness of the datasets, whatever uploads, imports, retries and
\* removals do to each other.
THEOREM FilesTypeCorrect == Spec => []TypeOK
<1>1. FilesInv => TypeOK
  BY DEF FilesInv
<1> QED
  BY <1>1, FilesInvHolds, PTL

\* A dataset listed as ready has its object (dataset_import.py:150-152 is the one
\* place that deletes an object unasked, and only when the row is gone).
THEOREM ReadyHasObject == Spec => []ReadyIsDownloadable
<1>1. FilesInv => ReadyIsDownloadable
  BY DEF FilesInv, ReadyInv
<1> QED
  BY <1>1, FilesInvHolds, PTL

\* A dataset that is importing has a task under way, however many retries were
\* asked for, unless one of its tasks was lost or cut short.
THEOREM ImportsAreServed == Spec => []ImportingHasTask
<1>1. FilesInv => ImportingHasTask
  BY DEF FilesInv, SettlerInv, Settler, ImportingHasTask
<1> QED
  BY <1>1, FilesInvHolds, PTL

---------------------------------------------------------------------------
(* The pages that list datasets and notebooks.  The argument is about      *)
(* debts.  While a list is asked for, or a change the page will follow up  *)
(* with one is served and not yet answered (Pending), the page may show    *)
(* anything.  Otherwise it shows the truth of every item (Good), but for   *)
(* items whose deletion is under way (Core).  What carries it over the     *)
(* arrival of a list is that a list which is not the latest word on an     *)
(* item is older than a change whose answer is still to come (Latest);     *)
(* that answer, when it comes first, makes the page know better, and the   *)
(* list then muddles it.                                                   *)

Lists == [Items -> Statuses \cup {"none"}]
Questions == [kind : Kinds, about : Items \cup Refs \cup {None}, served : BOOLEAN, ok : BOOLEAN,
              version : Nat, rows : Lists, stale : BOOLEAN]

\* Of the types, what is about single variables.
Shape ==
    /\ rows \in [Items -> Statuses \cup {"none", "deleted"}]
    /\ route \in {"datasets", "dashboard", "left"}
    /\ shown \in Lists
    /\ confirming \in [item : Items \cup {None}, rows : Lists]
    /\ expanded \in [ref : Refs \cup {None}, files : BOOLEAN]
    /\ creating \in BOOLEAN /\ searching \in BOOLEAN /\ importing \in BOOLEAN
    /\ loadingFiles \in BOOLEAN /\ dialog \in BOOLEAN /\ results \in BOOLEAN
    /\ version \in Nat /\ known \in Nat /\ known <= version
    /\ muddled \in BOOLEAN /\ acts \in 0..MaxActs /\ fails \in 0..MaxFails

Sized == IsFiniteSet(asked) /\ Cardinality(asked) <= MaxAsked

Buttons ==
    /\ creating => Out("create") # {}
    /\ searching <=> Out("search") # {}
    /\ importing <=> Out("import") # {}
    /\ loadingFiles => Out("describe") # {}

\* What a question under way is, and what it may be on each page.
Fit(q) ==
    /\ q \in Questions
    /\ q.version <= version
    /\ q.kind \in {"retry", "delete"} => q.about \in Items
    /\ q.kind = "describe" => q.about \in Refs
    /\ q.kind = "create" => route = "dashboard"
    /\ q.kind = "delete" => q.rows[q.about] # "none" /\ (q.served => rows[q.about] = "deleted")
    /\ route # "datasets" => /\ q.kind \in {"list", "delete", "create"}
                             /\ \A f \in Items : q.rows[f] # "importing"

Fitting == \A q \in asked : Fit(q)

\* Buttons that are disabled meanwhile ask once at a time.
Single == \A p, q \in asked : p.kind = q.kind /\ p.kind \in {"search", "import"} => p = q

\* The delete dialog asks about something that was shown; nothing is imported
\* on the dashboard.
Dialogs ==
    /\ confirming.item # None => confirming.rows[confirming.item] # "none"
    /\ route # "datasets" =>
         /\ ~dialog /\ ~searching /\ ~importing /\ ~loadingFiles
         /\ \A f \in Items : "importing" \notin {rows[f], shown[f], confirming.rows[f]}

\* What the page follows up with a question for the list.
Followed == Writes \ {"delete"}
Debt(q) == q.kind = "list" \/ (q.kind \in Followed /\ q.served)
Pending == \E q \in asked : Debt(q)

\* The truth about an item; the end of an import is seen by the interval.
Good(f, s) == s = Listing[f] \/ (s = "importing" /\ Listing[f] \in {"ready", "failed"})

Deletes(f) == {w \in Out("delete") : w.about = f}

\* What may explain that a list says something else of an item than the row.
Tells(w, f) == w.served /\ (w.kind \in Followed \/ (w.kind = "delete" /\ w.about = f))

Latest ==
    \A q \in Out("list") : q.served /\ q.ok /\ q.version >= known =>
        \A f \in Items : \/ Good(f, q.rows[f])
                         \/ \E w \in asked : Tells(w, f) /\ w.version > q.version

Settled(f) ==
    /\ Good(f, shown[f]) \/ (shown[f] = "none" /\ Deletes(f) # {})
    /\ \A w \in Deletes(f) :
         /\ shown[f] = "none"
         /\ ~w.stale /\ Present(f) => Good(f, w.rows[f])
         /\ Present(f) => \A v \in Deletes(f) : v = w
    /\ confirming.item = f /\ Present(f) => Deletes(f) = {}

Core == ~muddled /\ route # "left" /\ ~Pending => \A f \in Items : Settled(f)

ListsInv ==
    /\ Shape /\ Sized /\ Buttons /\ Fitting /\ Single /\ Dialogs
    /\ Latest /\ Core

---------------------------------------------------------------------------
(* Requests.                                                               *)

LEMMA NothingIsList == Nothing \in Lists /\ \A f \in Items : Nothing[f] = "none"
BY DEF Nothing, Lists

LEMMA ListingIsList ==
  ASSUME Shape
  PROVE  /\ Listing \in Lists
         /\ \A f \in Items : /\ Present(f) => Listing[f] = rows[f]
                             /\ ~Present(f) => Listing[f] = "none"
                             /\ Present(f) <=> Listing[f] # "none"
BY DEF Shape, Listing, Lists, Present, Statuses

LEMMA AskIs ==
  ASSUME NEW kind \in Kinds, NEW about \in Items \cup Refs \cup {None}
  PROVE  /\ Ask(kind, about) \in Questions
         /\ Ask(kind, about).kind = kind /\ Ask(kind, about).about = about
         /\ Ask(kind, about).served = FALSE /\ Ask(kind, about).ok = TRUE
         /\ Ask(kind, about).version = 0 /\ Ask(kind, about).rows = Nothing
BY NothingIsList DEF Ask, Questions

\* A question that is asked anew.
LEMMA AskFits ==
  ASSUME Shape, NEW kind \in Kinds, NEW about \in Items \cup Refs \cup {None},
         kind # "delete", kind = "retry" => about \in Items, kind = "describe" => about \in Refs,
         kind = "create" => route = "dashboard",
         route # "datasets" => kind \in {"list", "create"}
  PROVE  Fit(Ask(kind, about))
<1> DEFINE q == Ask(kind, about)
<1>1. /\ q \in Questions /\ q.kind = kind /\ q.about = about /\ q.version = 0
      /\ q.rows = Nothing
  BY AskIs
<1>2. version \in Nat /\ 0 <= version
  BY DEF Shape
<1> HIDE DEF q
<1>3. \A f \in Items : q.rows[f] # "importing"
  BY <1>1, NothingIsList
<1>4. Fit(q)
  BY <1>1, <1>2, <1>3 DEF Fit
<1> QED
  BY <1>4 DEF q

LEMMA FitStays ==
  ASSUME NEW q, Fit(q), version \in Nat, version' \in Nat, version <= version', route' = route,
         \A f \in Items : rows[f] = "deleted" => rows'[f] = "deleted"
  PROVE  Fit(q)'
BY DEF Fit, Questions

LEMMA GrowSized ==
  ASSUME Sized, NEW q, Sends(q)
  PROVE  Sized'
<1>1. IsFiniteSet(asked) /\ Cardinality(asked) \in Nat /\ Cardinality(asked) < MaxAsked
  BY FS_CardinalityType DEF Sized, Sends
<1>2. /\ IsFiniteSet(asked \cup {q})
      /\ Cardinality(asked \cup {q}) = Cardinality(asked) \/ Cardinality(asked \cup {q}) = Cardinality(asked) + 1
  BY <1>1, FS_AddElement
<1> QED
  BY <1>1, <1>2, ListsAssumption DEF Sized, Sends

LEMMA DropSized ==
  ASSUME Sized, NEW q \in asked
  PROVE  /\ IsFiniteSet(asked \ {q}) /\ Cardinality(asked \ {q}) = Cardinality(asked) - 1
         /\ Cardinality(asked \ {q}) \in Nat /\ Cardinality(asked) - 1 < MaxAsked
<1>1. IsFiniteSet(asked) /\ Cardinality(asked) \in Nat
  BY FS_CardinalityType DEF Sized
<1>2. IsFiniteSet(asked \ {q}) /\ Cardinality(asked \ {q}) = Cardinality(asked) - 1
  BY <1>1, FS_RemoveElement
<1>3. Cardinality(asked \ {q}) \in Nat
  BY <1>2, FS_CardinalityType
<1> QED
  BY <1>1, <1>2, <1>3, ListsAssumption DEF Sized

LEMMA SwapSized ==
  ASSUME Sized, NEW q \in asked, NEW r, asked' = (asked \ {q}) \cup {r}
  PROVE  Sized'
<1> DEFINE rest == asked \ {q}
<1>1. IsFiniteSet(rest) /\ Cardinality(rest) \in Nat /\ Cardinality(rest) < MaxAsked
  BY DropSized
<1> HIDE DEF rest
<1>2. /\ IsFiniteSet(rest \cup {r})
      /\ Cardinality(rest \cup {r}) = Cardinality(rest) \/ Cardinality(rest \cup {r}) = Cardinality(rest) + 1
  BY <1>1, FS_AddElement
<1>3. Sized'
  BY <1>1, <1>2, ListsAssumption DEF Sized, rest
<1> QED
  BY <1>3

LEMMA LessSized ==
  ASSUME Sized, NEW q \in asked, asked' = asked \ {q}
  PROVE  Sized'
<1>1. /\ IsFiniteSet(asked \ {q}) /\ Cardinality(asked \ {q}) \in Nat
      /\ Cardinality(asked \ {q}) = Cardinality(asked) - 1 /\ Cardinality(asked) \in Nat
  BY DropSized, FS_CardinalityType DEF Sized
<1> QED
  BY <1>1, ListsAssumption DEF Sized

---------------------------------------------------------------------------
(* What leaves the debts as they are.                                      *)

\* A page that is muddled, left, or about to be told, may show anything.
LEMMA CoreMoot ==
  ASSUME muddled' \/ route' = "left" \/ \E q \in asked' : Debt(q)
  PROVE  Core'
BY DEF Core, Pending

LEMMA CoreFrame ==
  ASSUME Core, UNCHANGED <<rows, shown, muddled, route>>,
         \A q \in asked : Debt(q) => \E r \in asked' : Debt(r),
         Out("delete")' = Out("delete"),
         \A f \in Items : confirming'.item = f => confirming.item = f
  PROVE  Core'
<1>1. Pending => Pending'
  BY DEF Pending
<1>2. \A f \in Items : /\ Deletes(f)' = Deletes(f) /\ (Present(f)' <=> Present(f))
                       /\ Listing'[f] = Listing[f]
  BY DEF Deletes, Present, Listing
<1>3. ASSUME NEW f \in Items, Settled(f) PROVE Settled(f)'
  BY <1>2, <1>3 DEF Settled, Good
<1> QED
  BY <1>1, <1>3 DEF Core

LEMMA LatestFrame ==
  ASSUME Latest, rows' = rows, known \in Nat, known' \in Nat, known <= known',
         \A q \in asked' : q.kind = "list" /\ q.served => q \in asked,
         \A q \in asked : q.version \in Nat,
         \A w \in asked : w \in asked' \/ ~w.served \/ w.version <= known'
  PROVE  Latest'
<1> SUFFICES ASSUME NEW q \in asked', q.kind = "list", q.served, q.ok, q.version >= known',
                    NEW f \in Items
             PROVE  Good(f, q.rows[f])' \/ \E w \in asked' : Tells(w, f) /\ w.version > q.version
  BY DEF Latest, Out, Tells
<1>1. q \in Out("list") /\ q.version \in Nat /\ q.version >= known
  BY DEF Out
<1>2. Listing' = Listing
  BY DEF Listing, Present
<1>3. Good(f, q.rows[f]) \/ \E w \in asked : Tells(w, f) /\ w.version > q.version
  BY <1>1 DEF Latest
<1>4. ASSUME NEW w \in asked, Tells(w, f), w.version > q.version PROVE w \in asked'
  BY <1>1, <1>4 DEF Tells
<1> QED
  BY <1>2, <1>3, <1>4 DEF Good

---------------------------------------------------------------------------
(* What is asked, what is shown disabled, and what is asked once.          *)

LEMMA OutGrows ==
  ASSUME NEW r, asked' = asked \cup {r}
  PROVE  \A k : Out(k)' = IF r.kind = k THEN Out(k) \cup {r} ELSE Out(k)
BY DEF Out

LEMMA OutShrinks ==
  ASSUME NEW q \in asked, NEW more, \A r \in more : r.kind = "list",
         asked' = (asked \ {q}) \cup more
  PROVE  \A k : k # "list" => Out(k)' = Out(k) \ {q}
BY DEF Out

LEMMA ButtonsGrow ==
  ASSUME Buttons, Single, NEW r, asked' = asked \cup {r},
         creating' => creating \/ r.kind = "create",
         searching' <=> searching \/ r.kind = "search",
         importing' <=> importing \/ r.kind = "import",
         loadingFiles' => loadingFiles \/ r.kind = "describe",
         r.kind = "search" => ~searching, r.kind = "import" => ~importing
  PROVE  Buttons' /\ Single'
<1>1. /\ Out("create")' = IF r.kind = "create" THEN Out("create") \cup {r} ELSE Out("create")
      /\ Out("search")' = IF r.kind = "search" THEN Out("search") \cup {r} ELSE Out("search")
      /\ Out("import")' = IF r.kind = "import" THEN Out("import") \cup {r} ELSE Out("import")
      /\ Out("describe")' = IF r.kind = "describe" THEN Out("describe") \cup {r} ELSE Out("describe")
  BY OutGrows
<1>2. Buttons'
  BY <1>1 DEF Buttons
<1>3. Single'
  <2> SUFFICES ASSUME NEW x \in asked', NEW y \in asked', x.kind = y.kind,
                      x.kind \in {"search", "import"}
               PROVE  x = y
    BY DEF Single
  <2>1. CASE x \in asked /\ y \in asked
    BY <2>1 DEF Single
  <2>2. CASE x = r /\ y \in asked
    BY <2>2 DEF Buttons, Out
  <2>3. CASE y = r /\ x \in asked
    BY <2>3 DEF Buttons, Out
  <2> QED
    BY <2>1, <2>2, <2>3
<1> QED
  BY <1>2, <1>3

LEMMA ButtonsShrink ==
  ASSUME Buttons, Single, NEW q \in asked, NEW more, \A r \in more : r.kind = "list",
         asked' = (asked \ {q}) \cup more,
         creating' => creating /\ q.kind # "create",
         searching' <=> searching /\ q.kind # "search",
         importing' <=> importing /\ q.kind # "import",
         loadingFiles' => loadingFiles /\ q.kind # "describe"
  PROVE  Buttons' /\ Single'
<1>1. /\ Out("create")' = Out("create") \ {q} /\ Out("search")' = Out("search") \ {q}
      /\ Out("import")' = Out("import") \ {q} /\ Out("describe")' = Out("describe") \ {q}
  BY OutShrinks
<1>2. /\ q.kind # "create" => q \notin Out("create")
      /\ q.kind # "search" => q \notin Out("search")
      /\ q.kind # "import" => q \notin Out("import")
      /\ q.kind # "describe" => q \notin Out("describe")
      /\ q.kind = "search" => Out("search") = {q}
      /\ q.kind = "import" => Out("import") = {q}
  BY DEF Out, Single
<1>3. Buttons'
  BY <1>1, <1>2 DEF Buttons
<1>4. Single'
  BY DEF Single
<1> QED
  BY <1>3, <1>4

LEMMA ButtonsSwap ==
  ASSUME Buttons, Single, NEW q \in asked, NEW r, r.kind = q.kind,
         asked' = (asked \ {q}) \cup {r},
         UNCHANGED <<creating, searching, importing, loadingFiles>>
  PROVE  Buttons' /\ Single'
<1>1. \A k : Out(k) # {} <=> Out(k)' # {}
  BY DEF Out
<1>2. Buttons'
  BY <1>1 DEF Buttons
<1>3. Single'
  <2> SUFFICES ASSUME NEW x \in asked', NEW y \in asked', x.kind = y.kind,
                      x.kind \in {"search", "import"}
               PROVE  x = y
    BY DEF Single
  <2>1. CASE x \in asked \ {q} /\ y \in asked \ {q}
    BY <2>1 DEF Single
  <2>2. CASE x = r /\ y \in asked \ {q}
    BY <2>2 DEF Single
  <2>3. CASE y = r /\ x \in asked \ {q}
    BY <2>3 DEF Single
  <2> QED
    BY <2>1, <2>2, <2>3
<1> QED
  BY <1>2, <1>3

---------------------------------------------------------------------------
(* Clicks, and the interval.                                               *)

\* A click changes no row and serves nothing; it may ask one thing.
LEMMA ClickKeeps ==
  ASSUME ListsInv, UNCHANGED <<rows, version, route, known, muddled>>,
         asked' = asked \/ \E r : Fit(r) /\ ~r.served /\ Sends(r)
  PROVE  Sized' /\ Fitting' /\ Latest'
<1>1. version \in Nat /\ version' \in Nat /\ version <= version' /\ known \in Nat /\ known' \in Nat
      /\ known <= known'
  BY DEF ListsInv, Shape
<1>2. \A q \in asked : Fit(q) /\ q.version \in Nat
  BY DEF ListsInv, Fitting, Fit, Questions
<1>3. \A q \in asked' : q \in asked \/ (Fit(q) /\ ~q.served)
  BY DEF Sends
<1>4. \A q \in asked : q \in asked'
  BY DEF Sends
<1>5. Sized'
  <2>1. CASE asked' = asked
    BY <2>1 DEF Sized, ListsInv
  <2>2. CASE \E r : Fit(r) /\ ~r.served /\ Sends(r)
    BY <2>2, GrowSized DEF ListsInv
  <2> QED
    BY <2>1, <2>2
<1>6. Fitting'
  <2> SUFFICES ASSUME NEW q \in asked' PROVE Fit(q)'
    BY DEF Fitting
  <2>1. Fit(q)
    BY <1>2, <1>3
  <2> QED
    BY <2>1, <1>1, FitStays
<1>7. Latest'
  BY <1>1, <1>2, <1>3, <1>4, LatestFrame DEF ListsInv
<1> QED
  BY <1>5, <1>6, <1>7

\* A click that deletes nothing and opens no delete dialog leaves what is shown settled.
LEMMA ClickSettles ==
  ASSUME ListsInv, UNCHANGED <<rows, version, route, known, muddled, shown>>,
         asked' = asked \/ \E r : Fit(r) /\ ~r.served /\ r.kind # "delete" /\ Sends(r),
         \A f \in Items : confirming'.item = f => confirming.item = f
  PROVE  Sized' /\ Fitting' /\ Latest' /\ Core'
<1>1. Sized' /\ Fitting' /\ Latest'
  BY ClickKeeps
<1>2. Out("delete")' = Out("delete")
  BY DEF Sends, Out
<1>3. \A q \in asked : Debt(q) => \E r \in asked' : Debt(r)
  BY DEF Sends
<1>4. Core'
  BY <1>2, <1>3, CoreFrame DEF ListsInv
<1> QED
  BY <1>1, <1>4

\* The same with a question, its kind and what it is about given.
LEMMA AskingKeeps ==
  ASSUME ListsInv, UNCHANGED <<rows, version, route, known, muddled, shown, confirming>>,
         NEW kind \in Kinds, NEW about \in Items \cup Refs \cup {None},
         kind # "delete", kind = "retry" => about \in Items, kind = "describe" => about \in Refs,
         kind = "create" => route = "dashboard",
         route # "datasets" => kind \in {"list", "create"},
         Sends(Ask(kind, about)),
         creating' <=> creating \/ kind = "create",
         searching' <=> searching \/ kind = "search",
         importing' <=> importing \/ kind = "import",
         loadingFiles' <=> loadingFiles \/ kind = "describe",
         kind = "search" => ~searching, kind = "import" => ~importing
  PROVE  Sized' /\ Fitting' /\ Latest' /\ Core' /\ Buttons' /\ Single'
<1> DEFINE r == Ask(kind, about)
<1>1. Fit(r) /\ r.kind = kind /\ ~r.served /\ Sends(r) /\ asked' = asked \cup {r}
  BY AskFits, AskIs DEF ListsInv, Sends
<1> HIDE DEF r
<1>2. Sized' /\ Fitting' /\ Latest' /\ Core'
  BY <1>1, ClickSettles
<1>3. Buttons /\ Single
  BY DEF ListsInv
<1>4. Buttons' /\ Single'
  BY <1>1, <1>3, ButtonsGrow
<1> QED
  BY <1>2, <1>4

LEMMA ActsStays ==
  ASSUME Shape, Acts
  PROVE  acts' \in 0..MaxActs /\ UNCHANGED <<known, muddled, fails>>
BY ListsAssumption DEF Acts, Shape

LEMMA NoDialogIs == NoDialog \in [item : Items \cup {None}, rows : Lists]
                    /\ NoDialog.item = None /\ NoDialog.rows = Nothing
BY NothingIsList DEF NoDialog

LEMMA TickKeeps ==
  ASSUME ListsInv, Tick
  PROVE  ListsInv'
<1>1. /\ UNCHANGED <<rows, version, route, known, muddled, shown, confirming, creating, acts, fails>>
      /\ UNCHANGED <<dialog, searching, results, expanded, loadingFiles, importing>>
      /\ Sends(List)
  BY DEF Tick, server, page, import, history
<1>2. Sized' /\ Fitting' /\ Latest' /\ Core' /\ Buttons' /\ Single'
  BY <1>1, AskingKeeps DEF List, Kinds
<1>3. Shape' /\ Dialogs'
  BY <1>1 DEF ListsInv, Shape, Dialogs
<1> QED
  BY <1>2, <1>3 DEF ListsInv

LEMMA UploadKeeps ==
  ASSUME ListsInv, UploadOne
  PROVE  ListsInv'
<1>1. /\ UNCHANGED <<rows, version, route, known, muddled, shown, confirming, creating, fails>>
      /\ UNCHANGED <<dialog, searching, results, expanded, loadingFiles, importing>>
      /\ Sends(Ask("upload", None)) /\ route = "datasets" /\ acts' \in 0..MaxActs
  BY ActsStays DEF UploadOne, ListsInv, Acts, server, page, import
<1>2. Sized' /\ Fitting' /\ Latest' /\ Core' /\ Buttons' /\ Single'
  BY <1>1, AskingKeeps DEF Kinds, Writes
<1>3. Shape' /\ Dialogs'
  BY <1>1 DEF ListsInv, Shape, Dialogs
<1> QED
  BY <1>2, <1>3 DEF ListsInv

LEMMA RetryKeeps ==
  ASSUME ListsInv, NEW f \in Items, HandleRetry(f)
  PROVE  ListsInv'
<1>1. /\ UNCHANGED <<rows, version, route, known, muddled, shown, confirming, creating, fails>>
      /\ UNCHANGED <<dialog, searching, results, expanded, loadingFiles, importing>>
      /\ Sends(Ask("retry", f)) /\ route = "datasets" /\ acts' \in 0..MaxActs
  BY ActsStays DEF HandleRetry, ListsInv, Acts, server, page, import
<1>2. Sized' /\ Fitting' /\ Latest' /\ Core' /\ Buttons' /\ Single'
  BY <1>1, AskingKeeps DEF Kinds, Writes
<1>3. Shape' /\ Dialogs'
  BY <1>1 DEF ListsInv, Shape, Dialogs
<1> QED
  BY <1>2, <1>3 DEF ListsInv

LEMMA CreateKeeps ==
  ASSUME ListsInv, HandleCreate
  PROVE  ListsInv'
<1>1. /\ UNCHANGED <<rows, version, route, known, muddled, shown, confirming, fails>>
      /\ UNCHANGED <<dialog, searching, results, expanded, loadingFiles, importing>>
      /\ Sends(Ask("create", None)) /\ route = "dashboard" /\ acts' \in 0..MaxActs
      /\ creating' = TRUE
  BY ActsStays DEF HandleCreate, ListsInv, Acts, server, import
<1>2. Sized' /\ Fitting' /\ Latest' /\ Core' /\ Buttons' /\ Single'
  BY <1>1, AskingKeeps DEF Kinds, Writes
<1>3. Shape' /\ Dialogs'
  BY <1>1 DEF ListsInv, Shape, Dialogs
<1> QED
  BY <1>2, <1>3 DEF ListsInv

LEMMA ToggleKeeps ==
  ASSUME ListsInv, ToggleDialog
  PROVE  ListsInv'
<1>1. /\ UNCHANGED <<rows, version, route, known, muddled, shown, confirming, creating, acts, fails>>
      /\ UNCHANGED <<searching, results, expanded, loadingFiles, importing, asked>>
      /\ dialog' \in BOOLEAN /\ route = "datasets"
  BY DEF ToggleDialog, server, history
<1>2. Sized' /\ Fitting' /\ Latest' /\ Core'
  BY <1>1, ClickSettles
<1>3. Shape' /\ Dialogs' /\ Buttons' /\ Single'
  BY <1>1 DEF ListsInv, Shape, Dialogs, Buttons, Single, Out
<1> QED
  BY <1>2, <1>3 DEF ListsInv

LEMMA SearchKeeps ==
  ASSUME ListsInv, HandleSearch
  PROVE  ListsInv'
<1>1. /\ UNCHANGED <<rows, version, route, known, muddled, shown, confirming, creating, acts, fails>>
      /\ UNCHANGED <<dialog, results, loadingFiles, importing>>
      /\ ~searching /\ searching' = TRUE /\ expanded' = Collapsed
      /\ Sends(Ask("search", None)) /\ route = "datasets"
  BY DEF HandleSearch, server, history, ListsInv, Dialogs
<1>2. Sized' /\ Fitting' /\ Latest' /\ Core' /\ Buttons' /\ Single'
  BY <1>1, AskingKeeps DEF Kinds, Lookups
<1>3. Shape' /\ Dialogs'
  BY <1>1 DEF ListsInv, Shape, Dialogs, Collapsed
<1> QED
  BY <1>2, <1>3 DEF ListsInv

LEMMA ExpandKeeps ==
  ASSUME ListsInv, NEW d \in Refs, HandleExpand(d)
  PROVE  ListsInv'
<1>1. /\ UNCHANGED <<rows, version, route, known, muddled, shown, confirming, creating, acts, fails>>
      /\ UNCHANGED <<dialog, searching, results, importing>>
      /\ route = "datasets"
  BY DEF HandleExpand, server, history, ListsInv, Dialogs
<1>2. expanded' \in [ref : Refs \cup {None}, files : BOOLEAN] /\ loadingFiles' \in BOOLEAN
  <2>1. \/ expanded' = [ref |-> None, files |-> FALSE] /\ loadingFiles' = loadingFiles
        \/ expanded' = [ref |-> d, files |-> TRUE] /\ loadingFiles' = loadingFiles
        \/ expanded' = [ref |-> d, files |-> FALSE] /\ loadingFiles' = TRUE
    BY DEF HandleExpand, Collapsed
  <2>2. loadingFiles \in BOOLEAN
    BY DEF ListsInv, Shape
  <2>3. expanded' \in [ref : Refs \cup {None}, files : BOOLEAN]
    <3> DEFINE E == [ref : Refs \cup {None}, files : BOOLEAN]
    <3>1. [ref |-> None, files |-> FALSE] \in E /\ [ref |-> d, files |-> TRUE] \in E
          /\ [ref |-> d, files |-> FALSE] \in E
      OBVIOUS
    <3> HIDE DEF E
    <3>2. expanded' \in E
      BY <2>1, <3>1, Zenon
    <3> QED
      BY <3>2 DEF E
  <2>4. loadingFiles' \in BOOLEAN
    BY <2>1, <2>2
  <2> QED
    BY <2>3, <2>4
<1>3. Shape' /\ Dialogs'
  BY <1>1, <1>2 DEF ListsInv, Shape, Dialogs
<1>4. CASE UNCHANGED <<loadingFiles, asked>>
  <2>1. Sized' /\ Fitting' /\ Latest' /\ Core'
    BY <1>1, <1>4, ClickSettles
  <2>2. Buttons' /\ Single'
    BY <1>1, <1>4 DEF ListsInv, Buttons, Single, Out
  <2> QED
    BY <1>3, <2>1, <2>2 DEF ListsInv
<1>5. CASE Sends(Ask("describe", d)) /\ loadingFiles' = TRUE
  <2>1. Sized' /\ Fitting' /\ Latest' /\ Core' /\ Buttons' /\ Single'
    BY <1>1, <1>5, AskingKeeps DEF Kinds, Lookups
  <2> QED
    BY <1>3, <2>1 DEF ListsInv
<1> QED
  BY <1>4, <1>5 DEF HandleExpand

LEMMA ImportKeeps ==
  ASSUME ListsInv, HandleImport
  PROVE  ListsInv'
<1>1. /\ UNCHANGED <<rows, version, route, known, muddled, shown, confirming, creating, fails>>
      /\ UNCHANGED <<dialog, searching, results, expanded, loadingFiles>>
      /\ ~importing /\ importing' = TRUE
      /\ Sends(Ask("import", None)) /\ route = "datasets" /\ acts' \in 0..MaxActs
  BY ActsStays DEF HandleImport, Acts, server, ListsInv, Dialogs
<1>2. Sized' /\ Fitting' /\ Latest' /\ Core' /\ Buttons' /\ Single'
  BY <1>1, AskingKeeps DEF Kinds, Writes
<1>3. Shape' /\ Dialogs'
  BY <1>1 DEF ListsInv, Shape, Dialogs
<1> QED
  BY <1>2, <1>3 DEF ListsInv

LEMMA AskDeleteKeeps ==
  ASSUME ListsInv, NEW f \in Items, AskDelete(f)
  PROVE  ListsInv'
<1>1. /\ UNCHANGED <<rows, version, route, known, muddled, shown, creating, acts, fails, asked>>
      /\ UNCHANGED <<dialog, searching, results, expanded, loadingFiles, importing>>
      /\ confirming' = [item |-> f, rows |-> shown] /\ shown[f] # "none"
  BY DEF AskDelete, server, history, import
<1>2. Sized' /\ Fitting' /\ Latest'
  BY <1>1, ClickKeeps
<1>3. Shape' /\ Dialogs'
  BY <1>1 DEF ListsInv, Shape, Dialogs
<1>4. Buttons' /\ Single'
  BY <1>1 DEF ListsInv, Buttons, Single, Out
<1>5. Core'
  <2> SUFFICES ASSUME ~muddled, route # "left", ~Pending, NEW g \in Items PROVE Settled(g)'
    BY <1>1 DEF Core, Pending
  <2>1. Settled(g)
    BY DEF ListsInv, Core
  <2>2. /\ Deletes(g)' = Deletes(g) /\ (Present(g)' <=> Present(g)) /\ Listing'[g] = Listing[g]
    BY <1>1 DEF Deletes, Out, Present, Listing
  <2>3. confirming'.item = g => Deletes(g) = {}
    BY <1>1, <2>1 DEF Settled
  <2> QED
    BY <1>1, <2>1, <2>2, <2>3 DEF Settled, Good
<1> QED
  BY <1>2, <1>3, <1>4, <1>5 DEF ListsInv

\* Confirmed, the row is taken away at once; until the answer it is the deletion
\* that accounts for it.
LEMMA ConfirmKeeps ==
  ASSUME ListsInv, NEW f \in Items, ConfirmDelete(f)
  PROVE  ListsInv'
<1> DEFINE r == Deletion(confirming)
<1>1. /\ UNCHANGED <<rows, version, route, known, muddled, creating, fails>>
      /\ UNCHANGED <<dialog, searching, results, expanded, loadingFiles, importing>>
      /\ confirming.item = f /\ confirming' = NoDialog
  BY DEF ConfirmDelete, Acts, server, history, import
<1>2. \/ UNCHANGED <<shown, asked, acts>>
      \/ /\ acts' \in 0..MaxActs /\ Sends(r)
         /\ shown' = [shown EXCEPT ![f] = "none"]
  BY ActsStays DEF ConfirmDelete, history, ListsInv
<1>3. /\ confirming \in [item : Items \cup {None}, rows : Lists] /\ confirming.rows \in Lists
      /\ confirming.rows[f] # "none" /\ None \notin Items /\ shown \in Lists
  BY <1>1, ListsAssumption DEF ListsInv, Shape, Dialogs
<1>4. /\ r \in Questions /\ r.kind = "delete" /\ r.about = f /\ ~r.served /\ r.version = 0
      /\ r.rows = confirming.rows /\ r.stale = (confirming.rows # shown)
  BY <1>1, <1>3, AskIs DEF Deletion, Ask, Questions, Kinds, Writes
<1> HIDE DEF r
<1>5. Fit(r)
  BY <1>3, <1>4 DEF Fit, ListsInv, Shape, Dialogs
<1>6. Sized' /\ Fitting' /\ Latest'
  BY <1>1, <1>2, <1>4, <1>5, ClickKeeps
<1>7. Shape' /\ Dialogs'
  <2>1. shown' \in Lists /\ (\A g \in Items : shown'[g] = "importing" => shown[g] = "importing")
    BY <1>2, <1>3 DEF Lists
  <2>2. acts' \in 0..MaxActs
    BY <1>2 DEF ListsInv, Shape
  <2>3. Shape'
    BY <1>1, <2>1, <2>2, NoDialogIs DEF ListsInv, Shape
  <2>4. Dialogs'
    BY <1>1, <2>1, NoDialogIs, NothingIsList DEF ListsInv, Dialogs
  <2> QED
    BY <2>3, <2>4
<1>8. CASE UNCHANGED <<shown, asked, acts>>
  <2>1. \A g \in Items : confirming'.item = g => confirming.item = g
    BY <1>1, <1>3, NoDialogIs
  <2>2. Core'
    BY <1>1, <1>8, <2>1, ClickSettles
  <2>3. Buttons' /\ Single'
    BY <1>1, <1>8 DEF ListsInv, Buttons, Single, Out
  <2> QED
    BY <1>6, <1>7, <2>2, <2>3 DEF ListsInv
<1>9. CASE Sends(r) /\ shown' = [shown EXCEPT ![f] = "none"]
  <2>1. asked' = asked \cup {r} /\ Buttons /\ Single
    BY <1>9 DEF Sends, ListsInv
  <2>2. Buttons' /\ Single'
    BY <1>1, <1>4, <2>1, ButtonsGrow
  <2>3. Core'
    <3> SUFFICES ASSUME ~muddled, route # "left", ~Pending, NEW g \in Items PROVE Settled(g)'
      BY <1>1, <2>1 DEF Core, Pending
    <3>1. Settled(g) /\ Settled(f)
      BY DEF ListsInv, Core
    <3>2. (Present(g)' <=> Present(g)) /\ Listing'[g] = Listing[g] /\ confirming'.item # g
      BY <1>1, <1>3, NoDialogIs DEF Present, Listing
    <3>3. CASE g # f
      <4>1. Deletes(g)' = Deletes(g) /\ shown'[g] = shown[g]
        BY <1>3, <1>4, <1>9, <2>1, <3>3 DEF Deletes, Out, Lists
      <4> QED
        BY <3>1, <3>2, <4>1 DEF Settled, Good
    <3>4. CASE g = f
      <4>1. Deletes(f)' = Deletes(f) \cup {r} /\ shown'[f] = "none"
        BY <1>3, <1>4, <1>9, <2>1 DEF Deletes, Out, Lists
      <4>2. ~r.stale => Good(f, r.rows[f])
        BY <1>3, <1>4, <3>1 DEF Settled
      <4>3. Present(f) => Deletes(f) = {}
        BY <1>1, <3>1 DEF Settled
      <4>4. \A w \in Deletes(f)' : ~w.stale /\ Present(f) => Good(f, w.rows[f])
        BY <4>1, <4>2, <4>3
      <4>5. \A w \in Deletes(f)' : Present(f) => \A v \in Deletes(f)' : v = w
        BY <4>1, <4>3
      <4>6. \A w \in Deletes(f)' : ~w.stale /\ Present(f)' => Good(f, w.rows[f])'
        BY <3>2, <3>4, <4>4 DEF Good
      <4>7. \A w \in Deletes(f)' : Present(f)' => \A v \in Deletes(f)' : v = w
        BY <3>2, <3>4, <4>5
      <4> QED
        BY <3>2, <3>4, <4>1, <4>6, <4>7 DEF Settled
    <3> QED
      BY <3>3, <3>4
  <2> QED
    BY <1>6, <1>7, <2>2, <2>3 DEF ListsInv
<1> QED
  BY <1>2, <1>8, <1>9

---------------------------------------------------------------------------
(* The worker and the server.                                              *)

LEMMA ImportEndsKeeps ==
  ASSUME ListsInv, NEW f \in Items, ImportEnds(f)
  PROVE  ListsInv'
<1>1. PICK s \in {"ready", "failed"} : rows' = [rows EXCEPT ![f] = s]
  BY DEF ImportEnds
<1>2. /\ UNCHANGED <<version, asked, route, known, muddled, shown, confirming, creating, acts, fails>>
      /\ UNCHANGED <<dialog, searching, results, expanded, loadingFiles, importing>>
      /\ rows[f] = "importing"
  BY DEF ImportEnds, page, history, import
<1>3. /\ rows \in [Items -> Statuses \cup {"none", "deleted"}]
      /\ rows' \in [Items -> Statuses \cup {"none", "deleted"}]
      /\ rows'[f] = s /\ \A g \in Items : g # f => rows'[g] = rows[g]
  BY <1>1 DEF ListsInv, Shape, Statuses
<1>4. \A g \in Items : Present(g)' <=> Present(g)
  BY <1>2, <1>3 DEF Present, Statuses
<1>5. Listing[f] = "importing" /\ Listing'[f] = s /\ \A g \in Items : g # f => Listing'[g] = Listing[g]
  BY <1>2, <1>3 DEF Listing, Present, Statuses
<1>6. \A g \in Items : \A x : Good(g, x) => Good(g, x)'
  BY <1>5 DEF Good
<1>7. Shape' /\ Dialogs'
  BY <1>2, <1>3 DEF ListsInv, Shape, Dialogs
<1>8. Sized' /\ Buttons' /\ Single'
  BY <1>2 DEF ListsInv, Sized, Buttons, Single, Out
<1>9. Fitting'
  <2> SUFFICES ASSUME NEW q \in asked PROVE Fit(q)'
    BY <1>2 DEF Fitting
  <2> QED
    BY <1>2, <1>3, FitStays DEF ListsInv, Fitting, Shape
<1>10. Latest'
  <2> SUFFICES ASSUME NEW q \in Out("list"), q.served, q.ok, q.version >= known, NEW g \in Items
               PROVE  Good(g, q.rows[g])' \/ \E w \in asked : Tells(w, g) /\ w.version > q.version
    BY <1>2 DEF Latest, Out, Tells
  <2> QED
    BY <1>6 DEF ListsInv, Latest
<1>11. Core'
  <2> SUFFICES ASSUME ~muddled, route # "left", ~Pending, NEW g \in Items PROVE Settled(g)'
    BY <1>2 DEF Core, Pending
  <2>1. Settled(g)
    BY DEF ListsInv, Core
  <2>2. Deletes(g)' = Deletes(g) /\ shown' = shown /\ confirming' = confirming
    BY <1>2 DEF Deletes, Out
  <2> QED
    BY <1>4, <1>6, <2>1, <2>2 DEF Settled
<1> QED
  BY <1>7, <1>8, <1>9, <1>10, <1>11 DEF ListsInv

\* What a question becomes when it is served, and what happens to the rows.
LEMMA ServeIs ==
  ASSUME ListsInv, NEW q \in asked, Serve(q)
  PROVE  /\ UNCHANGED <<route, known, muddled, shown, confirming, creating, acts, fails>>
         /\ UNCHANGED <<dialog, searching, results, expanded, loadingFiles, importing>>
         /\ ~q.served /\ version' \in Nat /\ version <= version'
         /\ rows' \in [Items -> Statuses \cup {"none", "deleted"}]
         /\ \A f \in Items : rows[f] = "deleted" => rows'[f] = "deleted"
         /\ \A f \in Items : rows'[f] = "importing" =>
              rows[f] = "importing" \/ q.kind \in {"import", "retry"}
         /\ q.kind \in Writes => version' = version + 1
         /\ q.kind \notin Writes => rows' = rows /\ version' = version
         /\ q.kind = "delete" => rows[q.about] \in Statuses /\ rows' = [rows EXCEPT ![q.about] = "deleted"]
<1>1. Fit(q) /\ q.kind \in Kinds
  BY DEF ListsInv, Fitting, Fit, Questions
<1>2. version \in Nat /\ rows \in [Items -> Statuses \cup {"none", "deleted"}]
  BY DEF ListsInv, Shape
<1>3. /\ UNCHANGED <<route, known, muddled, shown, confirming, creating, acts, fails>>
      /\ UNCHANGED <<dialog, searching, results, expanded, loadingFiles, importing>>
      /\ ~q.served
  BY DEF Serve, page, history, import
<1>4. CASE q.kind \in {"upload", "create"} /\ Makes("ready")
  BY <1>1, <1>2, <1>3, <1>4 DEF Makes, Becomes, Statuses, Writes
<1>5. CASE q.kind = "import" /\ Makes("importing")
  BY <1>1, <1>2, <1>3, <1>5 DEF Makes, Becomes, Statuses, Writes
<1>6. CASE q.kind = "retry" /\ rows[q.about] = "failed" /\ Becomes(q.about, "importing")
  BY <1>1, <1>2, <1>3, <1>6 DEF Becomes, Statuses, Writes, Fit
<1>7. CASE q.kind = "delete" /\ Present(q.about) /\ Becomes(q.about, "deleted")
  BY <1>1, <1>2, <1>3, <1>7 DEF Becomes, Statuses, Writes, Fit, Present
<1>8. CASE q.kind \notin Writes /\ UNCHANGED server
  BY <1>1, <1>2, <1>3, <1>8 DEF server, Writes
<1> QED
  BY <1>4, <1>5, <1>6, <1>7, <1>8 DEF Serve

LEMMA ServedIs ==
  ASSUME ListsInv, NEW q \in asked, Serve(q)
  PROVE  \E r \in Questions :
           /\ asked' = (asked \ {q}) \cup {r}
           /\ r.kind = q.kind /\ r.about = q.about /\ r.served /\ r.ok = q.ok /\ r.stale = q.stale
           /\ r.version = IF q.kind \in Lookups THEN 0 ELSE version'
           /\ r.rows = IF q.kind = "list" THEN Listing ELSE q.rows
<1> DEFINE r == [q EXCEPT !.served = TRUE,
                          !.version = IF q.kind \in Lookups THEN 0 ELSE version',
                          !.rows = IF q.kind = "list" THEN Listing ELSE @]
<1>1. q \in Questions /\ version' \in Nat /\ Listing \in Lists /\ asked' = (asked \ {q}) \cup {r}
  BY ServeIs, ListingIsList DEF ListsInv, Fitting, Fit, Serve, Replace
<1>2. /\ r \in Questions
      /\ r.kind = q.kind /\ r.about = q.about /\ r.served /\ r.ok = q.ok /\ r.stale = q.stale
      /\ r.version = IF q.kind \in Lookups THEN 0 ELSE version'
      /\ r.rows = IF q.kind = "list" THEN Listing ELSE q.rows
  BY <1>1 DEF Questions
<1> QED
  BY <1>1, <1>2

\* A served change the page follows up is a debt; a served list is the truth; and
\* a served deletion makes true what was shown since the click.
LEMMA ServeKeeps ==
  ASSUME ListsInv, NEW q \in asked, Serve(q)
  PROVE  ListsInv'
<1>1. /\ UNCHANGED <<route, known, muddled, shown, confirming, creating, acts, fails>>
      /\ UNCHANGED <<dialog, searching, results, expanded, loadingFiles, importing>>
      /\ ~q.served /\ version' \in Nat /\ version <= version'
      /\ rows' \in [Items -> Statuses \cup {"none", "deleted"}]
      /\ \A f \in Items : rows[f] = "deleted" => rows'[f] = "deleted"
      /\ \A f \in Items : rows'[f] = "importing" =>
           rows[f] = "importing" \/ q.kind \in {"import", "retry"}
      /\ q.kind \in Writes => version' = version + 1
      /\ q.kind \notin Writes => rows' = rows /\ version' = version
      /\ q.kind = "delete" => rows[q.about] \in Statuses /\ rows' = [rows EXCEPT ![q.about] = "deleted"]
  BY ServeIs
<1>2. PICK r \in Questions :
        /\ asked' = (asked \ {q}) \cup {r}
        /\ r.kind = q.kind /\ r.about = q.about /\ r.served /\ r.ok = q.ok /\ r.stale = q.stale
        /\ r.version = IF q.kind \in Lookups THEN 0 ELSE version'
        /\ r.rows = IF q.kind = "list" THEN Listing ELSE q.rows
  BY ServedIs
<1>3. Fit(q) /\ q.kind \in Kinds /\ version \in Nat /\ known \in Nat /\ known <= version
      /\ rows \in [Items -> Statuses \cup {"none", "deleted"}]
  BY DEF ListsInv, Fitting, Fit, Questions, Shape
<1>4. /\ Listing \in Lists
      /\ \A f \in Items : /\ Present(f) => Listing[f] = rows[f]
                          /\ ~Present(f) => Listing[f] = "none"
  BY ListingIsList DEF ListsInv
<1>5. Shape'
  <2>1. known' \in Nat /\ known' <= version'
    BY <1>1, <1>3
  <2> QED
    BY <1>1, <2>1 DEF ListsInv, Shape
<1>6. Dialogs'
  <2>1. route # "datasets" => q.kind \notin {"import", "retry"}
    BY <1>3 DEF Fit
  <2> QED
    BY <1>1, <2>1 DEF ListsInv, Dialogs
<1>7. Sized'
  BY <1>2, SwapSized DEF ListsInv
<1>8. Buttons' /\ Single'
  BY <1>1, <1>2, ButtonsSwap DEF ListsInv
<1>9. Fitting'
  <2>1. ASSUME NEW p \in asked PROVE Fit(p)'
    BY <1>1, <1>3, FitStays DEF ListsInv, Fitting
  <2>2. Fit(r)'
    <3>1. r.version <= version'
      BY <1>1, <1>2
    <3>2. q.kind = "delete" => r.rows[r.about] # "none" /\ rows'[r.about] = "deleted"
      BY <1>1, <1>2, <1>3 DEF Fit
    <3>3. route # "datasets" => \A f \in Items : r.rows[f] # "importing"
      BY <1>2, <1>3, <1>4 DEF Fit, ListsInv, Dialogs
    <3> QED
      BY <1>1, <1>2, <1>3, <3>1, <3>2, <3>3 DEF Fit
  <2> QED
    BY <1>2, <2>1, <2>2 DEF Fitting
<1>10. CASE q.kind \in Followed
  <2>1. r \in asked' /\ Debt(r)
    BY <1>2, <1>10 DEF Debt
  <2>2. Core'
    BY <2>1, CoreMoot
  <2>3. Latest'
    <3> SUFFICES ASSUME NEW p \in asked', p.kind = "list", NEW f \in Items
                 PROVE  \E w \in asked' : Tells(w, f) /\ w.version > p.version
      BY DEF Latest, Out, Tells
    <3>1. p \in asked /\ p.version \in Nat /\ p.version <= version
      BY <1>2, <1>10 DEF ListsInv, Fitting, Fit, Questions, Followed, Writes
    <3>2. r.version = version + 1 /\ Tells(r, f)
      BY <1>1, <1>2, <1>10 DEF Tells, Followed, Writes, Lookups
    <3> QED
      BY <1>3, <2>1, <3>1, <3>2
  <2> QED
    BY <1>5, <1>6, <1>7, <1>8, <1>9, <2>2, <2>3 DEF ListsInv
<1>11. CASE q.kind = "list"
  <2>1. rows' = rows /\ r \in asked' /\ Debt(r)
    BY <1>1, <1>2, <1>11 DEF Debt, Writes
  <2>2. Core'
    BY <2>1, CoreMoot
  <2>3. Listing' = Listing
    BY <2>1 DEF Listing, Present
  <2>4. Latest'
    <3> SUFFICES ASSUME NEW p \in asked', p.kind = "list", p.served, p.ok, p.version >= known,
                        NEW f \in Items
                 PROVE  Good(f, p.rows[f])' \/ \E w \in asked' : Tells(w, f) /\ w.version > p.version
      BY <1>1 DEF Latest, Out, Tells
    <3>1. CASE p = r
      BY <1>2, <1>11, <2>3, <3>1 DEF Good
    <3>2. CASE p \in asked \ {q}
      <4>1. Good(f, p.rows[f]) \/ \E w \in asked : Tells(w, f) /\ w.version > p.version
        BY <3>2 DEF ListsInv, Latest, Out
      <4>2. ASSUME NEW w \in asked, Tells(w, f) PROVE w \in asked'
        BY <1>1, <1>2, <4>2 DEF Tells
      <4> QED
        BY <2>3, <4>1, <4>2 DEF Good
    <3> QED
      BY <1>2, <3>1, <3>2
  <2> QED
    BY <1>5, <1>6, <1>7, <1>8, <1>9, <2>2, <2>4 DEF ListsInv
<1>12. CASE q.kind \in Lookups
  <2>1. rows' = rows /\ q.kind \notin {"list", "delete"} /\ q.kind \notin Followed
    BY <1>1, <1>12 DEF Lookups, Writes, Followed
  <2>2. Out("delete")' = Out("delete")
    BY <1>2, <2>1 DEF Out
  <2>3. \A p \in asked : Debt(p) => \E x \in asked' : Debt(x)
    BY <1>2, <2>1 DEF Debt
  <2>4. Core'
    BY <1>1, <2>1, <2>2, <2>3, CoreFrame DEF ListsInv
  <2>5. Latest'
    <3>1. \A p \in asked' : p.kind = "list" /\ p.served => p \in asked
      BY <1>2, <2>1
    <3>2. \A p \in asked : p.version \in Nat
      BY DEF ListsInv, Fitting, Fit, Questions
    <3>3. \A w \in asked : w \in asked' \/ ~w.served
      BY <1>1, <1>2
    <3> QED
      BY <1>1, <1>3, <2>1, <3>1, <3>2, <3>3, LatestFrame DEF ListsInv
  <2> QED
    BY <1>5, <1>6, <1>7, <1>8, <1>9, <2>4, <2>5 DEF ListsInv
<1>13. CASE q.kind = "delete"
  <2> DEFINE f == q.about
  <2>1. /\ f \in Items /\ r.about = f /\ version' = version + 1 /\ r.version = version + 1
        /\ rows' = [rows EXCEPT ![f] = "deleted"] /\ r.rows = q.rows /\ r.kind = "delete"
    BY <1>1, <1>2, <1>3, <1>13 DEF Fit, Writes, Lookups
  <2> HIDE DEF f
  <2>2. ~Present(f)' /\ Listing'[f] = "none"
    BY <1>3, <2>1 DEF Present, Listing, Statuses
  <2>3. \A g \in Items : g # f => (Present(g)' <=> Present(g)) /\ Listing'[g] = Listing[g]
    BY <1>3, <2>1 DEF Present, Listing
  <2>4. Core'
    <3> SUFFICES ASSUME ~muddled, route # "left", ~Pending', NEW g \in Items PROVE Settled(g)'
      BY <1>1 DEF Core
    <3>1. ~Pending
      <4>1. ASSUME NEW p \in asked, Debt(p) PROVE p \in asked'
        BY <1>2, <1>13, <4>1 DEF Debt, Followed
      <4> QED
        BY <4>1 DEF Pending
    <3>2. Settled(g)
      BY <3>1 DEF ListsInv, Core
    <3>3. CASE g # f
      <4>1. Deletes(g)' = Deletes(g)
        BY <1>2, <2>1, <3>3 DEF Deletes, Out, f
      <4> QED
        BY <1>1, <2>3, <3>2, <3>3, <4>1 DEF Settled, Good
    <3>4. CASE g = f
      <4>1. q \in Deletes(f)
        BY <1>13 DEF Deletes, Out, f
      <4>2. shown'[f] = "none"
        BY <1>1, <3>2, <3>4, <4>1 DEF Settled
      <4> QED
        BY <2>2, <3>4, <4>2 DEF Settled, Good
    <3> QED
      BY <3>3, <3>4
  <2>5. Latest'
    <3> SUFFICES ASSUME NEW p \in asked', p.kind = "list", p.served, p.ok, p.version >= known,
                        NEW g \in Items
                 PROVE  Good(g, p.rows[g])' \/ \E w \in asked' : Tells(w, g) /\ w.version > p.version
      BY <1>1 DEF Latest, Out, Tells
    <3>1. p \in asked /\ p.version \in Nat /\ p.version <= version
      BY <1>2, <2>1 DEF ListsInv, Fitting, Fit, Questions
    <3>2. CASE g = f
      <4>1. Tells(r, g) /\ r.version > p.version /\ r \in asked'
        BY <1>2, <1>3, <2>1, <3>1, <3>2 DEF Tells
      <4> QED
        BY <4>1
    <3>3. CASE g # f
      <4>1. Good(g, p.rows[g]) \/ \E w \in asked : Tells(w, g) /\ w.version > p.version
        BY <3>1 DEF ListsInv, Latest, Out
      <4>2. ASSUME NEW w \in asked, Tells(w, g) PROVE w \in asked'
        BY <1>1, <1>2, <4>2 DEF Tells
      <4> QED
        BY <2>3, <3>3, <4>1, <4>2 DEF Good
    <3> QED
      BY <3>2, <3>3
  <2> QED
    BY <1>5, <1>6, <1>7, <1>8, <1>9, <2>4, <2>5 DEF ListsInv
<1> QED
  BY <1>3, <1>10, <1>11, <1>12, <1>13 DEF Kinds, Followed

\* A refusal changes a question's success and nothing else.
LEMMA RefuseKeeps ==
  ASSUME ListsInv, NEW q \in asked, Refuse(q)
  PROVE  ListsInv'
<1> DEFINE r == [q EXCEPT !.ok = FALSE]
<1>1. /\ UNCHANGED <<rows, version, route, known, muddled, shown, confirming, creating, acts>>
      /\ UNCHANGED <<dialog, searching, results, expanded, loadingFiles, importing>>
      /\ asked' = (asked \ {q}) \cup {r}
  BY DEF Refuse, Replace, server, page, import
<1>2. Fit(q) /\ q \in Questions
  BY DEF ListsInv, Fitting, Fit
<1>3. /\ r \in Questions /\ r.kind = q.kind /\ r.about = q.about /\ r.served = q.served
      /\ ~r.ok /\ r.version = q.version /\ r.rows = q.rows /\ r.stale = q.stale
  BY <1>2 DEF Questions
<1> HIDE DEF r
<1>4. fails' \in 0..MaxFails
  BY ListsAssumption DEF Refuse, ListsInv, Shape
<1>5. Shape' /\ Dialogs'
  BY <1>1, <1>4 DEF ListsInv, Shape, Dialogs
<1>6. Sized'
  BY <1>1, SwapSized DEF ListsInv
<1>7. Buttons' /\ Single'
  BY <1>1, <1>3, ButtonsSwap DEF ListsInv
<1>8. Fitting'
  <2>1. Fit(r)
    BY <1>2, <1>3 DEF Fit
  <2>2. \A p \in asked' : Fit(p)
    BY <1>1, <2>1 DEF ListsInv, Fitting
  <2>3. ASSUME NEW p \in asked' PROVE Fit(p)'
    BY <1>1, <2>2, FitStays DEF ListsInv, Shape
  <2> QED
    BY <2>3 DEF Fitting
<1>9. Listing' = Listing /\ \A f \in Items : Present(f)' <=> Present(f)
  BY <1>1 DEF Listing, Present
<1>10. Latest'
  <2> SUFFICES ASSUME NEW p \in asked', p.kind = "list", p.served, p.ok, p.version >= known,
                      NEW f \in Items
               PROVE  Good(f, p.rows[f])' \/ \E w \in asked' : Tells(w, f) /\ w.version > p.version
    BY <1>1 DEF Latest, Out, Tells
  <2>1. p \in asked
    BY <1>1, <1>3
  <2>2. Good(f, p.rows[f]) \/ \E w \in asked : Tells(w, f) /\ w.version > p.version
    BY <2>1 DEF ListsInv, Latest, Out
  <2>3. ASSUME NEW w \in asked, Tells(w, f), w.version > p.version
        PROVE  \E v \in asked' : Tells(v, f) /\ v.version > p.version
    <3>1. CASE w = q
      BY <1>1, <1>3, <2>3, <3>1 DEF Tells
    <3>2. CASE w # q
      BY <1>1, <2>3, <3>2
    <3> QED
      BY <3>1, <3>2
  <2> QED
    BY <1>9, <2>2, <2>3 DEF Good
<1>11. Core'
  <2> SUFFICES ASSUME ~muddled, route # "left", ~Pending', NEW f \in Items PROVE Settled(f)'
    BY <1>1 DEF Core
  <2>1. ~Pending
    BY <1>1, <1>3 DEF Pending, Debt
  <2>2. Settled(f)
    BY <2>1 DEF ListsInv, Core
  <2>3. ASSUME NEW w \in Deletes(f)'
        PROVE  \E v \in Deletes(f) : w.rows = v.rows /\ w.stale = v.stale /\ (w = v \/ (v = q /\ w = r))
    BY <1>1, <1>3 DEF Deletes, Out
  <2>4. Deletes(f) # {} => Deletes(f)' # {}
    BY <1>1, <1>3 DEF Deletes, Out
  <2>5. ASSUME NEW w \in Deletes(f)', NEW v \in Deletes(f)', Present(f) PROVE v = w
    <3>1. \A x, y \in Deletes(f) : x = y
      BY <2>2, <2>5 DEF Settled
    <3>2. w \in asked' /\ v \in asked'
      BY DEF Deletes, Out
    <3> QED
      BY <1>1, <2>3, <2>5, <3>1, <3>2
  <2>6. \A w \in Deletes(f)' : shown[f] = "none" /\ (~w.stale /\ Present(f) => Good(f, w.rows[f]))
    BY <2>2, <2>3 DEF Settled
  <2>7. confirming.item = f /\ Present(f) => Deletes(f)' = {}
    BY <2>2, <2>3 DEF Settled
  <2>8. Good(f, shown[f]) \/ (shown[f] = "none" /\ Deletes(f)' # {})
    BY <2>2, <2>4 DEF Settled
  <2> QED
    BY <1>1, <1>9, <2>5, <2>6, <2>7, <2>8 DEF Settled, Good
<1> QED
  BY <1>5, <1>6, <1>7, <1>8, <1>10, <1>11 DEF ListsInv

---------------------------------------------------------------------------
(* Answers.                                                                *)

\* An answer is taken from what is under way; it may be followed by a question
\* for the list.
LEMMA AnswerKeeps ==
  ASSUME ListsInv, NEW q \in asked, UNCHANGED <<rows, version, route>>,
         NEW more, more = {} \/ (more = {List}), asked' = (asked \ {q}) \cup more,
         known' = Later(known, q.version) \/ (known' = known /\ q.kind \in Lookups)
  PROVE  /\ Sized' /\ Fitting' /\ Latest'
         /\ known' \in Nat /\ known' <= version
         /\ \A r \in more : r.kind = "list"
         /\ \A k : k # "list" => Out(k)' = Out(k) \ {q}
<1>1. /\ version \in Nat /\ known \in Nat /\ known <= version
      /\ q.version \in Nat /\ q.version <= version /\ Fit(q)
  BY DEF ListsInv, Shape, Fitting, Fit, Questions
<1>2. /\ known' \in Nat /\ known' <= version /\ known <= known'
      /\ q.version <= known' \/ (q.kind \in Lookups /\ known' = known)
  BY <1>1 DEF Later
<1>3. Fit(List) /\ List.kind = "list" /\ ~List.served
  BY AskFits, AskIs DEF List, Kinds, ListsInv
<1>4. \A r \in more : Fit(r) /\ r.kind = "list" /\ ~r.served
  BY <1>3
<1>5. Sized'
  <2>1. CASE more = {}
    <3>1. asked' = asked \ {q}
      BY <2>1
    <3> QED
      BY <3>1, LessSized DEF ListsInv
  <2>2. CASE more = {List}
    BY <2>2, SwapSized DEF ListsInv
  <2> QED
    BY <2>1, <2>2
<1>6. Fitting'
  <2> SUFFICES ASSUME NEW p \in asked' PROVE Fit(p)'
    BY DEF Fitting
  <2>1. Fit(p)
    BY <1>4 DEF ListsInv, Fitting
  <2> QED
    BY <1>1, <2>1, FitStays
<1>7. Latest'
  <2>1. CASE q.version <= known'
    <3>1. \A p \in asked' : p.kind = "list" /\ p.served => p \in asked
      BY <1>4
    <3>2. \A p \in asked : p.version \in Nat
      BY DEF ListsInv, Fitting, Fit, Questions
    <3>3. \A w \in asked : w \in asked' \/ ~w.served \/ w.version <= known'
      BY <2>1
    <3> QED
      BY <1>1, <1>2, <3>1, <3>2, <3>3, LatestFrame DEF ListsInv
  <2>2. CASE q.kind \in Lookups /\ known' = known
    <3> SUFFICES ASSUME NEW p \in asked', p.kind = "list", p.served, p.ok, p.version >= known,
                        NEW f \in Items
                 PROVE  Good(f, p.rows[f])' \/ \E w \in asked' : Tells(w, f) /\ w.version > p.version
      BY <2>2 DEF Latest, Out, Tells
    <3>1. p \in asked
      BY <1>4
    <3>2. Good(f, p.rows[f]) \/ \E w \in asked : Tells(w, f) /\ w.version > p.version
      BY <3>1 DEF ListsInv, Latest, Out
    <3>3. ASSUME NEW w \in asked, Tells(w, f) PROVE w \in asked'
      BY <2>2, <3>3 DEF Tells, Lookups, Followed, Writes
    <3>4. Listing' = Listing
      BY DEF Listing, Present
    <3> QED
      BY <3>2, <3>3, <3>4 DEF Good
  <2> QED
    BY <1>2, <2>1, <2>2
<1>8. \A k : k # "list" => Out(k)' = Out(k) \ {q}
  BY <1>4, OutShrinks
<1> QED
  BY <1>2, <1>4, <1>5, <1>6, <1>7, <1>8

\* The list arrives.  If it does not muddle the page, no row it shows is being
\* deleted, and what it does not know a debt accounts for.
LEMMA ListAnsweredKeeps ==
  ASSUME ListsInv, NEW q \in asked, ListAnswered(q)
  PROVE  ListsInv'
<1> DEFINE more == {}
           Stale == q.version < known \/ \E r \in Out("delete") : q.rows[r.about] # "none"
<1>1. /\ UNCHANGED <<rows, version, route, confirming, creating, acts, fails>>
      /\ UNCHANGED <<dialog, searching, results, expanded, loadingFiles, importing>>
      /\ q.kind = "list" /\ asked' = (asked \ {q}) \cup more /\ known' = Later(known, q.version)
  BY DEF ListAnswered, Learns, server, import
<1>2. \/ q.ok /\ q.served /\ shown' = q.rows /\ (muddled' = Stale)
      \/ shown' = shown /\ muddled' = TRUE
  <2>1. q.served \/ ~q.ok
    BY DEF ListAnswered, Answered
  <2>2. CASE q.ok
    BY <2>1, <2>2 DEF ListAnswered
  <2>3. CASE ~q.ok
    BY <2>3 DEF ListAnswered
  <2> QED
    BY <2>2, <2>3
<1> HIDE DEF more
<1>3. /\ Sized' /\ Fitting' /\ Latest' /\ known' \in Nat /\ known' <= version
      /\ Out("delete")' = Out("delete") \ {q} /\ \A r \in more : r.kind = "list"
  <2>1. more = {} \/ more = {List}
    BY DEF more
  <2> QED
    BY <1>1, <2>1, AnswerKeeps
<1>4. Fit(q) /\ q.rows \in Lists /\ q.version \in Nat /\ known \in Nat
  BY DEF ListsInv, Fitting, Fit, Questions, Shape
<1>5. Shape' /\ Dialogs'
  <2>1. shown' \in Lists /\ muddled' \in BOOLEAN
    BY <1>2, <1>4 DEF ListsInv, Shape
  <2>2. route # "datasets" => \A f \in Items : shown'[f] # "importing"
    BY <1>2, <1>4 DEF Fit, ListsInv, Dialogs
  <2> QED
    BY <1>1, <1>3, <2>1, <2>2 DEF ListsInv, Shape, Dialogs
<1>6. Buttons' /\ Single'
  BY <1>1, <1>3, ButtonsShrink DEF ListsInv
<1>7. Core'
  <2>1. CASE muddled' = TRUE
    BY <2>1, CoreMoot
  <2>2. CASE q.ok /\ q.served /\ shown' = q.rows /\ ~Stale
    <3> SUFFICES ASSUME ~Pending', NEW f \in Items PROVE Settled(f)'
      BY DEF Core
    <3> asked' = asked \ {q}
      BY <1>1 DEF more
    <3>1. Good(f, q.rows[f]) \/ \E w \in asked : Tells(w, f) /\ w.version > q.version
      <4>1. q.version >= known /\ q \in Out("list")
        BY <1>1, <1>4, <2>2 DEF Out
      <4> QED
        BY <2>2, <4>1 DEF ListsInv, Latest
    <3>2. Deletes(f)' = Deletes(f) /\ Listing' = Listing /\ (Present(f)' <=> Present(f))
      BY <1>1, <1>3 DEF Deletes, Out, Listing, Present
    <3>3. \A w \in asked : Tells(w, f) => w \in Deletes(f) /\ rows[f] = "deleted"
      <4> SUFFICES ASSUME NEW w \in asked, Tells(w, f) PROVE w \in Deletes(f) /\ rows[f] = "deleted"
        OBVIOUS
      <4>1. w \in asked' => ~Debt(w)
        BY <1>1 DEF Pending, Debt
      <4>2. w.kind = "delete" /\ w.about = f /\ w.served
        BY <1>1, <4>1 DEF Tells, Debt, Followed, Writes
      <4>3. Fit(w)
        BY DEF ListsInv, Fitting
      <4> QED
        BY <4>2, <4>3 DEF Fit, Deletes, Out
    <3>4. Deletes(f) # {} => q.rows[f] = "none"
      BY <2>2 DEF Deletes
    <3>5. Deletes(f) # {} => ~Present(f)
      <4>1. Good(f, "none") => ~Present(f)
        BY ListingIsList DEF Good, ListsInv, Statuses
      <4>2. rows[f] = "deleted" => ~Present(f)
        BY DEF Present, Statuses
      <4> QED
        BY <3>1, <3>3, <3>4, <4>1, <4>2
    <3> QED
      BY <1>1, <2>2, <3>1, <3>2, <3>3, <3>4, <3>5 DEF Settled, Good
  <2> QED
    BY <1>2, <2>1, <2>2
<1> QED
  BY <1>3, <1>5, <1>6, <1>7 DEF ListsInv

LEMMA UploadAnsweredKeeps ==
  ASSUME ListsInv, NEW q \in asked, UploadAnswered(q) \/ ImportAnswered(q)
  PROVE  ListsInv'
<1> DEFINE more == IF q.ok THEN {List} ELSE {}
<1>1. /\ UNCHANGED <<rows, version, route, confirming, creating, acts, fails, shown>>
      /\ UNCHANGED <<searching, results, expanded, loadingFiles>>
      /\ q.kind \in {"upload", "retry", "import"}
      /\ asked' = (asked \ {q}) \cup more /\ known' = Later(known, q.version)
      /\ muddled' = (muddled \/ Lost(q)) /\ Answered(q)
      /\ dialog' = dialog \/ dialog' = (dialog /\ ~q.ok)
      /\ IF q.kind = "import" THEN importing' = FALSE ELSE importing' = importing
  BY DEF UploadAnswered, ImportAnswered, Refreshes, Learns, server, page, import
<1>2. more = {} \/ more = {List}
  OBVIOUS
<1> HIDE DEF more
<1>3. /\ Sized' /\ Fitting' /\ Latest' /\ known' \in Nat /\ known' <= version
      /\ Out("delete")' = Out("delete") \ {q} /\ \A r \in more : r.kind = "list"
  BY <1>1, <1>2, AnswerKeeps
<1>4. Fit(q) /\ route = "datasets"
  BY <1>1 DEF ListsInv, Fitting, Fit
<1>5. Shape' /\ Dialogs'
  <2>1. muddled' \in BOOLEAN /\ dialog' \in BOOLEAN /\ importing' \in BOOLEAN
    BY <1>1, <1>4 DEF ListsInv, Shape, Lost, Fit, Questions
  <2>2. Shape'
    BY <1>1, <1>3, <2>1 DEF ListsInv, Shape
  <2>3. Dialogs'
    BY <1>1, <1>4 DEF ListsInv, Dialogs
  <2> QED
    BY <2>2, <2>3
<1>6. Buttons' /\ Single'
  BY <1>1, <1>3, ButtonsShrink DEF ListsInv
<1>7. Core'
  <2>1. CASE q.ok
    <3>1. List \in asked'
      BY <1>1, <2>1 DEF more
    <3>2. Debt(List)
      BY AskIs DEF Debt, List, Kinds
    <3> QED
      BY <3>1, <3>2, CoreMoot
  <2>2. CASE ~q.ok /\ q.served
    BY <1>1, <2>2, CoreMoot DEF Lost
  <2>3. CASE ~q.ok /\ ~q.served
    <3>1. muddled' = muddled
      BY <1>1, <2>3 DEF Lost, ListsInv, Shape
    <3>2. Out("delete")' = Out("delete")
      BY <1>1, <1>3 DEF Out
    <3>3. \A p \in asked : Debt(p) => \E x \in asked' : Debt(x)
      BY <1>1, <2>3 DEF Debt
    <3> QED
      BY <1>1, <3>1, <3>2, <3>3, CoreFrame DEF ListsInv
  <2> QED
    BY <2>1, <2>2, <2>3
<1> QED
  BY <1>3, <1>5, <1>6, <1>7 DEF ListsInv

\* A deletion done leaves nothing to show of its row; one refused, of a row still
\* there and on a list not changed since, puts back what was true of that row.
LEMMA DeleteAnsweredKeeps ==
  ASSUME ListsInv, NEW q \in asked, DeleteAnswered(q)
  PROVE  ListsInv'
<1> DEFINE more == {}
           f == q.about
<1>1. /\ UNCHANGED <<rows, version, route, confirming, creating, acts, fails>>
      /\ UNCHANGED <<dialog, searching, results, expanded, loadingFiles, importing>>
      /\ q.kind = "delete" /\ asked' = (asked \ {q}) \cup more /\ known' = Later(known, q.version)
      /\ Answered(q) /\ shown' = IF q.ok THEN shown ELSE q.rows
      /\ muddled' = (\/ muddled
                     \/ Lost(q)
                     \/ ~q.ok /\ (q.stale \/ ~Present(q.about))
                     \/ ~q.ok /\ q.rows # [shown EXCEPT ![q.about] = q.rows[q.about]])
  BY DEF DeleteAnswered, Learns, server, import
<1>2. more = {} \/ more = {List}
  OBVIOUS
<1> asked' = asked \ {q}
  BY <1>1
<1> HIDE DEF more
<1>3. /\ Sized' /\ Fitting' /\ Latest' /\ known' \in Nat /\ known' <= version
      /\ Out("delete")' = Out("delete") \ {q} /\ \A r \in more : r.kind = "list"
  BY <1>1, <1>2, AnswerKeeps
<1>4. /\ Fit(q) /\ q.rows \in Lists /\ f \in Items /\ shown \in Lists /\ q.ok \in BOOLEAN
      /\ muddled \in BOOLEAN /\ q.served \in BOOLEAN /\ q.stale \in BOOLEAN
  BY <1>1 DEF ListsInv, Fitting, Fit, Questions, Shape
<1> HIDE DEF f
<1>5. Shape' /\ Dialogs'
  <2>1. shown' \in Lists /\ muddled' \in BOOLEAN
    BY <1>1, <1>4 DEF Lost
  <2>2. route # "datasets" => \A g \in Items : shown'[g] # "importing"
    BY <1>1, <1>4 DEF Fit, ListsInv, Dialogs
  <2> QED
    BY <1>1, <1>3, <2>1, <2>2 DEF ListsInv, Shape, Dialogs
<1>6. Buttons' /\ Single'
  BY <1>1, <1>3, ButtonsShrink DEF ListsInv
<1>7. \A p \in asked : Debt(p) => p \in asked'
  BY <1>1 DEF Debt, Followed
<1>8. Listing' = Listing /\ \A g \in Items : Present(g)' <=> Present(g)
  BY <1>1 DEF Listing, Present
<1>9. q \in Deletes(f) /\ \A g \in Items : Deletes(g)' = Deletes(g) \ {q}
  BY <1>1, <1>3 DEF Deletes, Out, f
<1>10. \A g \in Items : g # f => Deletes(g)' = Deletes(g)
  BY <1>9 DEF Deletes, f
<1>11. Core'
  <2> SUFFICES ASSUME ~muddled', route # "left", ~Pending', NEW g \in Items PROVE Settled(g)'
    BY <1>1 DEF Core
  <2>1. ~muddled /\ ~Pending
    BY <1>1, <1>7 DEF Pending
  <2>2. Settled(g) /\ Settled(f)
    BY <1>4, <2>1 DEF ListsInv, Core
  <2>3. CASE q.ok
    <3>1. rows[f] = "deleted" /\ shown' = shown
      BY <1>1, <1>4, <2>3 DEF Answered, Fit, f
    <3>2. ~Present(f) /\ Listing[f] = "none"
      BY <1>4, <3>1 DEF Present, Listing, Statuses
    <3>3. CASE g # f
      BY <1>1, <1>8, <1>10, <2>2, <3>1, <3>3 DEF Settled, Good
    <3>4. CASE g = f
      <4>1. shown[f] = "none"
        BY <1>9, <2>2 DEF Settled
      <4>2. Good(f, shown[f])
        BY <3>2, <4>1 DEF Good
      <4> QED
        BY <1>1, <1>8, <1>9, <2>2, <3>1, <3>2, <3>4, <4>1, <4>2 DEF Settled, Good
    <3> QED
      BY <3>3, <3>4
  <2>4. CASE ~q.ok
    <3>1. ~q.stale /\ Present(f) /\ q.rows = [shown EXCEPT ![f] = q.rows[f]] /\ shown' = q.rows
      BY <1>1, <2>4 DEF f
    <3>2. CASE g # f
      <4>1. shown'[g] = shown[g]
        BY <1>4, <3>1, <3>2 DEF Lists
      <4> QED
        BY <1>1, <1>8, <1>10, <2>2, <3>2, <4>1 DEF Settled, Good
    <3>3. CASE g = f
      <4>1. Good(f, q.rows[f]) /\ Deletes(f) = {q}
        BY <1>9, <2>2, <3>1 DEF Settled
      <4>2. Deletes(f)' = {} /\ shown'[f] = q.rows[f]
        BY <1>4, <1>9, <3>1, <4>1
      <4> QED
        BY <1>8, <3>3, <4>1, <4>2 DEF Settled, Good
    <3> QED
      BY <3>2, <3>3
  <2> QED
    BY <2>3, <2>4
<1> QED
  BY <1>3, <1>5, <1>6, <1>11 DEF ListsInv

LEMMA CreateAnsweredKeeps ==
  ASSUME ListsInv, NEW q \in asked, CreateAnswered(q)
  PROVE  ListsInv'
<1>1. /\ UNCHANGED <<rows, version, acts, fails>>
      /\ UNCHANGED <<dialog, searching, results, expanded, loadingFiles, importing>>
      /\ q.kind = "create" /\ known' = Later(known, q.version)
      /\ creating' = FALSE /\ Answered(q) /\ muddled' = (muddled \/ Lost(q))
  BY DEF CreateAnswered, Learns, server, import
<1>2. Fit(q) /\ route = "dashboard" /\ q.version \in Nat /\ q.version <= version
      /\ known \in Nat /\ known <= version
      /\ q.ok \in BOOLEAN /\ q.served \in BOOLEAN /\ muddled \in BOOLEAN
  BY <1>1 DEF ListsInv, Fitting, Fit, Questions, Shape
<1>3. ~dialog /\ ~searching /\ ~importing /\ ~loadingFiles
  BY <1>2 DEF ListsInv, Dialogs
<1>4. muddled' \in BOOLEAN
  BY <1>1, <1>2 DEF Lost
<1>5. CASE q.ok
  <2>1. route' = "left" /\ asked' = {} /\ shown' = Nothing /\ confirming' = NoDialog
    BY <1>5 DEF CreateAnswered
  <2>2. Core' /\ Fitting' /\ Single' /\ Latest'
    BY <2>1, CoreMoot DEF Fitting, Single, Latest, Out
  <2>3. Sized'
    BY <2>1, FS_EmptySet, ListsAssumption DEF Sized
  <2>4. Buttons'
    BY <1>1, <1>3, <2>1 DEF Buttons, Out
  <2>5. Shape'
    <3>1. known' \in Nat /\ known' <= version'
      BY <1>1, <1>2 DEF Later
    <3> QED
      BY <1>1, <1>4, <2>1, <3>1, NoDialogIs, NothingIsList DEF ListsInv, Shape
  <2>6. Dialogs'
    <3>1. \A f \in Items : rows[f] # "importing"
      BY <1>2 DEF ListsInv, Dialogs
    <3> QED
      BY <1>1, <1>3, <2>1, <3>1, NoDialogIs, NothingIsList DEF Dialogs
  <2> QED
    BY <2>2, <2>3, <2>4, <2>5, <2>6 DEF ListsInv
<1>6. CASE ~q.ok
  <2> DEFINE more == {}
  <2>1. asked' = (asked \ {q}) \cup more /\ UNCHANGED <<route, shown, confirming>>
    BY <1>6 DEF CreateAnswered
  <2>2. more = {} \/ more = {List}
    OBVIOUS
  <2> asked' = asked \ {q}
    BY <2>1
  <2> HIDE DEF more
  <2>3. /\ Sized' /\ Fitting' /\ Latest' /\ known' \in Nat /\ known' <= version
        /\ Out("delete")' = Out("delete") \ {q} /\ \A r \in more : r.kind = "list"
    BY <1>1, <2>1, <2>2, AnswerKeeps
  <2>4. Buttons' /\ Single'
    BY <1>1, <2>1, <2>3, ButtonsShrink DEF ListsInv
  <2>5. Shape' /\ Dialogs'
    BY <1>1, <1>4, <2>1, <2>3 DEF ListsInv, Shape, Dialogs
  <2>6. Core'
    <3>1. CASE q.served
      BY <1>1, <1>6, <3>1, CoreMoot DEF Lost
    <3>2. CASE ~q.served
      <4>1. muddled' = muddled
        BY <1>1, <1>2, <3>2 DEF Lost
      <4>2. Out("delete")' = Out("delete")
        BY <1>1, <2>3 DEF Out
      <4>3. \A p \in asked : Debt(p) => \E x \in asked' : Debt(x)
        BY <1>1, <3>2 DEF Debt
      <4> QED
        BY <1>1, <2>1, <4>1, <4>2, <4>3, CoreFrame DEF ListsInv
    <3> QED
      BY <3>1, <3>2
  <2> QED
    BY <2>3, <2>4, <2>5, <2>6 DEF ListsInv
<1> QED
  BY <1>2, <1>5, <1>6

LEMMA LookupAnsweredKeeps ==
  ASSUME ListsInv, NEW q \in asked, SearchAnswered(q) \/ DescribeAnswered(q)
  PROVE  ListsInv'
<1> DEFINE more == {}
<1>1. /\ UNCHANGED <<rows, version, route, known, muddled, shown, confirming, creating, acts, fails>>
      /\ UNCHANGED <<dialog, importing>>
      /\ q.kind \in Lookups /\ asked' = (asked \ {q}) \cup more
  BY DEF SearchAnswered, DescribeAnswered, Lookups, server, history
<1>2. more = {} \/ more = {List}
  OBVIOUS
<1>3. \/ q.kind = "search" /\ searching' = FALSE /\ UNCHANGED <<expanded, loadingFiles>>
         /\ results' = (results \/ q.ok)
      \/ /\ q.kind = "describe" /\ loadingFiles' = FALSE /\ UNCHANGED <<searching, results>>
         /\ expanded' = IF q.ok THEN [ref |-> q.about, files |-> TRUE] ELSE Collapsed
  BY DEF SearchAnswered, DescribeAnswered
<1> HIDE DEF more
<1>4. /\ Sized' /\ Fitting' /\ Latest'
      /\ Out("delete")' = Out("delete") \ {q} /\ \A r \in more : r.kind = "list"
  BY <1>1, <1>2, AnswerKeeps
<1>5. Fit(q) /\ q.ok \in BOOLEAN /\ route = "datasets" /\ (q.kind = "describe" => q.about \in Refs)
  BY <1>1 DEF ListsInv, Fitting, Fit, Questions, Lookups
<1>6. Shape' /\ Dialogs'
  <2> DEFINE E == [ref : Refs \cup {None}, files : BOOLEAN]
  <2>1. Collapsed \in E /\ (q.kind = "describe" => [ref |-> q.about, files |-> TRUE] \in E)
    BY <1>5 DEF Collapsed
  <2> HIDE DEF E
  <2>2. expanded' \in E
    BY <1>3, <2>1 DEF ListsInv, Shape, E
  <2>3. searching' \in BOOLEAN /\ results' \in BOOLEAN /\ loadingFiles' \in BOOLEAN
    BY <1>3, <1>5 DEF ListsInv, Shape
  <2>4. Shape'
    BY <1>1, <2>2, <2>3 DEF ListsInv, Shape, E
  <2>5. Dialogs'
    BY <1>1, <1>5 DEF ListsInv, Dialogs
  <2> QED
    BY <2>4, <2>5
<1>7. Buttons' /\ Single'
  BY <1>1, <1>3, <1>4, ButtonsShrink DEF ListsInv, Lookups
<1>8. Core'
  <2>1. Out("delete")' = Out("delete")
    BY <1>1, <1>4 DEF Out, Lookups
  <2>2. \A p \in asked : Debt(p) => \E x \in asked' : Debt(x)
    BY <1>1 DEF Debt, Lookups, Followed, Writes
  <2> QED
    BY <1>1, <2>1, <2>2, CoreFrame DEF ListsInv
<1> QED
  BY <1>4, <1>6, <1>7, <1>8 DEF ListsInv

---------------------------------------------------------------------------

LEMMA InitKeeps ==
  ASSUME ListsInit
  PROVE  ListsInv
<1>1. Shape
  <2>1. rows \in [Items -> Statuses \cup {"none", "deleted"}] /\ route \in {"datasets", "dashboard"}
    <3>1. rows \in [Items -> {"ready", "failed", "none"}] \/ rows \in [Items -> {"ready", "none"}]
      BY DEF ListsInit
    <3>2. rows \in [Items -> Statuses \cup {"none", "deleted"}]
      BY <3>1 DEF Statuses
    <3> QED
      BY <3>2 DEF ListsInit
  <2>2. expanded \in [ref : Refs \cup {None}, files : BOOLEAN]
    BY DEF ListsInit, Collapsed
  <2>3. shown \in Lists /\ confirming \in [item : Items \cup {None}, rows : Lists]
    BY NoDialogIs, NothingIsList DEF ListsInit
  <2>4. acts \in 0..MaxActs /\ fails \in 0..MaxFails /\ version \in Nat /\ known \in Nat
        /\ known <= version
    BY ListsAssumption DEF ListsInit
  <2> QED
    BY <2>1, <2>2, <2>3, <2>4 DEF ListsInit, Shape
<1>2. List.kind = "list" /\ ~List.served /\ asked = {List} /\ Fit(List)
  BY <1>1, AskIs, AskFits DEF List, Kinds, ListsInit
<1>3. Sized
  BY <1>2, FS_Singleton, ListsAssumption DEF Sized
<1>4. Fitting /\ Single /\ Latest
  BY <1>2 DEF Fitting, Single, Latest, Out
<1>5. Core
  BY <1>2 DEF Core, Pending, Debt
<1>6. Buttons
  BY <1>2 DEF ListsInit, Buttons, Out
<1>7. Dialogs
  BY NoDialogIs, NothingIsList DEF ListsInit, Dialogs
<1> QED
  BY <1>1, <1>3, <1>4, <1>5, <1>6, <1>7 DEF ListsInv

LEMMA StutterKeeps ==
  ASSUME ListsInv, UNCHANGED listsVars
  PROVE  ListsInv'
<1>1. /\ UNCHANGED <<rows, version, route, known, muddled, shown, confirming, creating, acts, fails>>
      /\ UNCHANGED <<dialog, searching, results, expanded, loadingFiles, importing, asked>>
  BY DEF listsVars, server, page, import, history
<1>2. Sized' /\ Fitting' /\ Latest' /\ Core'
  BY <1>1, ClickSettles
<1>3. Shape' /\ Dialogs' /\ Buttons' /\ Single'
  BY <1>1 DEF ListsInv, Shape, Dialogs, Buttons, Single, Out
<1> QED
  BY <1>2, <1>3 DEF ListsInv

LEMMA DeleteKeeps ==
  ASSUME ListsInv, NEW f \in Items, HandleDelete(f)
  PROVE  ListsInv'
BY AskDeleteKeeps, ConfirmKeeps DEF HandleDelete

LEMMA ListsInvariant == ListsSpec => []ListsInv
<1>1. ListsInit => ListsInv
  BY InitKeeps
<1>2. ListsInv /\ [ListsNext]_listsVars => ListsInv'
  <2> SUFFICES ASSUME ListsInv, [ListsNext]_listsVars PROVE ListsInv'
    OBVIOUS
  <2>1. ASSUME NEW f \in Items, ImportEnds(f) \/ FileRow(f) PROVE ListsInv'
    BY <2>1, ImportEndsKeeps, RetryKeeps, DeleteKeeps DEF FileRow
  <2>2. CASE Tick \/ DropZone \/ ToggleDialog \/ SearchForm
    BY <2>2, TickKeeps, UploadKeeps, ToggleKeeps, SearchKeeps DEF DropZone, SearchForm
  <2>3. CASE DashboardPage
    BY <2>3, CreateKeeps, DeleteKeeps DEF DashboardPage
  <2>4. ASSUME NEW d \in Refs, ResultRow(d) PROVE ListsInv'
    BY <2>4, ExpandKeeps, ImportKeeps DEF ResultRow
  <2>5. ASSUME NEW q \in asked, Serve(q) PROVE ListsInv'
    BY <2>5, ServeKeeps
  <2>6. ASSUME NEW q \in asked, Refuse(q) PROVE ListsInv'
    BY <2>6, RefuseKeeps
  <2>7. ASSUME NEW q \in asked, Answer(q) PROVE ListsInv'
    BY <2>7, ListAnsweredKeeps, UploadAnsweredKeeps, DeleteAnsweredKeeps, CreateAnsweredKeeps,
       LookupAnsweredKeeps DEF Answer
  <2>8. CASE UNCHANGED listsVars
    BY <2>8, StutterKeeps
  <2> QED
    BY <2>1, <2>2, <2>3, <2>4, <2>5, <2>6, <2>7, <2>8 DEF ListsNext
<1> QED
  BY <1>1, <1>2, PTL DEF ListsSpec

\* The state of the two pages is of its types in every reachable state: a button
\* is disabled, or a spinner shown, only while what it waits for is under way
\* (handleSearch, handleExpand, handleImport of ImportDialog.tsx and handleCreate
\* of dashboard/page.tsx set it and reset it on every path), and no page knows of
\* a version the server has not reached.
THEOREM ListPagesAreTyped == ListsSpec => []ListsTypeOK
<1>1. ListsInv => ListsTypeOK
  BY DEF ListsInv, Shape, Sized, Buttons, Fitting, Fit, Questions, Lists, ListsTypeOK
<1> QED
  BY <1>1, ListsInvariant, PTL

\* However many changes and answers cross, refresh, handleDelete and handleRetry
\* leave a page at rest with exactly the rows there are, unless one of the three
\* things that AtRestIsTrue names muddled it.
THEOREM PagesAtRestAreTrue == ListsSpec => []AtRestIsTrue
<1>1. ListsInv => AtRestIsTrue
  <2> SUFFICES ASSUME ListsInv, route # "left", asked = {}, ~Polling, ~muddled
               PROVE  shown = Listing
    BY DEF AtRestIsTrue
  <2>1. shown \in Lists /\ Listing \in Lists /\ route \in {"datasets", "dashboard"}
    BY ListingIsList DEF ListsInv, Shape
  <2>2. ASSUME NEW f \in Items PROVE shown[f] = Listing[f]
    <3>1. Good(f, shown[f])
      BY DEF ListsInv, Core, Pending, Settled, Deletes, Out
    <3>2. shown[f] # "importing"
      BY <2>1 DEF Polling, ListsInv, Dialogs
    <3> QED
      BY <3>1, <3>2 DEF Good
  <2> QED
    BY <2>1, <2>2 DEF Lists
<1> QED
  BY <1>1, ListsInvariant, PTL

=============================================================================
