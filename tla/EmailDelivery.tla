--------------------------- MODULE EmailDelivery ---------------------------
(***************************************************************************)
(* The email of a notification (services/notification_service), from the   *)
(* row that notify_job_event inserts to the mail server's acceptance.      *)
(*                                                                         *)
(* deliver runs as an arq task of at most MailTries attempts.  It hands    *)
(* the message to smtplib in a thread, which nothing can cancel: when arq  *)
(* cancels the attempt the thread goes on, and only the death of the       *)
(* worker ends it.  A thread is named by the attempt that started it.      *)
(***************************************************************************)
EXTENDS Naturals, FiniteSets

CONSTANTS
    Notes,      \* the notifications, one per job and event
    MailTries,  \* max_tries of send_notification_email
    Env         \* what may go wrong; see EnvEvents

EnvEvents == {"outage",    \* enqueueing fails
              "refuse",    \* the server is down or refuses the message
              "late",      \* the server takes the message, then QUIT fails
              "timeout",   \* arq cancels an attempt at its timeout
              "crash"}     \* a process dies

ASSUME MailTriesAssumption == MailTries \in Nat \ {0}
ASSUME EnvAssumption == Env \subseteq EnvEvents

Attempts == 1..MailTries

VARIABLES
    emailStatus,    \* notifications.email_status; none: no row yet
    task,           \* the send_notification_email task in Redis
    tries,          \* attempts arq has started
    pc,             \* where the attempt under way stands
    wire,           \* wire[n]: the attempts whose thread is talking to the server
    inbox,          \* inbox[n]: the attempts whose message the server accepted
    broken          \* history: the attempts that were cut short, or misled by the server

vars == <<emailStatus, task, tries, pc, wire, inbox, broken>>

TypeOK ==
    /\ emailStatus \in [Notes -> {"none", "pending", "sent", "failed"}]
    /\ task \in [Notes -> {"none", "unqueued", "ready", "active", "done", "lost"}]
    /\ tries \in [Notes -> 0..MailTries]
    /\ pc \in [Notes -> {"idle", "sending", "marksent", "markfailed"}]
    /\ wire \in [Notes -> SUBSET Attempts]
    /\ inbox \in [Notes -> SUBSET Attempts]
    /\ broken \in [Notes -> SUBSET Attempts]

Init ==
    /\ emailStatus = [n \in Notes |-> "none"]
    /\ task = [n \in Notes |-> "none"]
    /\ tries = [n \in Notes |-> 0]
    /\ pc = [n \in Notes |-> "idle"]
    /\ wire = [n \in Notes |-> {}]
    /\ inbox = [n \in Notes |-> {}]
    /\ broken = [n \in Notes |-> {}]

---------------------------------------------------------------------------
(* notify_job_event, once its insert has won.                              *)

Record(n) ==
    /\ emailStatus[n] = "none"
    /\ emailStatus' = [emailStatus EXCEPT ![n] = "pending"]
    /\ task' = [task EXCEPT ![n] = "unqueued"]
    /\ UNCHANGED <<tries, pc, wire, inbox, broken>>

\* The process may die before it has queued the task, or Redis may refuse it;
\* nobody looks for the row again.
Enqueue(n) ==
    /\ task[n] = "unqueued"
    /\ \/ task' = [task EXCEPT ![n] = "ready"]
       \/ /\ Env \cap {"outage", "crash"} # {}
          /\ task' = [task EXCEPT ![n] = "lost"]
    /\ UNCHANGED <<emailStatus, tries, pc, wire, inbox, broken>>

---------------------------------------------------------------------------
(* deliver.                                                                *)

\* Mutation: the row's status is not looked at.
DeliverUnconditionally(n) ==
    /\ task[n] = "ready"
    /\ tries[n] < MailTries
    /\ tries' = [tries EXCEPT ![n] = @ + 1]
    /\ task' = [task EXCEPT ![n] = "active"]
    /\ pc' = [pc EXCEPT ![n] = "sending"]
    /\ wire' = [wire EXCEPT ![n] = @ \cup {tries'[n]}]
    /\ UNCHANGED <<emailStatus, inbox, broken>>

\* Mutation: the task is queued without max_tries.
DeliverForever(n) ==
    /\ task[n] = "ready"
    /\ tries' = [tries EXCEPT ![n] = @ + 1]
    /\ task' = [task EXCEPT ![n] = "active"]
    /\ IF emailStatus[n] = "sent"
       THEN UNCHANGED <<pc, wire>>
       ELSE /\ pc' = [pc EXCEPT ![n] = "sending"]
            /\ wire' = [wire EXCEPT ![n] = @ \cup {tries'[n]}]
    /\ UNCHANGED <<emailStatus, inbox, broken>>

\* An attempt reads the row and, unless it says sent, hands the message over.
Deliver(n) ==
    /\ task[n] = "ready"
    /\ tries[n] < MailTries
    /\ tries' = [tries EXCEPT ![n] = @ + 1]
    /\ task' = [task EXCEPT ![n] = "active"]
    /\ IF emailStatus[n] = "sent"
       THEN UNCHANGED <<pc, wire>>
       ELSE /\ pc' = [pc EXCEPT ![n] = "sending"]
            /\ wire' = [wire EXCEPT ![n] = @ \cup {tries'[n]}]
    /\ UNCHANGED <<emailStatus, inbox, broken>>

\* Mutation: nobody gives up.
GiveUpNever(n) == FALSE

GiveUp(n) ==
    /\ task[n] = "ready"
    /\ tries[n] = MailTries
    /\ task' = [task EXCEPT ![n] = "done"]
    /\ UNCHANGED <<emailStatus, tries, pc, wire, inbox, broken>>

\* The thread of attempt k is done; send_email returns or raises to the attempt
\* if that is still the one under way.
ThreadEnds(n, k, next) ==
    /\ k \in wire[n]
    /\ wire' = [wire EXCEPT ![n] = @ \ {k}]
    /\ pc' = IF pc[n] = "sending" /\ tries[n] = k THEN [pc EXCEPT ![n] = next] ELSE pc

Accepted(n, k) ==
    /\ ThreadEnds(n, k, "marksent")
    /\ inbox' = [inbox EXCEPT ![n] = @ \cup {k}]
    /\ UNCHANGED <<emailStatus, task, tries, broken>>

Refused(n, k) ==
    /\ "refuse" \in Env
    /\ ThreadEnds(n, k, "markfailed")
    /\ UNCHANGED <<emailStatus, task, tries, inbox, broken>>

\* Leaving the with block sends QUIT, and raises if that is not answered well.
AcceptedThenRaises(n, k) ==
    /\ "late" \in Env
    /\ ThreadEnds(n, k, "markfailed")
    /\ inbox' = [inbox EXCEPT ![n] = @ \cup {k}]
    /\ broken' = [broken EXCEPT ![n] = @ \cup {k}]
    /\ UNCHANGED <<emailStatus, task, tries>>

\* Mutation: the status is left as it was.
MarkNothing(n) ==
    /\ pc[n] = "marksent"
    /\ pc' = [pc EXCEPT ![n] = "idle"]
    /\ UNCHANGED <<emailStatus, task, tries, wire, inbox, broken>>

MarkSent(n) ==
    /\ pc[n] = "marksent"
    /\ emailStatus' = [emailStatus EXCEPT ![n] = "sent"]
    /\ pc' = [pc EXCEPT ![n] = "idle"]
    /\ UNCHANGED <<task, tries, wire, inbox, broken>>

\* The attempt returned; arq takes the task off its books.
TaskReturns(n) ==
    /\ task[n] = "active"
    /\ pc[n] = "idle"
    /\ task' = [task EXCEPT ![n] = "done"]
    /\ UNCHANGED <<emailStatus, tries, pc, wire, inbox, broken>>

\* Mutation: a failure is recorded as a success before it is raised.
MarkFailedAsSent(n) ==
    /\ pc[n] = "markfailed"
    /\ emailStatus' = [emailStatus EXCEPT ![n] = "sent"]
    /\ \E s \in {"ready", "done"} : task' = [task EXCEPT ![n] = s]
    /\ pc' = [pc EXCEPT ![n] = "idle"]
    /\ UNCHANGED <<tries, wire, inbox, broken>>

\* The failure is recorded and raised again: arq queues the task once more, or
\* not.
MarkFailed(n) ==
    /\ pc[n] = "markfailed"
    /\ emailStatus' = [emailStatus EXCEPT ![n] = "failed"]
    /\ \E s \in {"ready", "done"} : task' = [task EXCEPT ![n] = s]
    /\ pc' = [pc EXCEPT ![n] = "idle"]
    /\ UNCHANGED <<tries, wire, inbox, broken>>

\* arq cancels the attempt.  The except clause does not see a cancellation, so
\* the row stays as it is; the thread stays on the wire.
TimesOut(n) ==
    /\ "timeout" \in Env
    /\ pc[n] # "idle"
    /\ \E s \in {"ready", "done"} : task' = [task EXCEPT ![n] = s]
    /\ pc' = [pc EXCEPT ![n] = "idle"]
    /\ broken' = [broken EXCEPT ![n] = @ \cup {tries[n]}]
    /\ UNCHANGED <<emailStatus, tries, wire, inbox>>

\* The worker dies with its attempts and its threads; arq runs what was active
\* again.
WorkerCrash ==
    /\ "crash" \in Env
    /\ task' = [n \in Notes |-> IF task[n] = "active" THEN "ready" ELSE task[n]]
    /\ pc' = [n \in Notes |-> "idle"]
    /\ wire' = [n \in Notes |-> {}]
    /\ broken' = [n \in Notes |-> IF pc[n] # "idle" THEN broken[n] \cup {tries[n]}
                                                     ELSE broken[n]]
    /\ UNCHANGED <<emailStatus, tries, inbox>>

Thread(n) == \E k \in Attempts : Accepted(n, k) \/ Refused(n, k) \/ AcceptedThenRaises(n, k)

Worker(n) == Deliver(n) \/ GiveUp(n) \/ MarkSent(n) \/ TaskReturns(n) \/ MarkFailed(n)

Next ==
    \/ \E n \in Notes : Record(n) \/ Enqueue(n) \/ Worker(n) \/ Thread(n) \/ TimesOut(n)
    \/ WorkerCrash

Spec == Init /\ [][Next]_vars

\* The process that recorded the row goes on, arq picks queued tasks up, and
\* smtplib's own socket timeout bounds every thread.
Fairness ==
    \A n \in Notes : WF_vars(Enqueue(n)) /\ WF_vars(Worker(n)) /\ WF_vars(Thread(n))

FairSpec == Spec /\ Fairness

---------------------------------------------------------------------------
(* What must hold.                                                         *)

\* A notification is shown as emailed only if the server took the message
\* (notification_service.py:116).
SentWasAccepted ==
    \A n \in Notes : emailStatus[n] = "sent" => inbox[n] # {}

\* An attempt that comes to its own verdict counts: however often arq ran the
\* task, at most one such attempt sent a copy, so that a second one needs an
\* attempt that was cut short or misled by the server; and when the last was one,
\* its verdict is recorded ("pending -> sent | failed", models/notification.py:31).
VerdictsCount ==
    \A n \in Notes :
        /\ Cardinality(inbox[n] \ broken[n]) <= 1
        /\ task[n] = "done" /\ tries[n] \notin broken[n] => emailStatus[n] \in {"sent", "failed"}

\* Once a notification is recorded as emailed it stays so, and no attempt hands
\* its message over again, though arq may still run the task
\* (notification_service.py:98).
SentIsFinal ==
    [][\A n \in Notes : emailStatus[n] = "sent" =>
            emailStatus'[n] = "sent" /\ wire'[n] \subseteq wire[n]]_vars

\* An email that was queued is not retried for ever: crashes, timeouts and
\* refusals all use up attempts.
RetriesEnd ==
    \A n \in Notes : task[n] = "ready" ~> task[n] = "done"

=============================================================================
