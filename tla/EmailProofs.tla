----------------------------- MODULE EmailProofs -----------------------------
(***************************************************************************)
(* EmailDelivery for any number of notifications and of attempts, and any  *)
(* choice of faults: a notification recorded as emailed was accepted by    *)
(* the mail server, and is never handed to it again; and of the attempts   *)
(* that come to a verdict of their own, one at most has sent a copy.       *)
(***************************************************************************)
EXTENDS EmailDelivery, FiniteSetTheorems, TLAPS

\* An attempt under way has a number (needed for the type of broken); the one
\* about to record success has seen the server accept the message; and a
\* notification recorded as emailed has no attempt on its way to overwrite that.
Settled(n) ==
    /\ pc[n] # "idle" => tries[n] \in Attempts
    /\ pc[n] = "marksent" => inbox[n] # {}
    /\ emailStatus[n] = "sent" => inbox[n] # {} /\ pc[n] = "idle"

DeliveryInv ==
    /\ TypeOK
    /\ \A n \in Notes : Settled(n)

LEMMA InitHolds == Init => DeliveryInv
BY MailTriesAssumption DEF Init, DeliveryInv, TypeOK, Settled, Attempts

\* Type correctness is preserved by every step of deliver and of what surrounds it.
LEMMA TypePreserved == DeliveryInv /\ [Next]_vars => TypeOK'
<1> SUFFICES ASSUME DeliveryInv, [Next]_vars PROVE TypeOK'
  OBVIOUS
<1>0. TypeOK /\ \A n \in Notes : pc[n] # "idle" => tries[n] \in Attempts
  BY DEF DeliveryInv, Settled
<1> USE MailTriesAssumption DEF TypeOK, Attempts
<1>1. ASSUME NEW n \in Notes, Record(n) \/ Enqueue(n) PROVE TypeOK'
  BY <1>0, <1>1 DEF Record, Enqueue
<1>2. ASSUME NEW n \in Notes, Deliver(n) PROVE TypeOK'
  <2>1. tries[n] + 1 \in 1..MailTries
    BY <1>0, <1>2 DEF Deliver
  <2>2. tries' = [tries EXCEPT ![n] = tries[n] + 1] /\ tries' \in [Notes -> 0..MailTries]
    BY <1>0, <1>2, <2>1 DEF Deliver
  <2>3. tries'[n] = tries[n] + 1
    BY <2>2
  <2>4. wire' \in [Notes -> SUBSET (1..MailTries)]
    BY <1>0, <1>2, <2>1, <2>3 DEF Deliver
  <2> QED
    BY <1>0, <1>2, <2>2, <2>4 DEF Deliver
<1>3. ASSUME NEW n \in Notes, GiveUp(n) \/ MarkSent(n) \/ TaskReturns(n) \/ MarkFailed(n)
      PROVE TypeOK'
  BY <1>0, <1>3 DEF GiveUp, MarkSent, TaskReturns, MarkFailed
<1>4. ASSUME NEW n \in Notes, Thread(n) PROVE TypeOK'
  BY <1>0, <1>4 DEF Thread, ThreadEnds, Accepted, Refused, AcceptedThenRaises
<1>5. ASSUME NEW n \in Notes, TimesOut(n) PROVE TypeOK'
  BY <1>0, <1>5 DEF TimesOut
<1>6. CASE WorkerCrash
  BY <1>0, <1>6 DEF WorkerCrash
<1>7. CASE UNCHANGED vars
  BY <1>0, <1>7 DEF vars
<1> QED
  BY <1>1, <1>2, <1>3, <1>4, <1>5, <1>6, <1>7 DEF Next, Worker

\* What a step that leaves the row of n alone may do to it.
LEMMA SettledStays ==
    ASSUME TypeOK, NEW n \in Notes, Settled(n),
           emailStatus'[n] = emailStatus[n], pc'[n] = pc[n],
           tries'[n] = tries[n], inbox[n] \subseteq inbox'[n]
    PROVE  Settled(n)'
BY DEF Settled

LEMMA SettledPreserved ==
    DeliveryInv /\ [Next]_vars => \A n \in Notes : Settled(n)'
<1> SUFFICES ASSUME DeliveryInv, [Next]_vars, NEW n \in Notes PROVE Settled(n)'
  OBVIOUS
<1>0. TypeOK /\ Settled(n)
  BY DEF DeliveryInv
<1>1. ASSUME NEW m \in Notes, Record(m) \/ Enqueue(m) PROVE Settled(n)'
  <2>1. m = n /\ Record(m) => Settled(n)'
    BY <1>0, <1>1 DEF Record, Settled, TypeOK
  <2> QED
    BY <1>0, <1>1, <2>1, SettledStays DEF Record, Enqueue, TypeOK
<1>2. ASSUME NEW m \in Notes, Deliver(m) PROVE Settled(n)'
  <2>1. CASE m = n
    <3>1. tries'[n] = tries[n] + 1 /\ tries[n] + 1 \in Attempts
      BY <1>0, <1>2, <2>1, MailTriesAssumption DEF Deliver, TypeOK, Attempts
    <3> QED
      BY <1>0, <1>2, <2>1, <3>1 DEF Deliver, Settled, TypeOK
  <2>2. CASE m # n
    BY <1>0, <1>2, <2>2, SettledStays DEF Deliver, TypeOK
  <2> QED
    BY <2>1, <2>2
<1>3. ASSUME NEW m \in Notes, GiveUp(m) \/ TaskReturns(m) PROVE Settled(n)'
  BY <1>0, <1>3, SettledStays DEF GiveUp, TaskReturns
<1>4. ASSUME NEW m \in Notes, MarkSent(m) \/ MarkFailed(m) \/ TimesOut(m)
      PROVE Settled(n)'
  <2>1. CASE m = n
    BY <1>0, <1>4, <2>1 DEF MarkSent, MarkFailed, TimesOut, Settled, TypeOK
  <2>2. CASE m # n
    BY <1>0, <1>4, <2>2, SettledStays DEF MarkSent, MarkFailed, TimesOut, TypeOK
  <2> QED
    BY <2>1, <2>2
<1>5. ASSUME NEW m \in Notes, Thread(m) PROVE Settled(n)'
  <2>0. PICK k \in Attempts : Accepted(m, k) \/ Refused(m, k) \/ AcceptedThenRaises(m, k)
    BY <1>5 DEF Thread
  <2>1. CASE m = n
    <3>1. CASE Accepted(n, k)
      BY <1>0, <3>1 DEF Accepted, ThreadEnds, Settled, TypeOK
    <3>2. CASE Refused(n, k)
      BY <1>0, <3>2 DEF Refused, ThreadEnds, Settled, TypeOK
    <3>3. CASE AcceptedThenRaises(n, k)
      BY <1>0, <3>3 DEF AcceptedThenRaises, ThreadEnds, Settled, TypeOK
    <3> QED
      BY <2>0, <2>1, <3>1, <3>2, <3>3
  <2>2. CASE m # n
    BY <1>0, <1>5, <2>2, SettledStays
    DEF Thread, ThreadEnds, Accepted, Refused, AcceptedThenRaises, TypeOK
  <2> QED
    BY <2>1, <2>2
<1>6. CASE WorkerCrash
  BY <1>0, <1>6 DEF WorkerCrash, Settled, TypeOK
<1>7. CASE UNCHANGED vars
  BY <1>0, <1>7, SettledStays DEF vars
<1> QED
  BY <1>1, <1>2, <1>3, <1>4, <1>5, <1>6, <1>7 DEF Next, Worker

LEMMA DeliveryInvHolds == Spec => []DeliveryInv
<1>1. DeliveryInv /\ [Next]_vars => DeliveryInv'
  BY TypePreserved, SettledPreserved DEF DeliveryInv
<1> QED
  BY InitHolds, <1>1, PTL DEF Spec

\* A notification is shown as emailed only if the server took the message
\* (notification_service.py:116), whatever goes wrong in between.
THEOREM SentWasTaken == Spec => []SentWasAccepted
<1>1. DeliveryInv => SentWasAccepted
  BY DEF DeliveryInv, Settled, SentWasAccepted
<1> QED
  BY <1>1, DeliveryInvHolds, PTL

\* Once recorded as emailed, always recorded as emailed, and no later attempt
\* of the task hands the message over again (notification_service.py:98).
THEOREM SentStays == Spec => SentIsFinal
<1> DEFINE Final(n) == emailStatus[n] = "sent" =>
                           emailStatus'[n] = "sent" /\ wire'[n] \subseteq wire[n]
<1>1. DeliveryInv /\ [Next]_vars => \A n \in Notes : Final(n)
  <2> SUFFICES ASSUME DeliveryInv, [Next]_vars, NEW n \in Notes, emailStatus[n] = "sent"
               PROVE  emailStatus'[n] = "sent" /\ wire'[n] \subseteq wire[n]
    OBVIOUS
  <2>0. TypeOK /\ pc[n] = "idle"
    BY DEF DeliveryInv, Settled
  <2>1. ASSUME NEW m \in Notes, Record(m) \/ Enqueue(m) \/ Deliver(m) \/ GiveUp(m)
        PROVE  emailStatus'[n] = "sent" /\ wire'[n] \subseteq wire[n]
    BY <2>0, <2>1 DEF Record, Enqueue, Deliver, GiveUp, TypeOK
  <2>2. ASSUME NEW m \in Notes,
               MarkSent(m) \/ TaskReturns(m) \/ MarkFailed(m) \/ TimesOut(m)
        PROVE  emailStatus'[n] = "sent" /\ wire'[n] \subseteq wire[n]
    BY <2>0, <2>2 DEF MarkSent, TaskReturns, MarkFailed, TimesOut, TypeOK
  <2>3. ASSUME NEW m \in Notes, Thread(m)
        PROVE  emailStatus'[n] = "sent" /\ wire'[n] \subseteq wire[n]
    BY <2>0, <2>3 DEF Thread, ThreadEnds, Accepted, Refused, AcceptedThenRaises, TypeOK
  <2>4. CASE WorkerCrash \/ UNCHANGED vars
    BY <2>0, <2>4 DEF WorkerCrash, vars, TypeOK
  <2> QED
    BY <2>1, <2>2, <2>3, <2>4 DEF Next, Worker
<1>2. DeliveryInv /\ [Next]_vars => [\A n \in Notes : Final(n)]_vars
  BY <1>1
<1> QED
  BY <1>2, DeliveryInvHolds, PTL DEF Spec, SentIsFinal

---------------------------------------------------------------------------
(* Verdicts.  A thread on the wire belongs to the attempt under way or to  *)
(* one that was cut short; so a copy that is not of a broken attempt was   *)
(* sent by the attempt that is about to record it, or has.                 *)

Verdict == {"sent", "failed"}
Copies(n) == inbox[n] \ broken[n]

Counted(n) ==
    /\ \A k \in wire[n] : k \in broken[n] \/ (k = tries[n] /\ pc[n] = "sending")
    /\ \A k \in Copies(n) : emailStatus[n] = "sent" \/ (k = tries[n] /\ pc[n] = "marksent")
    /\ \A k, l \in Copies(n) : k = l
    /\ pc[n] # "idle" => task[n] = "active"
    /\ emailStatus[n] = "none" => task[n] = "none"
    /\ task[n] \in {"none", "unqueued", "lost"} => tries[n] = 0
    /\ task[n] \in {"active", "done"} => tries[n] # 0
    /\ tries[n] # 0 /\ pc[n] = "idle" /\ tries[n] \notin broken[n] => emailStatus[n] \in Verdict

LEMMA CountedInit == Init => \A n \in Notes : Counted(n)
BY DEF Init, Counted, Copies

LEMMA CountedStays ==
    ASSUME NEW n \in Notes, Counted(n),
           emailStatus'[n] = emailStatus[n], pc'[n] = pc[n], tries'[n] = tries[n],
           inbox'[n] = inbox[n], broken'[n] = broken[n], wire'[n] = wire[n],
           task'[n] = task[n]
    PROVE  Counted(n)'
BY DEF Counted, Copies

LEMMA CountedPreserved ==
    ASSUME DeliveryInv, [Next]_vars, NEW n \in Notes, Counted(n)
    PROVE  Counted(n)'
<1>0. TypeOK /\ Settled(n) /\ tries[n] \in Nat
  BY DEF DeliveryInv, TypeOK
<1>1. ASSUME NEW m \in Notes, Record(m) \/ Enqueue(m) PROVE Counted(n)'
  <2>1. CASE m = n
    BY <1>0, <1>1, <2>1 DEF Record, Enqueue, Counted, Copies, TypeOK
  <2>2. CASE m # n
    BY <1>0, <1>1, <2>2, CountedStays DEF Record, Enqueue, TypeOK
  <2> QED
    BY <2>1, <2>2
<1>2. ASSUME NEW m \in Notes, Deliver(m) PROVE Counted(n)'
  <2>1. CASE m = n
    <3>1. /\ tries'[n] = tries[n] + 1 /\ tries'[n] # 0 /\ task[n] = "ready" /\ task'[n] = "active"
          /\ pc[n] = "idle"
          /\ UNCHANGED <<emailStatus, inbox, broken>>
      BY <1>0, <1>2, <2>1 DEF Deliver, Counted, TypeOK
    <3>2. CASE emailStatus[n] = "sent"
      BY <1>0, <1>2, <2>1, <3>1, <3>2 DEF Deliver, Counted, Copies, Verdict
    <3>3. CASE emailStatus[n] # "sent"
      <4>1. pc'[n] = "sending" /\ wire'[n] = wire[n] \cup {tries'[n]}
        BY <1>0, <1>2, <2>1, <3>3 DEF Deliver, TypeOK
      <4> QED
        BY <1>0, <3>1, <3>3, <4>1 DEF Counted, Copies
    <3> QED
      BY <3>2, <3>3
  <2>2. CASE m # n
    BY <1>0, <1>2, <2>2, CountedStays DEF Deliver, TypeOK
  <2> QED
    BY <2>1, <2>2
<1>3. ASSUME NEW m \in Notes, GiveUp(m) \/ TaskReturns(m) PROVE Counted(n)'
  <2>1. CASE m = n
    BY <1>0, <1>3, <2>1, MailTriesAssumption DEF GiveUp, TaskReturns, Counted, Copies, TypeOK
  <2>2. CASE m # n
    BY <1>0, <1>3, <2>2, CountedStays DEF GiveUp, TaskReturns, TypeOK
  <2> QED
    BY <2>1, <2>2
<1>4. ASSUME NEW m \in Notes, MarkSent(m) \/ MarkFailed(m) \/ TimesOut(m)
      PROVE  Counted(n)'
  <2>1. CASE m = n
    <3>1. CASE MarkSent(n)
      BY <1>0, <3>1 DEF MarkSent, Counted, Copies, TypeOK, Verdict
    <3>2. CASE MarkFailed(n)
      BY <1>0, <3>2 DEF MarkFailed, Counted, Copies, Settled, TypeOK, Verdict
    <3>3. CASE TimesOut(n)
      BY <1>0, <3>3 DEF TimesOut, Counted, Copies, Settled, TypeOK, Verdict
    <3> QED
      BY <1>4, <2>1, <3>1, <3>2, <3>3
  <2>2. CASE m # n
    BY <1>0, <1>4, <2>2, CountedStays DEF MarkSent, MarkFailed, TimesOut, TypeOK
  <2> QED
    BY <2>1, <2>2
<1>5. ASSUME NEW m \in Notes, Thread(m) PROVE Counted(n)'
  <2>0. PICK k \in Attempts : Accepted(m, k) \/ Refused(m, k) \/ AcceptedThenRaises(m, k)
    BY <1>5 DEF Thread
  <2>1. CASE m = n
    <3>1. CASE Accepted(n, k)
      BY <1>0, <3>1 DEF Accepted, ThreadEnds, Counted, Copies, Settled, TypeOK
    <3>2. CASE Refused(n, k)
      BY <1>0, <3>2 DEF Refused, ThreadEnds, Counted, Copies, Settled, TypeOK
    <3>3. CASE AcceptedThenRaises(n, k)
      BY <1>0, <3>3 DEF AcceptedThenRaises, ThreadEnds, Counted, Copies, Settled, TypeOK
    <3> QED
      BY <2>0, <2>1, <3>1, <3>2, <3>3
  <2>2. CASE m # n
    BY <1>0, <2>0, <2>2, CountedStays
    DEF ThreadEnds, Accepted, Refused, AcceptedThenRaises, TypeOK
  <2> QED
    BY <2>1, <2>2
<1>6. CASE WorkerCrash
  BY <1>0, <1>6 DEF WorkerCrash, Counted, Copies, Settled, TypeOK, Verdict
<1>7. CASE UNCHANGED vars
  BY <1>0, <1>7, CountedStays DEF vars
<1> QED
  BY <1>1, <1>2, <1>3, <1>4, <1>5, <1>6, <1>7 DEF Next, Worker

\* However often arq runs the task, and whatever is cut short: of the attempts
\* that come to a verdict of their own at most one has sent a copy, and when the
\* last one is such an attempt the row shows its verdict.
THEOREM OneVerdictCounts == Spec => []VerdictsCount
<1>1. DeliveryInv /\ (\A n \in Notes : Counted(n)) /\ [Next]_vars
        => (\A n \in Notes : Counted(n))'
  BY CountedPreserved
<1>2. (\A n \in Notes : Counted(n)) => VerdictsCount
  <2> SUFFICES ASSUME NEW n \in Notes, Counted(n)
               PROVE  /\ Cardinality(Copies(n)) <= 1
                      /\ task[n] = "done" /\ tries[n] \notin broken[n]
                           => emailStatus[n] \in {"sent", "failed"}
    BY DEF VerdictsCount, Copies
  <2>1. Copies(n) = {} \/ \E k : Copies(n) = {k}
    <3>1. \A k, l \in Copies(n) : k = l
      BY DEF Counted
    <3> HIDE DEF Copies
    <3>2. ASSUME NEW k \in Copies(n) PROVE Copies(n) = {k}
      BY <3>1
    <3> QED
      BY <3>2
  <2>2. Cardinality(Copies(n)) <= 1
    <3>1. CASE Copies(n) = {}
      <4>1. Cardinality({}) = 0
        BY FS_EmptySet
      <4> QED
        BY <3>1, <4>1
    <3>2. CASE \E k : Copies(n) = {k}
      <4>1. PICK k : Copies(n) = {k}
        BY <3>2
      <4>2. Cardinality({k}) = 1
        BY FS_Singleton
      <4> QED
        BY <4>1, <4>2
    <3> QED
      BY <2>1, <3>1, <3>2
  <2>3. task[n] = "done" /\ tries[n] \notin broken[n] => emailStatus[n] \in {"sent", "failed"}
    BY DEF Counted, Verdict
  <2> QED
    BY <2>2, <2>3
<1> QED
  BY CountedInit, <1>1, <1>2, DeliveryInvHolds, PTL DEF Spec
=============================================================================
