------------------------- MODULE KernelClientProofs -------------------------
(***************************************************************************)
(* KernelClient for any number of cells, runs and connection attempts: the *)
(* hook never has two connections, nobody waits in vain, and its types.    *)
(*                                                                         *)
(* The first two rest on one invariant: the socket that is being made is   *)
(* the one the hook holds as its attempt, the socket that is up is the one *)
(* it holds as its client, it holds one of them at most (Held), and every  *)
(* run that waits or is pending waits on what is held (Waits).             *)
(*                                                                         *)
(* The types rest on what is left of a run's messages (Budget), and on the *)
(* run a cell started last being one of its runs: a finite set of numbers  *)
(* has a greatest.                                                         *)
(***************************************************************************)
EXTENDS KernelClient, WellFoundedInduction, TLAPS

Making == {"asked", "opening"}
Up == {"open", "closing"}

\* What of the types the argument needs.
Shape ==
    /\ client \in Clients \cup {None}
    /\ connecting \in Clients \cup {None}
    /\ sock \in [Clients -> SockStates]
    /\ rst \in [Runs -> RunStates]
    /\ rcell \in [Runs -> Cells]
    /\ ron \in [Runs -> Clients \cup {None}]
    /\ rbutton \in [Runs -> BOOLEAN]
    /\ running \in [Cells -> BOOLEAN]
    /\ \A t \in todo : t[1] \in Cells

Held ==
    /\ \A n \in Clients : sock[n] \in Making <=> connecting = n
    /\ \A n \in Clients : sock[n] \in Up <=> client = n
    /\ client = None \/ connecting = None
    /\ \A n \in Clients : sock[n] = "erred" => client = None
    /\ status \in {"idle", "busy"} => client # None

Waits ==
    /\ \A x \in Runs : rst[x] = "waiting" => connecting # None
    /\ \A x \in Runs : rst[x] = "pending" => client # None /\ ron[x] = client
    /\ \A c \in Cells :
         running[c] => \E x \in Runs : rbutton[x] /\ rcell[x] = c /\ rst[x] \in Unsettled

ClientInv ==
    /\ Shape
    /\ Held
    /\ Waits

LEMMA NoneIsNobody == None \notin Clients
BY DEF None, Clients

LEMMA ClientInit == Init => ClientInv
<1> SUFFICES ASSUME Init PROVE ClientInv
  OBVIOUS
<1>0. (CHOOSE c \in Cells : TRUE) \in Cells
  BY ClientAssumption
<1>1. Shape
  BY <1>0 DEF Init, Shape, SockStates, RunStates, NotYet
<1>2. Held
  BY NoneIsNobody DEF Init, Held, Making, Up
<1>3. Waits
  BY DEF Init, Waits, NotYet
<1> QED
  BY <1>1, <1>2, <1>3 DEF ClientInv

---------------------------------------------------------------------------
(* A run begins.                                                           *)

LEMMA BeginsHeld ==
  ASSUME ClientInv, NEW x \in Runs, rst[x] = "none", EnsureConnected(x), UNCHANGED client
  PROVE  /\ Held'
         /\ connecting' \in Clients \cup {None}
         /\ sock' \in [Clients -> SockStates]
         /\ ron' \in [Runs -> Clients \cup {None}]
         /\ \E s \in {"waiting", "pending", "failed"} : rst' = [rst EXCEPT ![x] = s]
         /\ rst'[x] = "waiting" => connecting' # None
         /\ rst'[x] = "pending" => client # None /\ ron'[x] = client
         /\ \A y \in Runs : y # x => ron'[y] = ron[y]
         /\ connecting = None \/ connecting' = connecting
<1>0. Shape /\ Held
  BY DEF ClientInv
<1>1. CASE Execute(x)
  BY <1>0, <1>1 DEF Execute, Held, Shape
<1>2. CASE JoinConnecting(x)
  BY <1>0, <1>2 DEF JoinConnecting, Held, Shape
<1>3. CASE Connect(x)
  <2>1. PICK n \in Clients : /\ sock[n] = "none" /\ connecting' = n
                             /\ sock' = [sock EXCEPT ![n] = "asked"]
    BY <1>3 DEF Connect, FreshClient
  <2>2. /\ client = None /\ connecting = None /\ status' = "connecting" /\ ron' = ron
        /\ rst' = [rst EXCEPT ![x] = "waiting"]
    BY <1>3 DEF Connect
  <2>3. Held'
    BY <1>0, <2>1, <2>2, NoneIsNobody DEF Held, Shape, Making, Up
  <2> QED
    BY <1>0, <2>1, <2>2, <2>3, NoneIsNobody DEF Shape, SockStates
<1> QED
  BY <1>1, <1>2, <1>3 DEF EnsureConnected

LEMMA RunCellKeepsInv ==
  ASSUME ClientInv, NEW x \in Runs, NEW c \in Cells, NEW code, NEW button \in BOOLEAN,
         RunCell(x, c, code, button),
         \/ button /\ Spins(x, c)
         \/ UNCHANGED running,
         \A t \in todo' : t \in todo
  PROVE  ClientInv'
<1>0. Shape /\ Held /\ Waits
  BY DEF ClientInv
<1>1. /\ rst[x] = "none" /\ EnsureConnected(x) /\ UNCHANGED client
      /\ rbutton' = [rbutton EXCEPT ![x] = button]
      /\ rcell' = [rcell EXCEPT ![x] = c]
  BY DEF RunCell, Fresh, NotYet
<1>2. /\ Held'
      /\ connecting' \in Clients \cup {None}
      /\ sock' \in [Clients -> SockStates]
      /\ ron' \in [Runs -> Clients \cup {None}]
      /\ rst'[x] = "waiting" => connecting' # None
      /\ rst'[x] = "pending" => client # None /\ ron'[x] = client
      /\ \A y \in Runs : y # x => ron'[y] = ron[y]
      /\ connecting = None \/ connecting' = connecting
  BY <1>1, BeginsHeld
<1>3. PICK s \in {"waiting", "pending", "failed"} : rst' = [rst EXCEPT ![x] = s]
  BY <1>1, BeginsHeld
<1>4. /\ rst' \in [Runs -> RunStates] /\ rst'[x] = s
      /\ \A y \in Runs : y # x => rst'[y] = rst[y] /\ rbutton'[y] = rbutton[y]
                                 /\ rcell'[y] = rcell[y]
      /\ rbutton'[x] = button /\ rcell'[x] = c
  BY <1>0, <1>1, <1>3 DEF Shape, RunStates
<1>5. /\ running' \in [Cells -> BOOLEAN]
      /\ \A d \in Cells : running'[d] =>
           running[d] \/ (d = c /\ button /\ rst'[x] \in Unsettled)
  <2>1. CASE Spins(x, c) /\ button
    <3>1. (rst'[x] \in Unsettled) \in BOOLEAN
      OBVIOUS
    <3> QED
      BY <1>0, <2>1, <3>1 DEF Spins, Shape
  <2>2. CASE UNCHANGED running
    BY <1>0, <2>2 DEF Shape
  <2> QED
    BY <2>1, <2>2
<1>6. Shape'
  BY <1>0, <1>1, <1>2, <1>4, <1>5 DEF Shape
<1>7. ASSUME NEW d \in Cells, running'[d]
      PROVE  \E y \in Runs : rbutton'[y] /\ rcell'[y] = d /\ rst'[y] \in Unsettled
  <2>1. CASE running[d]
    <3>1. PICK y \in Runs : rbutton[y] /\ rcell[y] = d /\ rst[y] \in Unsettled
      BY <1>0, <2>1 DEF Waits
    <3>2. y # x
      BY <1>1, <3>1 DEF Unsettled
    <3> QED
      BY <1>4, <3>1, <3>2
  <2>2. CASE ~running[d]
    BY <1>4, <1>5, <1>7, <2>2
  <2> QED
    BY <2>1, <2>2
<1>8. Waits'
  BY <1>0, <1>1, <1>2, <1>4, <1>7 DEF Waits
<1> QED
  BY <1>2, <1>6, <1>8 DEF ClientInv

LEMMA StartKeepsInv ==
  ASSUME ClientInv, NEW x \in Runs, Start(x)
  PROVE  ClientInv'
<1>1. ASSUME NEW c \in Cells, HandleRun(x, c) PROVE ClientInv'
  <2>1. RunCell(x, c, source[c], TRUE) /\ Spins(x, c) /\ todo' = todo
    BY <1>1 DEF HandleRun, allVars
  <2> QED
    BY <2>1, RunCellKeepsInv
<1>2. ASSUME NEW c \in Cells, HandleShortcut(x, c) PROVE ClientInv'
  <2>1. RunCell(x, c, 0, TRUE) /\ Spins(x, c) /\ todo' = todo
    BY <1>2 DEF HandleShortcut, allVars
  <2> QED
    BY <2>1, RunCellKeepsInv
<1>3. CASE RunAllNext(x)
  <2>1. PICK t \in todo : todo' = todo \ {t} /\ RunCell(x, t[1], t[2], FALSE)
    BY <1>3 DEF RunAllNext
  <2>2. UNCHANGED running /\ t[1] \in Cells /\ \A u \in todo' : u \in todo
    BY <1>3, <2>1 DEF RunAllNext, ClientInv, Shape
  <2> QED
    BY <2>1, <2>2, RunCellKeepsInv
<1> QED
  BY <1>1, <1>2, <1>3 DEF Start

---------------------------------------------------------------------------
(* Runs end.                                                               *)

\* A cell that still spins has a run that is not among those that ended.
LEMMA SpinnersLeft ==
  ASSUME Shape, Waits, NEW xs \in SUBSET Runs,
         StopSpinning(xs), UNCHANGED <<rcell, rbutton>>,
         \A y \in Runs : y \notin xs => rst'[y] = rst[y]
  PROVE  /\ running' \in [Cells -> BOOLEAN]
         /\ \A c \in Cells :
              running'[c] => \E y \in Runs : rbutton'[y] /\ rcell'[y] = c /\ rst'[y] \in Unsettled
<1>1. running' \in [Cells -> BOOLEAN]
  BY DEF StopSpinning, Shape
<1>2. ASSUME NEW c \in Cells, running'[c]
      PROVE  \E y \in Runs : rbutton'[y] /\ rcell'[y] = c /\ rst'[y] \in Unsettled
  <2>1. running[c] /\ \A x \in xs : rbutton[x] => rcell[x] # c
    BY <1>2 DEF StopSpinning
  <2>2. PICK y \in Runs : rbutton[y] /\ rcell[y] = c /\ rst[y] \in Unsettled
    BY <2>1 DEF Waits
  <2>3. y \notin xs
    BY <2>1, <2>2
  <2> QED
    BY <2>2, <2>3
<1> QED
  BY <1>1, <1>2

LEMMA RejectEnds ==
  ASSUME Shape, Waits, NEW xs \in SUBSET Runs, Reject(xs), UNCHANGED <<rcell, rbutton>>
  PROVE  /\ rst' \in [Runs -> RunStates]
         /\ \A y \in Runs : rst'[y] = IF y \in xs THEN "failed" ELSE rst[y]
         /\ running' \in [Cells -> BOOLEAN]
         /\ \A c \in Cells :
              running'[c] => \E y \in Runs : rbutton'[y] /\ rcell'[y] = c /\ rst'[y] \in Unsettled
<1>1. /\ rst' = [y \in Runs |-> IF y \in xs THEN "failed" ELSE rst[y]]
      /\ StopSpinning(xs)
  BY DEF Reject
<1>2. rst' \in [Runs -> RunStates]
  BY <1>1 DEF Shape, RunStates
<1> QED
  BY <1>1, <1>2, SpinnersLeft

LEMMA AttemptFailsKeepsInv ==
  ASSUME ClientInv, NEW n \in Clients, StartFails(n) \/ OnError(n)
  PROVE  ClientInv'
<1>0. Shape /\ Held /\ Waits
  BY DEF ClientInv
<1>1. PICK s \in {"closed", "erred"} : sock' = [sock EXCEPT ![n] = s]
  BY DEF StartFails, OnError
<1>2. /\ sock[n] \in Making /\ connecting' = None /\ Reject(Waiting)
      /\ UNCHANGED <<status, client, rcell, ron, rbutton, todo>>
  BY DEF StartFails, OnError, Making, allVars
<1>3. connecting = n /\ client = None
  BY <1>0, <1>2, NoneIsNobody DEF Held
<1>4. /\ rst' \in [Runs -> RunStates]
      /\ \A y \in Runs : rst'[y] = IF y \in Waiting THEN "failed" ELSE rst[y]
      /\ running' \in [Cells -> BOOLEAN]
      /\ \A c \in Cells :
           running'[c] => \E y \in Runs : rbutton'[y] /\ rcell'[y] = c /\ rst'[y] \in Unsettled
  <2>1. Waiting \in SUBSET Runs
    BY DEF Waiting
  <2> QED
    BY <1>0, <1>2, <2>1, RejectEnds
<1>5. Shape'
  BY <1>0, <1>1, <1>2, <1>4 DEF Shape, SockStates
<1>6. Held'
  BY <1>0, <1>1, <1>2, <1>3, NoneIsNobody DEF Held, Shape, Making, Up
<1>7. Waits'
  BY <1>0, <1>2, <1>3, <1>4 DEF Waits, Waiting
<1> QED
  BY <1>5, <1>6, <1>7 DEF ClientInv

LEMMA OnCloseKeepsInv ==
  ASSUME ClientInv, NEW n \in Clients, OnClose(n)
  PROVE  ClientInv'
<1>0. Shape /\ Held /\ Waits
  BY DEF ClientInv
<1>1. /\ sock[n] \in {"open", "closing", "erred"} /\ sock' = [sock EXCEPT ![n] = "closed"]
      /\ status' = "disconnected" /\ client' = None /\ Reject(PendingOn(n))
      /\ UNCHANGED <<connecting, rcell, ron, rbutton, todo>>
  BY DEF OnClose, allVars
<1>2. client = None \/ client = n
  BY <1>0, <1>1 DEF Held, Up
<1>3. /\ rst' \in [Runs -> RunStates]
      /\ \A y \in Runs : rst'[y] = IF y \in PendingOn(n) THEN "failed" ELSE rst[y]
      /\ running' \in [Cells -> BOOLEAN]
      /\ \A c \in Cells :
           running'[c] => \E y \in Runs : rbutton'[y] /\ rcell'[y] = c /\ rst'[y] \in Unsettled
  <2>1. PendingOn(n) \in SUBSET Runs
    BY DEF PendingOn
  <2> QED
    BY <1>0, <1>1, <2>1, RejectEnds
<1>4. Shape'
  BY <1>0, <1>1, <1>3 DEF Shape, SockStates
<1>5. Held'
  BY <1>0, <1>1, <1>2, NoneIsNobody DEF Held, Shape, Making, Up
<1>6. \A y \in Runs : rst'[y] # "pending"
  BY <1>0, <1>2, <1>3 DEF Waits, PendingOn
<1>7. Waits'
  BY <1>0, <1>1, <1>3, <1>6 DEF Waits
<1> QED
  BY <1>4, <1>5, <1>7 DEF ClientInv

LEMMA OnReplyKeepsInv ==
  ASSUME ClientInv, NEW x \in Runs, OnReply(x)
  PROVE  ClientInv'
<1>0. Shape /\ Held /\ Waits
  BY DEF ClientInv
<1>1. /\ rst' = [rst EXCEPT ![x] = "done"] /\ StopSpinning({x})
      /\ UNCHANGED <<status, client, connecting, sock, rcell, ron, rbutton, todo>>
  BY DEF OnReply, hookVars, allVars
<1>2. rst' \in [Runs -> RunStates] /\ rst'[x] = "done" /\ \A y \in Runs : y # x => rst'[y] = rst[y]
  BY <1>0, <1>1 DEF Shape, RunStates
<1>3. /\ running' \in [Cells -> BOOLEAN]
      /\ \A c \in Cells :
           running'[c] => \E y \in Runs : rbutton'[y] /\ rcell'[y] = c /\ rst'[y] \in Unsettled
  BY <1>0, <1>1, <1>2, SpinnersLeft
<1>4. Shape'
  BY <1>0, <1>1, <1>2, <1>3 DEF Shape
<1>5. Held'
  BY <1>0, <1>1 DEF Held
<1>6. Waits'
  BY <1>0, <1>1, <1>2, <1>3 DEF Waits
<1> QED
  BY <1>4, <1>5, <1>6 DEF ClientInv

---------------------------------------------------------------------------
(* The socket's other events, and what touches neither.                    *)

LEMMA OnOpenKeepsInv ==
  ASSUME ClientInv, NEW n \in Clients, NoErrorEvent, OnOpen(n)
  PROVE  ClientInv'
<1>0. Shape /\ Held /\ Waits
  BY DEF ClientInv
<1>1. /\ sock[n] = "opening" /\ sock' = [sock EXCEPT ![n] = "open"]
      /\ client' = n /\ connecting' = None /\ status' = "idle"
      /\ rst' = [x \in Runs |-> IF x \in Waiting THEN "pending" ELSE rst[x]]
      /\ ron' = [x \in Runs |-> IF x \in Waiting THEN n ELSE ron[x]]
      /\ UNCHANGED <<rcell, rbutton, running, todo>>
  BY DEF OnOpen, cellVars, allVars
<1>2. connecting = n /\ client = None
  BY <1>0, <1>1, NoneIsNobody DEF Held, Making
<1>3. Shape'
  BY <1>0, <1>1 DEF Shape, SockStates, RunStates
<1>4. Held'
  BY <1>0, <1>1, <1>2, NoneIsNobody DEF Held, Shape, Making, Up, NoErrorEvent
<1>5. \A y \in Runs : /\ rst'[y] # "waiting"
                      /\ rst'[y] = "pending" => ron'[y] = n
                      /\ rst[y] \in Unsettled => rst'[y] \in Unsettled
  BY <1>0, <1>1, <1>2 DEF Waits, Waiting, Unsettled
<1>6. Waits'
  BY <1>0, <1>1, <1>5, NoneIsNobody DEF Waits
<1> QED
  BY <1>3, <1>4, <1>6 DEF ClientInv

LEMMA StartAnsweredKeepsInv ==
  ASSUME ClientInv, NEW n \in Clients, StartAnswered(n)
  PROVE  ClientInv'
<1>0. Shape /\ Held /\ Waits
  BY DEF ClientInv
<1>1. /\ sock[n] = "asked" /\ sock' = [sock EXCEPT ![n] = "opening"]
      /\ UNCHANGED <<status, client, connecting, rst, rcell, ron, rbutton, running, todo>>
  BY DEF StartAnswered, runVars, cellVars, allVars
<1>2. Shape'
  BY <1>0, <1>1 DEF Shape, SockStates
<1>3. Held'
  BY <1>0, <1>1 DEF Held, Shape, Making, Up
<1>4. Waits'
  BY <1>0, <1>1 DEF Waits
<1> QED
  BY <1>2, <1>3, <1>4 DEF ClientInv

LEMMA LeaveKeepsInv ==
  ASSUME ClientInv, Leave
  PROVE  ClientInv'
<1>0. Shape /\ Held /\ Waits
  BY DEF ClientInv
<1>1. /\ sock' = IF client # None THEN [sock EXCEPT ![client] = "closing"] ELSE sock
      /\ UNCHANGED <<status, client, connecting, rst, rcell, ron, rbutton, running, todo>>
  BY DEF Leave, runVars, cellVars, allVars
<1>2. Shape'
  BY <1>0, <1>1 DEF Shape, SockStates
<1>3. Held'
  BY <1>0, <1>1 DEF Held, Shape, Making, Up
<1>4. Waits'
  BY <1>0, <1>1 DEF Waits
<1> QED
  BY <1>2, <1>3, <1>4 DEF ClientInv

\* Steps that leave the connection, the runs' ends and the spinners as they are.
LEMMA BystanderKeepsInv ==
  ASSUME ClientInv,
         UNCHANGED <<client, connecting, sock, rst, rcell, ron, rbutton, running>>,
         status' = status \/ client # None,
         \A t \in todo' : t[1] \in Cells
  PROVE  ClientInv'
BY DEF ClientInv, Shape, Held, Waits

LEMMA ConnectionKeepsInv ==
  ASSUME ClientInv, NEW n \in Clients, Connection(n)
  PROVE  ClientInv'
<1>1. CASE StartFails(n) \/ OnError(n)
  BY <1>1, AttemptFailsKeepsInv
<1>2. CASE StartAnswered(n)
  BY <1>2, StartAnsweredKeepsInv
<1>3. CASE NoErrorEvent /\ OnOpen(n)
  BY <1>3, OnOpenKeepsInv
<1>4. CASE OnClose(n)
  BY <1>4, OnCloseKeepsInv
<1> QED
  BY <1>1, <1>2, <1>3, <1>4 DEF Connection

LEMMA ClientStep == ClientInv /\ [Next]_vars => ClientInv'
<1> SUFFICES ASSUME ClientInv, [Next]_vars PROVE ClientInv'
  OBVIOUS
<1>0. \A t \in todo : t[1] \in Cells
  BY DEF ClientInv, Shape
<1>1. ASSUME NEW c \in Cells, Edit(c) PROVE ClientInv'
  BY <1>0, <1>1, BystanderKeepsInv DEF Edit, hookVars, runVars, allVars
<1>2. ASSUME NEW x \in Runs, Start(x) PROVE ClientInv'
  BY <1>2, StartKeepsInv
<1>3. ASSUME NEW x \in Runs, KernelExecutes(x) PROVE ClientInv'
  BY <1>0, <1>3, BystanderKeepsInv DEF KernelExecutes, hookVars, runVars, cellVars, allVars
<1>4. ASSUME NEW x \in Runs, OnOutput(x) PROVE ClientInv'
  BY <1>0, <1>4, BystanderKeepsInv DEF OnOutput, hookVars, allVars
<1>5. ASSUME NEW x \in Runs, OnReply(x) PROVE ClientInv'
  BY <1>5, OnReplyKeepsInv
<1>6. ASSUME NEW n \in Clients, Connection(n) PROVE ClientInv'
  BY <1>6, ConnectionKeepsInv
<1>7. CASE RunAll
  <2>1. \A t \in todo' : t[1] \in Cells
    BY <1>7 DEF RunAll
  <2> QED
    BY <1>7, <2>1, BystanderKeepsInv DEF RunAll, hookVars, runVars, cellVars
<1>8. CASE RunAllEnds
  BY <1>0, <1>8, BystanderKeepsInv DEF RunAllEnds, hookVars, runVars, cellVars
<1>9. CASE OnStatus
  BY <1>0, <1>9, BystanderKeepsInv DEF OnStatus, Receiving, runVars, cellVars, allVars
<1>10. CASE Leave
  BY <1>10, LeaveKeepsInv
<1>11. CASE UNCHANGED vars
  BY <1>0, <1>11, BystanderKeepsInv DEF vars, hookVars, runVars, cellVars, allVars
<1> QED
  BY <1>1, <1>2, <1>3, <1>4, <1>5, <1>6, <1>7, <1>8, <1>9, <1>10, <1>11
  DEF Next, HandleMessage

LEMMA ClientInvHolds == Spec => []ClientInv
BY ClientInit, ClientStep, PTL DEF Spec

---------------------------------------------------------------------------

\* Whatever the cells, Run All and the cleanup do to each other, there is one
\* attempt or one socket, never two, and the status shown is that socket's
\* (useKernel.ts:16-43): a second kernel start would pay for a second container.
THEOREM HookHasOneConnection == Spec => []OneConnection
<1>1. ClientInv => OneConnection
  <2> SUFFICES ASSUME ClientInv PROVE OneConnection
    OBVIOUS
  <2>1. Held
    BY DEF ClientInv
  <2>2. \A n \in Clients : sock[n] \in Making \cup Up => connecting = n \/ client = n
    BY <2>1 DEF Held
  <2>3. \A m, n \in Clients : sock[m] \in Making \cup Up /\ sock[n] \in Making \cup Up => m = n
    BY <2>1, <2>2, NoneIsNobody DEF Held
  <2> QED
    BY <2>1, <2>3 DEF OneConnection, Held, Making, Up
<1> QED
  BY <1>1, ClientInvHolds, PTL

\* A run that waits has an attempt that will answer it, a pending run has a
\* socket that replies or closes, and a cell that spins has a run under way
\* (kernelClient.ts:57-63, useKernel.ts:16-43, CodeCell.tsx:24-31).
THEOREM RunsAreServed == Spec => []NobodyWaitsInVain
<1>1. ClientInv => NobodyWaitsInVain
  <2> SUFFICES ASSUME ClientInv PROVE NobodyWaitsInVain
    OBVIOUS
  <2>1. Shape /\ Held /\ Waits
    BY DEF ClientInv
  <2>2. connecting # None => sock[connecting] \in {"asked", "opening"}
    BY <2>1 DEF Shape, Held, Making
  <2>3. client # None => sock[client] \in {"open", "closing"}
    BY <2>1 DEF Shape, Held, Up
  <2> QED
    BY <2>1, <2>2, <2>3 DEF NobodyWaitsInVain, Waits
<1> QED
  BY <1>1, ClientInvHolds, PTL

---------------------------------------------------------------------------
(* Types.  What each run may still write is bounded by what the kernel     *)
(* has sent of it, and is one error more when it is rejected.              *)

LEMMA LeastNumber ==
  ASSUME NEW T \in SUBSET Nat, T # {}
  PROVE  \E x \in T : \A y \in T : x <= y
<1> DEFINE R == {p \in Nat \X Nat : p[1] < p[2]}
<1>1. IsWellFoundedOn(R, Nat)
  BY NatLessThanWellFounded DEF OpToRel
<1>2. \A x, y \in Nat : x < y => <<x, y>> \in R
  OBVIOUS
<1> HIDE DEF R
<1>3. PICK x \in T : \A y \in T : ~ (<<y, x>> \in R)
  BY <1>1, WFMin
<1>4. ASSUME NEW y \in T PROVE x <= y
  <2>1. x \in Nat /\ y \in Nat
    OBVIOUS
  <2>2. ~ (y < x)
    BY <1>2, <1>3, <2>1, Zenon
  <2> QED
    BY <2>1, <2>2
<1> QED
  BY <1>4

\* Of the runs that are rejected together, one is the last to write.
LEMMA LastIsOne ==
  ASSUME NEW xs \in SUBSET Runs, xs # {}
  PROVE  LastOf(xs) \in xs
<1> DEFINE T == {n \in Nat : MaxRuns - n \in xs}
<1>1. \A x \in xs : x \in Nat /\ MaxRuns - x \in Nat /\ MaxRuns - (MaxRuns - x) = x
  BY ClientAssumption DEF Runs
<1>2. T \in SUBSET Nat /\ T # {}
  BY <1>1
<1>3. PICK n \in T : \A m \in T : n <= m
  BY <1>2, LeastNumber
<1>4. \A y \in xs : y <= MaxRuns - n
  <2> SUFFICES ASSUME NEW y \in xs PROVE y <= MaxRuns - n
    OBVIOUS
  <2>1. MaxRuns - y \in T
    BY <1>1
  <2>2. n <= MaxRuns - y /\ n \in Nat /\ y \in Nat
    BY <1>1, <1>3, <2>1
  <2> QED
    BY <2>2, ClientAssumption
<1>5. \E x \in xs : \A y \in xs : y <= x
  BY <1>3, <1>4
<1> QED
  BY <1>5 DEF LastOf

Budget(x) ==
    /\ rst[x] \in {"none", "waiting"} => rout[x] = 0 /\ outs[x] = 0 /\ x \notin asked /\ ~reply[x]
    /\ x \in asked => rst[x] = "pending" /\ rout[x] = 0 /\ outs[x] = 0 /\ ~reply[x]
    /\ rst[x] = "pending" => rout[x] + outs[x] <= MaxOutputs

TypeInv == TypeOK /\ \A x \in Runs : Budget(x)

LEMMA TypeInit == Init => TypeInv
<1> SUFFICES ASSUME Init PROVE TypeInv
  OBVIOUS
<1>0. (CHOOSE c \in Cells : TRUE) \in Cells
  BY ClientAssumption
<1>1. TypeOK
  BY <1>0, ClientAssumption DEF Init, TypeOK, SockStates, RunStates, NotYet
<1>2. \A x \in Runs : Budget(x)
  BY DEF Init, Budget, NotYet
<1> QED
  BY <1>1, <1>2 DEF TypeInv

LEMMA BeginTypes ==
  ASSUME TypeInv, NEW x \in Runs, rst[x] = "none", EnsureConnected(x), UNCHANGED <<outs, reply>>
  PROVE  /\ status' \in {"disconnected", "connecting", "idle", "busy"}
         /\ connecting' \in Clients \cup {None}
         /\ sock' \in [Clients -> SockStates]
         /\ rst' \in [Runs -> RunStates]
         /\ rout' \in [Runs -> 0..MaxOutputs + 1]
         /\ ron' \in [Runs -> Clients \cup {None}]
         /\ asked' \in SUBSET Runs
         /\ \A y \in Runs : Budget(y)'
<1>0. TypeOK /\ (\A y \in Runs : Budget(y)) /\ MaxOutputs \in Nat
  BY ClientAssumption DEF TypeInv
<1>1. rout[x] = 0 /\ outs[x] = 0 /\ x \notin asked /\ ~reply[x]
  BY <1>0 DEF Budget
<1>2. CASE Execute(x)
  <2>1. CASE sock[client] = "open"
    <3>1. /\ rst' = [rst EXCEPT ![x] = "pending"] /\ ron' = [ron EXCEPT ![x] = client]
          /\ asked' = asked \cup {x} /\ UNCHANGED <<rout, status, connecting, sock>>
      BY <1>2, <2>1 DEF Execute
    <3>2. \A y \in Runs : Budget(y)'
      BY <1>0, <1>1, <3>1 DEF TypeOK, Budget
    <3> QED
      BY <1>0, <3>1, <3>2 DEF TypeOK, RunStates
  <2>2. CASE sock[client] # "open"
    <3>1. /\ rst' = [rst EXCEPT ![x] = "failed"] /\ rout' = [rout EXCEPT ![x] = rout[x] + 1]
          /\ UNCHANGED <<ron, asked, status, connecting, sock>>
      BY <1>2, <2>2 DEF Execute
    <3>2. \A y \in Runs : Budget(y)'
      BY <1>0, <1>1, <3>1 DEF TypeOK, Budget
    <3> QED
      BY <1>0, <1>1, <3>1, <3>2 DEF TypeOK, RunStates
  <2> QED
    BY <2>1, <2>2
<1>3. CASE JoinConnecting(x)
  <2>1. \A y \in Runs : Budget(y)'
    BY <1>0, <1>1, <1>3 DEF JoinConnecting, TypeOK, Budget
  <2> QED
    BY <1>0, <1>3, <2>1 DEF JoinConnecting, TypeOK, RunStates
<1>4. CASE Connect(x)
  <2>1. \A y \in Runs : Budget(y)'
    BY <1>0, <1>1, <1>4 DEF Connect, TypeOK, Budget
  <2> QED
    BY <1>0, <1>4, <2>1 DEF Connect, TypeOK, RunStates, SockStates
<1> QED
  BY <1>2, <1>3, <1>4 DEF EnsureConnected

LEMMA StartTypes ==
  ASSUME TypeInv, NEW x \in Runs, Start(x)
  PROVE  TypeInv'
<1>0. TypeOK /\ MaxEdits \in Nat
  BY ClientAssumption DEF TypeInv
<1>1. ASSUME NEW c \in Cells, NEW code \in 0..MaxEdits, NEW button \in BOOLEAN,
             RunCell(x, c, code, button), running' \in [Cells -> BOOLEAN],
             todo' \in SUBSET (Cells \X (0..MaxEdits)), awaited' \in Runs \cup {None}
      PROVE  TypeInv'
  <2>1. /\ rst[x] = "none" /\ EnsureConnected(x) /\ UNCHANGED <<client, mounted, source, outs, reply>>
        /\ rbutton' = [rbutton EXCEPT ![x] = button] /\ rcell' = [rcell EXCEPT ![x] = c]
        /\ rcode' = [rcode EXCEPT ![x] = code] /\ shown' = [shown EXCEPT ![c] = x]
    BY <1>1 DEF RunCell, Fresh, NotYet
  <2>2. /\ rbutton' \in [Runs -> BOOLEAN] /\ rcell' \in [Runs -> Cells]
        /\ rcode' \in [Runs -> 0..MaxEdits] /\ shown' \in [Cells -> Runs \cup {None}]
    BY <1>0, <2>1 DEF TypeOK
  <2> QED
    BY <1>0, <1>1, <2>1, <2>2, BeginTypes DEF TypeInv, TypeOK
<1>2. ASSUME NEW c \in Cells, Spins(x, c) PROVE running' \in [Cells -> BOOLEAN]
  <2>1. (rst'[x] \in Unsettled) \in BOOLEAN
    OBVIOUS
  <2> QED
    BY <1>0, <1>2, <2>1 DEF Spins, TypeOK
<1>3. ASSUME NEW c \in Cells, HandleRun(x, c) \/ HandleShortcut(x, c) PROVE TypeInv'
  <2>1. source[c] \in 0..MaxEdits /\ 0 \in 0..MaxEdits
    BY <1>0 DEF TypeOK
  <2>2. todo' \in SUBSET (Cells \X (0..MaxEdits)) /\ awaited' \in Runs \cup {None}
    BY <1>0, <1>3 DEF HandleRun, HandleShortcut, allVars, TypeOK
  <2>3. running' \in [Cells -> BOOLEAN]
    BY <1>2, <1>3 DEF HandleRun, HandleShortcut
  <2>4. RunCell(x, c, source[c], TRUE) \/ RunCell(x, c, 0, TRUE)
    BY <1>3 DEF HandleRun, HandleShortcut
  <2> QED
    BY <1>1, <2>1, <2>2, <2>3, <2>4
<1>4. CASE RunAllNext(x)
  <2>1. PICK t \in todo : todo' = todo \ {t} /\ RunCell(x, t[1], t[2], FALSE)
    BY <1>4 DEF RunAllNext
  <2>2. t[1] \in Cells /\ t[2] \in 0..MaxEdits
    BY <1>0 DEF TypeOK
  <2>3. /\ todo' \in SUBSET (Cells \X (0..MaxEdits)) /\ awaited' \in Runs \cup {None}
        /\ running' \in [Cells -> BOOLEAN]
    BY <1>0, <1>4, <2>1 DEF RunAllNext, TypeOK
  <2> QED
    BY <1>1, <2>1, <2>2, <2>3
<1> QED
  BY <1>3, <1>4 DEF Start

LEMMA RejectTypes ==
  ASSUME TypeInv, NEW xs \in SUBSET Runs, Reject(xs), rcell' = rcell,
         \A x \in xs : rst[x] \in Unsettled /\ x \notin asked',
         \/ UNCHANGED <<asked, outs, reply>>
         \/ asked' = {} /\ outs' = [x \in Runs |-> 0] /\ reply' = [x \in Runs |-> FALSE]
  PROVE  /\ rst' \in [Runs -> RunStates]
         /\ rout' \in [Runs -> 0..MaxOutputs + 1]
         /\ shown' \in [Cells -> Runs \cup {None}]
         /\ running' \in [Cells -> BOOLEAN]
         /\ asked' \in SUBSET Runs /\ outs' \in [Runs -> 0..MaxOutputs] /\ reply' \in [Runs -> BOOLEAN]
         /\ \A x \in Runs : Budget(x)'
<1>0. TypeOK /\ (\A y \in Runs : Budget(y)) /\ MaxOutputs \in Nat
  BY ClientAssumption DEF TypeInv
<1>1. /\ rst' = [x \in Runs |-> IF x \in xs THEN "failed" ELSE rst[x]]
      /\ rout' = [x \in Runs |-> IF x \in xs THEN rout[x] + 1 ELSE rout[x]]
      /\ StopSpinning(xs)
      /\ shown' = [c \in Cells |-> IF {x \in xs : rcell[x] = c} = {} THEN shown[c]
                                   ELSE LastOf({x \in xs : rcell[x] = c})]
  BY DEF Reject
<1>2. asked' \in SUBSET Runs /\ outs' \in [Runs -> 0..MaxOutputs] /\ reply' \in [Runs -> BOOLEAN]
  <2>1. CASE UNCHANGED <<asked, outs, reply>>
    BY <1>0, <2>1 DEF TypeOK
  <2>2. CASE asked' = {} /\ outs' = [x \in Runs |-> 0] /\ reply' = [x \in Runs |-> FALSE]
    BY <1>0, <2>2
  <2> QED
    BY <2>1, <2>2
<1>3. \A x \in Runs : outs'[x] <= outs[x] /\ outs[x] \in Nat /\ outs'[x] \in Nat /\ rout[x] \in Nat
  BY <1>0, <1>2 DEF TypeOK
<1>4. \A x \in xs : rout[x] <= MaxOutputs
  BY <1>0, <1>3 DEF Budget, Unsettled
<1>5. rout' \in [Runs -> 0..MaxOutputs + 1]
  BY <1>0, <1>1, <1>3, <1>4 DEF TypeOK
<1>6. shown' \in [Cells -> Runs \cup {None}]
  <2>1. ASSUME NEW c \in Cells, {x \in xs : rcell[x] = c} # {}
        PROVE  LastOf({x \in xs : rcell[x] = c}) \in Runs
    <3> DEFINE here == {x \in xs : rcell[x] = c}
    <3>1. here \in SUBSET Runs /\ here # {}
      BY <2>1
    <3> HIDE DEF here
    <3>2. LastOf(here) \in Runs
      BY <3>1, LastIsOne
    <3> QED
      BY <3>2 DEF here
  <2> QED
    BY <1>0, <1>1, <2>1 DEF TypeOK
<1>7. ASSUME NEW x \in Runs PROVE Budget(x)'
  <2>1. CASE x \in xs
    BY <1>1, <2>1 DEF Budget
  <2>2. CASE x \notin xs
    <3>1. rst'[x] = rst[x] /\ rout'[x] = rout[x] /\ Budget(x)
      BY <1>0, <1>1, <2>2
    <3>2. x \in asked' => x \in asked
      OBVIOUS
    <3>3. CASE UNCHANGED <<asked, outs, reply>>
      BY <3>1, <3>3 DEF Budget
    <3>4. CASE asked' = {} /\ outs' = [y \in Runs |-> 0] /\ reply' = [y \in Runs |-> FALSE]
      <4>1. x \notin asked' /\ outs'[x] = 0 /\ ~reply'[x]
        BY <3>4
      <4>2. rst[x] = "pending" => rout[x] + 0 <= MaxOutputs
        BY <1>0, <1>3, <3>1 DEF Budget
      <4> QED
        BY <3>1, <4>1, <4>2 DEF Budget
    <3> QED
      BY <3>3, <3>4
  <2> QED
    BY <2>1, <2>2
<1> QED
  BY <1>0, <1>1, <1>2, <1>5, <1>6, <1>7 DEF TypeOK, StopSpinning, RunStates

LEMMA ConnectionTypes ==
  ASSUME TypeInv, NEW n \in Clients, Connection(n)
  PROVE  TypeInv'
<1>0. TypeOK /\ (\A y \in Runs : Budget(y)) /\ MaxOutputs \in Nat
  BY ClientAssumption DEF TypeInv
<1>1. CASE StartFails(n) \/ OnError(n)
  <2>1. /\ sock' \in [Clients -> SockStates] /\ connecting' = None /\ Reject(Waiting)
        /\ UNCHANGED <<mounted, status, client, rcell, rcode, ron, rbutton, source, todo, awaited,
                       asked, outs, reply>>
    BY <1>0, <1>1 DEF StartFails, OnError, TypeOK, SockStates, allVars, wireVars
  <2>2. Waiting \in SUBSET Runs /\ \A x \in Waiting : rst[x] \in Unsettled /\ x \notin asked'
    BY <1>0, <2>1 DEF Waiting, Unsettled, Budget
  <2> QED
    BY <1>0, <2>1, <2>2, RejectTypes DEF TypeInv, TypeOK
<1>2. CASE StartAnswered(n)
  <2>1. /\ sock' \in [Clients -> SockStates]
        /\ UNCHANGED <<mounted, status, client, connecting, runVars, cellVars, allVars, wireVars>>
    BY <1>0, <1>2 DEF StartAnswered, TypeOK, SockStates
  <2>2. \A x \in Runs : Budget(x)'
    BY <1>0, <2>1 DEF Budget, runVars, wireVars
  <2> QED
    BY <1>0, <2>1, <2>2 DEF TypeInv, TypeOK, runVars, cellVars, allVars, wireVars
<1>3. CASE OnOpen(n)
  <2>1. /\ sock' \in [Clients -> SockStates]
        /\ client' = n /\ connecting' = None /\ status' = "idle"
        /\ rst' = [x \in Runs |-> IF x \in Waiting THEN "pending" ELSE rst[x]]
        /\ ron' = [x \in Runs |-> IF x \in Waiting THEN n ELSE ron[x]]
        /\ asked' = asked \cup Waiting
        /\ UNCHANGED <<mounted, rcell, rcode, rout, rbutton, cellVars, allVars, outs, reply>>
    BY <1>0, <1>3 DEF OnOpen, TypeOK, SockStates
  <2>2. \A x \in Runs : Budget(x)'
    BY <1>0, <2>1 DEF Budget, Waiting
  <2>3. rst' \in [Runs -> RunStates] /\ ron' \in [Runs -> Clients \cup {None}]
        /\ asked' \in SUBSET Runs
    BY <1>0, <2>1 DEF TypeOK, RunStates, Waiting
  <2> QED
    BY <1>0, <2>1, <2>2, <2>3 DEF TypeInv, TypeOK, cellVars, allVars
<1>4. CASE OnClose(n)
  <2>1. /\ sock' \in [Clients -> SockStates] /\ status' = "disconnected" /\ client' = None
        /\ Reject(PendingOn(n)) /\ asked' = {}
        /\ outs' = [x \in Runs |-> 0] /\ reply' = [x \in Runs |-> FALSE]
        /\ UNCHANGED <<mounted, connecting, rcell, rcode, ron, rbutton, source, todo, awaited>>
    BY <1>0, <1>4 DEF OnClose, TypeOK, SockStates, allVars
  <2>2. PendingOn(n) \in SUBSET Runs /\ \A x \in PendingOn(n) : rst[x] \in Unsettled /\ x \notin asked'
    BY <2>1 DEF PendingOn, Unsettled
  <2> QED
    BY <1>0, <2>1, <2>2, RejectTypes DEF TypeInv, TypeOK
<1> QED
  BY <1>1, <1>2, <1>3, <1>4 DEF Connection

LEMMA MessageTypes ==
  ASSUME TypeInv, NEW x \in Runs, KernelExecutes(x) \/ OnOutput(x) \/ OnReply(x)
  PROVE  TypeInv'
<1>0. TypeOK /\ (\A y \in Runs : Budget(y)) /\ MaxOutputs \in Nat
  BY ClientAssumption DEF TypeInv
<1>1. CASE KernelExecutes(x)
  <2>1. PICK n \in 0..MaxOutputs : outs' = [outs EXCEPT ![x] = n]
    BY <1>1 DEF KernelExecutes
  <2>2. /\ x \in asked /\ asked' = asked \ {x} /\ reply' = [reply EXCEPT ![x] = TRUE]
        /\ UNCHANGED <<hookVars, runVars, cellVars, allVars>>
    BY <1>1 DEF KernelExecutes
  <2>3. ASSUME NEW y \in Runs PROVE Budget(y)'
    <3>1. Budget(y) /\ rst'[y] = rst[y] /\ rout'[y] = rout[y]
      BY <1>0, <2>2 DEF runVars
    <3>2. CASE y = x
      BY <1>0, <2>1, <2>2, <3>1, <3>2 DEF Budget, TypeOK
    <3>3. CASE y # x
      BY <1>0, <2>1, <2>2, <3>1, <3>3 DEF Budget, TypeOK
    <3> QED
      BY <3>2, <3>3
  <2> QED
    BY <1>0, <2>1, <2>2, <2>3 DEF TypeInv, TypeOK, hookVars, runVars, cellVars, allVars
<1>2. CASE OnOutput(x)
  <2>1. /\ outs[x] > 0 /\ outs' = [outs EXCEPT ![x] = outs[x] - 1]
        /\ UNCHANGED <<hookVars, rst, rcell, rcode, ron, rbutton, source, running, allVars, asked,
                       reply>>
    BY <1>2 DEF OnOutput
  <2>2. outs[x] \in 0..MaxOutputs /\ rout[x] \in 0..MaxOutputs + 1 /\ rcell[x] \in Cells
    BY <1>0 DEF TypeOK
  <2>3. outs' \in [Runs -> 0..MaxOutputs]
    BY <1>0, <2>1, <2>2 DEF TypeOK
  <2>4. CASE rst[x] = "pending"
    <3>1. /\ rout' = [rout EXCEPT ![x] = rout[x] + 1] /\ shown' = [shown EXCEPT ![rcell[x]] = x]
      BY <1>2, <2>4 DEF OnOutput
    <3>2. rout[x] + outs[x] <= MaxOutputs
      BY <1>0, <2>4 DEF Budget
    <3>3. rout[x] + 1 \in 0..MaxOutputs + 1
      BY <1>0, <2>1, <2>2, <3>2
    <3>4. rout' \in [Runs -> 0..MaxOutputs + 1] /\ shown' \in [Cells -> Runs \cup {None}]
      BY <1>0, <2>2, <3>1, <3>3 DEF TypeOK
    <3>5. ASSUME NEW y \in Runs PROVE Budget(y)'
      <4>1. CASE y = x
        BY <1>0, <2>1, <2>2, <2>4, <3>1, <3>2, <4>1 DEF Budget, TypeOK
      <4>2. CASE y # x
        BY <1>0, <2>1, <3>1, <4>2 DEF Budget, TypeOK
      <4> QED
        BY <4>1, <4>2
    <3> QED
      BY <1>0, <2>1, <2>3, <3>4, <3>5 DEF TypeInv, TypeOK, hookVars, allVars
  <2>5. CASE rst[x] # "pending"
    <3>1. UNCHANGED <<rout, shown>>
      BY <1>2, <2>5 DEF OnOutput
    <3>2. ASSUME NEW y \in Runs PROVE Budget(y)'
      <4>1. CASE y = x
        BY <1>0, <2>1, <2>2, <2>5, <3>1, <4>1 DEF Budget, TypeOK
      <4>2. CASE y # x
        BY <1>0, <2>1, <3>1, <4>2 DEF Budget, TypeOK
      <4> QED
        BY <4>1, <4>2
    <3> QED
      BY <1>0, <2>1, <2>3, <3>1, <3>2 DEF TypeInv, TypeOK, hookVars, allVars
  <2> QED
    BY <2>4, <2>5
<1>3. CASE OnReply(x)
  <2>1. /\ reply[x] /\ reply' = [reply EXCEPT ![x] = FALSE] /\ rst' = [rst EXCEPT ![x] = "done"]
        /\ StopSpinning({x})
        /\ UNCHANGED <<hookVars, rcell, rcode, rout, ron, rbutton, source, shown, allVars, asked,
                       outs>>
    BY <1>3 DEF OnReply
  <2>2. running' \in [Cells -> BOOLEAN]
    BY <1>0, <2>1 DEF StopSpinning, TypeOK
  <2>3. ASSUME NEW y \in Runs PROVE Budget(y)'
    <3>1. CASE y = x
      BY <1>0, <2>1, <3>1 DEF Budget, TypeOK
    <3>2. CASE y # x
      BY <1>0, <2>1, <3>2 DEF Budget, TypeOK
    <3> QED
      BY <3>1, <3>2
  <2> QED
    BY <1>0, <2>1, <2>2, <2>3 DEF TypeInv, TypeOK, hookVars, allVars, RunStates
<1> QED
  BY <1>1, <1>2, <1>3

LEMMA OtherTypes ==
  ASSUME TypeInv,
         \/ (\E c \in Cells : Edit(c)) \/ RunAll \/ RunAllEnds \/ OnStatus \/ Leave
         \/ UNCHANGED vars
  PROVE  TypeInv'
<1>0. TypeOK /\ \A y \in Runs : Budget(y)
  BY DEF TypeInv
<1>1. UNCHANGED <<client, connecting, runVars, shown, running, wireVars>>
  BY DEF Edit, RunAll, RunAllEnds, OnStatus, Leave, vars, hookVars, cellVars
<1>2. \A y \in Runs : Budget(y)'
  BY <1>0, <1>1 DEF Budget, runVars, wireVars
<1>3. /\ mounted' \in BOOLEAN /\ status' \in {"disconnected", "connecting", "idle", "busy"}
      /\ sock' \in [Clients -> SockStates]
      /\ awaited' \in Runs \cup {None}
  BY <1>0 DEF Edit, RunAll, RunAllEnds, OnStatus, Leave, vars, hookVars, allVars, TypeOK, SockStates
<1>4. source' \in [Cells -> 0..MaxEdits]
  <2>1. ASSUME NEW c \in Cells, Edit(c) PROVE source' \in [Cells -> 0..MaxEdits]
    <3>1. source[c] + 1 \in 0..MaxEdits
      BY <1>0, <2>1, ClientAssumption DEF Edit, TypeOK
    <3> QED
      BY <1>0, <2>1, <3>1 DEF Edit, TypeOK
  <2> QED
    BY <1>0, <2>1 DEF RunAll, RunAllEnds, OnStatus, Leave, vars, cellVars, TypeOK
<1>5. todo' \in SUBSET (Cells \X (0..MaxEdits))
  <2>1. CASE RunAll
    BY <1>0, <2>1 DEF RunAll, TypeOK
  <2> QED
    BY <1>0, <2>1 DEF Edit, RunAllEnds, OnStatus, Leave, vars, allVars, TypeOK
<1> QED
  BY <1>0, <1>1, <1>2, <1>3, <1>4, <1>5 DEF TypeInv, TypeOK, runVars, wireVars

\* The hook, its connections and the cells keep their shape; in particular no
\* run writes more than the kernel sends of it and one error: what arrives
\* after a run has settled is dropped (kernelClient.ts).
THEOREM ClientTypeCorrect == Spec => []TypeOK
<1>1. TypeInv /\ [Next]_vars => TypeInv'
  BY StartTypes, ConnectionTypes, MessageTypes, OtherTypes DEF Next, HandleMessage
<1>2. TypeInv => TypeOK
  BY DEF TypeInv
<1> QED
  BY TypeInit, <1>1, <1>2, PTL DEF Spec
=============================================================================
