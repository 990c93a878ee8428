---------------------------- MODULE KernelClient ----------------------------
(***************************************************************************)
(* A notebook page and its kernel: the hook that connects once and is      *)
(* shared by all runs (components/notebook/useKernel.ts), the client that  *)
(* matches messages to executions (lib/kernelClient.ts), and who starts    *)
(* runs: a cell's button and shortcuts (CodeCell.tsx) and Run All          *)
(* (notebooks/[id]/page.tsx).                                              *)
(*                                                                         *)
(* An action is one task of the browser's event loop, with the promises it *)
(* settles.  KernelSessions is the other end of POST .../kernel and of the *)
(* socket; here its answers, and the kernel's, come when they like.        *)
(***************************************************************************)
EXTENDS Naturals

CONSTANTS
    Cells,
    MaxRuns,        \* bound: calls of runCode
    MaxClients,     \* bound: connection attempts
    MaxOutputs,     \* bound: outputs of one run
    MaxEdits        \* bound: edits of a cell's source

ASSUME ClientAssumption ==
    /\ Cells # {}
    /\ MaxRuns \in Nat /\ MaxClients \in Nat /\ MaxOutputs \in Nat /\ MaxEdits \in Nat

Runs == 1..MaxRuns
Clients == 1..MaxClients
None == 0

VARIABLES
    mounted,
    \* useKernel
    status, client, connecting,
    \* per connection attempt: POST .../kernel asked, then the socket
    sock,
    \* per call of runCode: its cell, its source, its outputs array, its client, and
    \* whether the cell started it (the other caller is runAll)
    rst, rcell, rcode, rout, ron, rbutton,
    \* the page: sources, what each cell shows, CodeCell's running
    source, shown, running,
    \* runAll: what is left to run, and the run it awaits
    todo, awaited,
    \* the kernel: requests it has, outputs and replies on their way back
    asked, outs, reply

hookVars == <<mounted, status, client, connecting, sock>>
runVars == <<rst, rcell, rcode, rout, ron, rbutton>>
cellVars == <<source, shown, running>>
allVars == <<todo, awaited>>
wireVars == <<asked, outs, reply>>
vars == <<hookVars, runVars, cellVars, allVars, wireVars>>

SockStates == {"none", "asked", "opening", "open", "closing", "erred", "closed"}
RunStates == {"none", "waiting", "pending", "done", "failed"}
Unsettled == {"waiting", "pending"}
NotYet == "none"

TypeOK ==
    /\ mounted \in BOOLEAN
    /\ status \in {"disconnected", "connecting", "idle", "busy"}
    /\ client \in Clients \cup {None}
    /\ connecting \in Clients \cup {None}
    /\ sock \in [Clients -> SockStates]
    /\ rst \in [Runs -> RunStates]
    /\ rcell \in [Runs -> Cells]
    /\ rcode \in [Runs -> 0..MaxEdits]
    /\ rout \in [Runs -> 0..MaxOutputs + 1]
    /\ ron \in [Runs -> Clients \cup {None}]
    /\ rbutton \in [Runs -> BOOLEAN]
    /\ source \in [Cells -> 0..MaxEdits]
    /\ shown \in [Cells -> Runs \cup {None}]
    /\ running \in [Cells -> BOOLEAN]
    /\ todo \in SUBSET (Cells \X (0..MaxEdits))
    /\ awaited \in Runs \cup {None}
    /\ asked \in SUBSET Runs
    /\ outs \in [Runs -> 0..MaxOutputs]
    /\ reply \in [Runs -> BOOLEAN]

Init ==
    /\ mounted = TRUE
    /\ status = "disconnected" /\ client = None /\ connecting = None
    /\ sock = [n \in Clients |-> "none"]
    /\ rst = [x \in Runs |-> NotYet]
    /\ rcell \in [Runs -> {CHOOSE c \in Cells : TRUE}]
    /\ rcode = [x \in Runs |-> 0]
    /\ rout = [x \in Runs |-> 0]
    /\ ron = [x \in Runs |-> None]
    /\ rbutton = [x \in Runs |-> FALSE]
    /\ source = [c \in Cells |-> 0]
    /\ shown = [c \in Cells |-> None]
    /\ running = [c \in Cells |-> FALSE]
    /\ todo = {} /\ awaited = None
    /\ asked = {}
    /\ outs = [x \in Runs |-> 0]
    /\ reply = [x \in Runs |-> FALSE]

---------------------------------------------------------------------------
(* runCode.  Its callers do not look at each other: any number of runs may *)
(* wait for the connection or for their replies.                           *)

Fresh(x) == rst[x] = NotYet /\ \A y \in Runs : y < x => rst[y] # NotYet
FreshClient(n) == sock[n] = "none" /\ \A m \in Clients : m < n => sock[m] # "none"

\* KernelClient.execute: sent, or refused if the socket is not open.
Execute(x) ==
    /\ client # None
    /\ IF sock[client] = "open"
       THEN /\ rst' = [rst EXCEPT ![x] = "pending"]
            /\ ron' = [ron EXCEPT ![x] = client]
            /\ asked' = asked \cup {x}
            /\ UNCHANGED rout
       ELSE /\ rst' = [rst EXCEPT ![x] = "failed"]
            /\ rout' = [rout EXCEPT ![x] = @ + 1]
            /\ UNCHANGED <<ron, asked>>
    /\ UNCHANGED <<status, connecting, sock>>

JoinConnecting(x) ==
    /\ client = None
    /\ connecting # None
    /\ rst' = [rst EXCEPT ![x] = "waiting"]
    /\ UNCHANGED <<status, connecting, sock, ron, rout, asked>>

\* Mutation: an attempt that is under way is not joined.
ConnectAlways(x) ==
    /\ client = None
    /\ rst' = [rst EXCEPT ![x] = "waiting"]
    /\ status' = "connecting"
    /\ \E n \in Clients :
         /\ FreshClient(n)
         /\ connecting' = n
         /\ sock' = [sock EXCEPT ![n] = "asked"]
    /\ UNCHANGED <<ron, rout, asked>>

Connect(x) ==
    /\ client = None
    /\ connecting = None
    /\ rst' = [rst EXCEPT ![x] = "waiting"]
    /\ status' = "connecting"
    /\ \E n \in Clients :
         /\ FreshClient(n)
         /\ connecting' = n
         /\ sock' = [sock EXCEPT ![n] = "asked"]
    /\ UNCHANGED <<ron, rout, asked>>

EnsureConnected(x) == Execute(x) \/ JoinConnecting(x) \/ Connect(x)

\* runCell: the cell's outputs are emptied, and the source the caller holds is run.
RunCell(x, c, code, button) ==
    /\ Fresh(x)
    /\ rbutton' = [rbutton EXCEPT ![x] = button]
    /\ rcell' = [rcell EXCEPT ![x] = c]
    /\ rcode' = [rcode EXCEPT ![x] = code]
    /\ shown' = [shown EXCEPT ![c] = x]
    /\ EnsureConnected(x)
    /\ UNCHANGED <<client, mounted, source, outs, reply>>

\* Between a socket's error and close events only promises run, no other task.
NoErrorEvent == \A n \in Clients : sock[n] # "erred"
UserActs == mounted /\ NoErrorEvent

\* The spinner of a cell whose run ended at once is gone at once.
Spins(x, c) == running' = [running EXCEPT ![c] = rst'[x] \in Unsettled]

\* The button runs the source on display, and is disabled while it spins.
HandleRun(x, c) ==
    /\ UserActs
    /\ ~running[c]
    /\ RunCell(x, c, source[c], TRUE)
    /\ Spins(x, c)
    /\ UNCHANGED allVars

\* The editor's commands were registered when it was mounted, with the onRun of
\* that rendering: Ctrl+Enter runs the source the cell had then.  Nothing
\* disables them.
HandleShortcut(x, c) ==
    /\ UserActs
    /\ RunCell(x, c, 0, TRUE)
    /\ Spins(x, c)
    /\ UNCHANGED allVars

Edit(c) ==
    /\ UserActs
    /\ source[c] < MaxEdits
    /\ source' = [source EXCEPT ![c] = @ + 1]
    /\ UNCHANGED <<hookVars, runVars, shown, running, allVars, wireVars>>

\* The cells as they are at the click.  One Run All at a time is a bound.
RunAll ==
    /\ UserActs
    /\ todo = {} /\ awaited = None
    /\ todo' = {<<c, source[c]>> : c \in Cells}
    /\ UNCHANGED <<hookVars, runVars, cellVars, awaited, wireVars>>

\* The next cell, once the one before has settled, however it did: also after
\* the page was left.
RunAllNext(x) ==
    /\ awaited # None => rst[awaited] \notin Unsettled
    /\ \E t \in todo :
         /\ todo' = todo \ {t}
         /\ RunCell(x, t[1], t[2], FALSE)
    /\ awaited' = x
    /\ UNCHANGED running

RunAllEnds ==
    /\ todo = {}
    /\ awaited # None
    /\ rst[awaited] \notin Unsettled
    /\ awaited' = None
    /\ UNCHANGED <<hookVars, runVars, cellVars, todo, wireVars>>

---------------------------------------------------------------------------
(* Settling: runs whose promise is rejected show the error as an output    *)
(* and their buttons stop spinning.                                        *)

\* running is the cell's: whichever of the runs it started ends first clears it.
StopSpinning(xs) ==
    running' = [c \in Cells |-> running[c] /\ \A x \in xs : rbutton[x] => rcell[x] # c]

\* Of several runs of a cell the last to write its outputs is shown.
LastOf(xs) == CHOOSE x \in xs : \A y \in xs : y <= x

Reject(xs) ==
    /\ rst' = [x \in Runs |-> IF x \in xs THEN "failed" ELSE rst[x]]
    /\ rout' = [x \in Runs |-> IF x \in xs THEN rout[x] + 1 ELSE rout[x]]
    /\ shown' = [c \in Cells |->
                   LET here == {x \in xs : rcell[x] = c}
                   IN IF here = {} THEN shown[c] ELSE LastOf(here)]
    /\ StopSpinning(xs)

Waiting == {x \in Runs : rst[x] = "waiting"}
PendingOn(n) == {x \in Runs : rst[x] = "pending" /\ ron[x] = n}

\* POST .../kernel fails.  The status shown stays at "connecting".
StartFails(n) ==
    /\ sock[n] = "asked"
    /\ sock' = [sock EXCEPT ![n] = "closed"]
    /\ connecting' = None
    /\ Reject(Waiting)
    /\ UNCHANGED <<mounted, status, client, rcell, rcode, ron, rbutton, source, allVars,
                   wireVars>>

StartAnswered(n) ==
    /\ sock[n] = "asked"
    /\ sock' = [sock EXCEPT ![n] = "opening"]
    /\ UNCHANGED <<mounted, status, client, connecting, runVars, cellVars, allVars, wireVars>>

\* onopen, and everyone who waited executes, whether or not the page is still there.
OnOpen(n) ==
    /\ sock[n] = "opening"
    /\ sock' = [sock EXCEPT ![n] = "open"]
    /\ client' = n
    /\ connecting' = None
    /\ status' = "idle"
    /\ rst' = [x \in Runs |-> IF x \in Waiting THEN "pending" ELSE rst[x]]
    /\ ron' = [x \in Runs |-> IF x \in Waiting THEN n ELSE ron[x]]
    /\ asked' = asked \cup Waiting
    /\ UNCHANGED <<mounted, rcell, rcode, rout, rbutton, cellVars, allVars, outs, reply>>

\* onerror of a socket that never opened; its onclose follows.
OnError(n) ==
    /\ sock[n] = "opening"
    /\ sock' = [sock EXCEPT ![n] = "erred"]
    /\ connecting' = None
    /\ Reject(Waiting)
    /\ UNCHANGED <<mounted, status, client, rcell, rcode, ron, rbutton, source, allVars,
                   wireVars>>

\* Mutation: the executions under way are not told.
OnCloseSilent(n) ==
    /\ sock[n] \in {"open", "closing", "erred"}
    /\ sock' = [sock EXCEPT ![n] = "closed"]
    /\ status' = "disconnected"
    /\ client' = None
    /\ UNCHANGED <<mounted, connecting, runVars, cellVars, allVars, wireVars>>

\* onclose: the hook forgets the client, and every execution under way fails.
\* What was still on its way is lost with the socket.
OnClose(n) ==
    /\ sock[n] \in {"open", "closing", "erred"}
    /\ sock' = [sock EXCEPT ![n] = "closed"]
    /\ status' = "disconnected"
    /\ client' = None
    /\ Reject(PendingOn(n))
    /\ asked' = {}
    /\ outs' = [x \in Runs |-> 0]
    /\ reply' = [x \in Runs |-> FALSE]
    /\ UNCHANGED <<mounted, connecting, rcell, rcode, ron, rbutton, source, allVars>>

\* The hook's cleanup: clientRef.current?.disconnect().  A connection that is
\* still being made is not in clientRef.
Leave ==
    /\ UserActs
    /\ mounted' = FALSE
    /\ sock' = IF client # None THEN [sock EXCEPT ![client] = "closing"] ELSE sock
    /\ UNCHANGED <<status, client, connecting, runVars, cellVars, allVars, wireVars>>

---------------------------------------------------------------------------
(* The kernel answers requests in order.  Outputs and status (iopub) and   *)
(* replies (shell) are two channels: neither waits for the other.          *)

KernelExecutes(x) ==
    /\ x \in asked
    /\ \A y \in asked : x <= y
    /\ asked' = asked \ {x}
    /\ \E n \in 0..MaxOutputs : outs' = [outs EXCEPT ![x] = n]
    /\ reply' = [reply EXCEPT ![x] = TRUE]
    /\ UNCHANGED <<hookVars, runVars, cellVars, allVars>>

Receiving == client # None /\ sock[client] = "open" /\ NoErrorEvent

OnStatus ==
    /\ Receiving
    /\ status' \in {"idle", "busy"}
    /\ UNCHANGED <<mounted, client, connecting, sock, runVars, cellVars, allVars, wireVars>>

\* Mutation: an output is handed on whether or not its execution is known.
OnOutputUnchecked(x) ==
    /\ Receiving
    /\ outs[x] > 0
    /\ outs' = [outs EXCEPT ![x] = @ - 1]
    /\ rout' = [rout EXCEPT ![x] = @ + 2]
    /\ shown' = [shown EXCEPT ![rcell[x]] = x]
    /\ UNCHANGED <<hookVars, rst, rcell, rcode, ron, rbutton, source, running, allVars, asked,
                   reply>>

\* An output whose execution is no longer pending has no handler: it is dropped.
OnOutput(x) ==
    /\ Receiving
    /\ outs[x] > 0
    /\ \A y \in Runs : y < x => outs[y] = 0
    /\ outs' = [outs EXCEPT ![x] = @ - 1]
    /\ IF rst[x] = "pending"
       THEN /\ rout' = [rout EXCEPT ![x] = @ + 1]
            /\ shown' = [shown EXCEPT ![rcell[x]] = x]
       ELSE UNCHANGED <<rout, shown>>
    /\ UNCHANGED <<hookVars, rst, rcell, rcode, ron, rbutton, source, running, allVars, asked,
                   reply>>

\* execute_reply: the execution leaves the map and its promise resolves.
OnReply(x) ==
    /\ Receiving
    /\ reply[x]
    /\ \A y \in Runs : y < x => ~reply[y]
    /\ reply' = [reply EXCEPT ![x] = FALSE]
    /\ rst' = [rst EXCEPT ![x] = "done"]
    /\ StopSpinning({x})
    /\ UNCHANGED <<hookVars, rcell, rcode, rout, ron, rbutton, source, shown, allVars, asked,
                   outs>>

---------------------------------------------------------------------------

Start(x) ==
    \/ \E c \in Cells : HandleRun(x, c) \/ HandleShortcut(x, c)
    \/ RunAllNext(x)

Connection(n) ==
    \/ NoErrorEvent /\ (StartFails(n) \/ StartAnswered(n) \/ OnOpen(n) \/ OnError(n))
    \/ OnClose(n)

HandleMessage(x) == OnOutput(x) \/ OnReply(x)

Next ==
    \/ \E c \in Cells : Edit(c)
    \/ \E x \in Runs : Start(x) \/ KernelExecutes(x) \/ HandleMessage(x)
    \/ \E n \in Clients : Connection(n)
    \/ RunAll \/ RunAllEnds \/ OnStatus \/ Leave

Spec == Init /\ [][Next]_vars

---------------------------------------------------------------------------
(* Properties.                                                             *)

\* No run waits for what cannot come: one that waits for the connection waits
\* for an attempt that is under way, one that waits for its reply has a socket
\* that still can bring it or a close event that will reject it, and no cell
\* spins without a run of its own that is under way (kernelClient.ts:57-63,
\* useKernel.ts:16-43, CodeCell.tsx:24-31).
NobodyWaitsInVain ==
    /\ \A x \in Runs :
         /\ rst[x] = "waiting" => connecting # None /\ sock[connecting] \in {"asked", "opening"}
         /\ rst[x] = "pending" => ron[x] # None /\ sock[ron[x]] \in {"open", "closing"}
    /\ \A c \in Cells :
         running[c] => \E x \in Runs : rbutton[x] /\ rcell[x] = c /\ rst[x] \in Unsettled

\* The hook never has two connections: not two attempts, nor an attempt beside a
\* socket that is open, although runs, Run All and the cleanup all go their own
\* way; and only the socket it holds is shown as idle or busy.
OneConnection ==
    /\ \A m, n \in Clients :
         sock[m] \in {"asked", "opening", "open", "closing"}
         /\ sock[n] \in {"asked", "opening", "open", "closing"} => m = n
    /\ status \in {"idle", "busy"} => client # None
=============================================================================
