--------------------------- MODULE KernelSessions ---------------------------
(***************************************************************************)
(* Notebook kernels (services/kernel_service, api/kernels): Docker         *)
(* containers running a kernel gateway, and the kernel_sessions rows that  *)
(* name them.  A row is inserted after its container answers and names it  *)
(* for good, so a session is identified with its container here.           *)
(*                                                                         *)
(* Four kinds of actors work on them without a lock: POST kernel requests, *)
(* WebSocket proxies, DELETE kernel requests and the idle reaper.  The     *)
(* latter two share stop_session and are called Stoppers.                  *)
(*                                                                         *)
(* Time is abstracted to whether a row's last_activity is older than the   *)
(* idle timeout.                                                           *)
(***************************************************************************)
EXTENDS Naturals

CONSTANTS
    Notebooks,
    Containers,     \* container names; each is drawn once
    Starts,         \* POST kernel requests under way at a time
    Proxies,        \* WebSockets open at a time
    MaxFaults       \* bound: API crashes and Docker errors

ASSUME MaxFaultsAssumption == MaxFaults \in Nat
ASSUME ContainersAssumption == Containers # {} /\ Notebooks # {}

VARIABLES
    cont,       \* the containers, as Docker has them
    nb,         \* nb[c]: the notebook c was started for
    sess,       \* kernel_sessions.status
    idle,       \* last_activity < cutoff
    \* POST kernel
    spc, snb, scont,
    \* the WebSocket proxy
    ppc, psess,
    \* DELETE kernel ("user") and reap_idle_sessions ("reaper")
    at, todo, cur,
    faults

dockerVars == <<cont, nb>>
dbVars == <<sess, idle>>
startVars == <<spc, snb, scont>>
proxyVars == <<ppc, psess>>
stopVars == <<at, todo, cur>>
vars == <<dockerVars, dbVars, startVars, proxyVars, stopVars, faults>>

Stoppers == {"user", "reaper"}
Dead == {"down", "gone"}        \* exited, removed

TypeOK ==
    /\ cont \in [Containers -> {"none", "booting", "serving"} \cup Dead]
    /\ nb \in [Containers -> Notebooks]
    /\ sess \in [Containers -> {"none", "running", "stopped"}]
    /\ idle \in [Containers -> BOOLEAN]
    /\ spc \in [Starts -> {"idle", "touch", "run", "wait"}]
    /\ snb \in [Starts -> Notebooks]
    /\ scont \in [Starts -> Containers]
    /\ ppc \in [Proxies -> {"idle", "connect", "relay", "mark", "markcommit"}]
    /\ psess \in [Proxies -> Containers]
    /\ at \in [Stoppers -> {"idle", "commit"}]
    /\ todo \in [Stoppers -> SUBSET Containers]
    /\ cur \in [Stoppers -> Containers]
    /\ faults \in 0..MaxFaults

NoNotebook == CHOOSE n \in Notebooks : TRUE
NoContainer == CHOOSE c \in Containers : TRUE

Init ==
    /\ cont = [c \in Containers |-> "none"]
    /\ nb = [c \in Containers |-> NoNotebook]
    /\ sess = [c \in Containers |-> "none"]
    /\ idle = [c \in Containers |-> FALSE]
    /\ spc = [r \in Starts |-> "idle"]
    /\ snb = [r \in Starts |-> NoNotebook]
    /\ scont = [r \in Starts |-> NoContainer]
    /\ ppc = [p \in Proxies |-> "idle"]
    /\ psess = [p \in Proxies |-> NoContainer]
    /\ at = [s \in Stoppers |-> "idle"]
    /\ todo = [s \in Stoppers |-> {}]
    /\ cur = [s \in Stoppers |-> NoContainer]
    /\ faults = 0

RunningOf(n) == {c \in Containers : sess[c] = "running" /\ nb[c] = n}

\* Every UPDATE of a row writes last_activity, explicitly or by the column's
\* onupdate.
Touch(c) == idle' = [idle EXCEPT ![c] = FALSE]

---------------------------------------------------------------------------
(* POST kernel: get_or_create_session.                                     *)

StartIdle(r) ==
    /\ spc' = [spc EXCEPT ![r] = "idle"]
    /\ snb' = [snb EXCEPT ![r] = NoNotebook]
    /\ scont' = [scont EXCEPT ![r] = NoContainer]

\* The running session it finds, if any, is the one it will return.  (Of several
\* the newest; here, any.)
StartRead(r, n) ==
    /\ spc[r] = "idle"
    /\ snb' = [snb EXCEPT ![r] = n]
    /\ \/ \E c \in RunningOf(n) :
            /\ spc' = [spc EXCEPT ![r] = "touch"]
            /\ scont' = [scont EXCEPT ![r] = c]
       \/ /\ RunningOf(n) = {}
          /\ spc' = [spc EXCEPT ![r] = "run"]
          /\ UNCHANGED scont
    /\ UNCHANGED <<dockerVars, dbVars, proxyVars, stopVars, faults>>

\* Mutation: the touch writes the status it has read back.
StartRevives(r) ==
    /\ spc[r] = "touch"
    /\ Touch(scont[r])
    /\ sess' = [sess EXCEPT ![scont[r]] = "running"]
    /\ StartIdle(r)
    /\ UNCHANGED <<dockerVars, proxyVars, stopVars, faults>>

StartTouch(r) ==
    /\ spc[r] = "touch"
    /\ Touch(scont[r])
    /\ StartIdle(r)
    /\ UNCHANGED <<dockerVars, sess, proxyVars, stopVars, faults>>

\* containers.run under a fresh random name; the image may be missing.
StartRun(r) ==
    /\ spc[r] = "run"
    /\ \/ \E c \in Containers :
            /\ cont[c] = "none"
            /\ cont' = [cont EXCEPT ![c] = "booting"]
            /\ nb' = [nb EXCEPT ![c] = snb[r]]
            /\ scont' = [scont EXCEPT ![r] = c]
            /\ spc' = [spc EXCEPT ![r] = "wait"]
            /\ UNCHANGED snb
       \/ StartIdle(r) /\ UNCHANGED dockerVars
    /\ UNCHANGED <<dbVars, proxyVars, stopVars, faults>>

\* STARTUP_TIMEOUT_SECONDS are over and the request fails, leaving the container.
StartTimesOut(r) ==
    /\ spc[r] = "wait"
    /\ StartIdle(r)
    /\ UNCHANGED <<dockerVars, dbVars, proxyVars, stopVars, faults>>

\* Mutation: the row is inserted with a status of its own.
InsertStarting(r) ==
    /\ spc[r] = "wait"
    /\ cont[scont[r]] = "serving"
    /\ sess' = [sess EXCEPT ![scont[r]] = "starting"]
    /\ Touch(scont[r])
    /\ StartIdle(r)
    /\ UNCHANGED <<dockerVars, proxyVars, stopVars, faults>>

\* The gateway answers 201, and the row is inserted.
StartInsert(r) ==
    /\ spc[r] = "wait"
    /\ cont[scont[r]] = "serving"
    /\ sess' = [sess EXCEPT ![scont[r]] = "running"]
    /\ Touch(scont[r])
    /\ StartIdle(r)
    /\ UNCHANGED <<dockerVars, proxyVars, stopVars, faults>>

---------------------------------------------------------------------------
(* The WebSocket: kernel_ws_proxy.                                         *)

ProxyGoes(p, next) == ppc' = [ppc EXCEPT ![p] = next]

ProxyIdle(p) ==
    /\ ProxyGoes(p, "idle")
    /\ psess' = [psess EXCEPT ![p] = NoContainer]

\* A session that is not running is refused.
ProxyOpen(p, c) ==
    /\ ppc[p] = "idle"
    /\ sess[c] = "running"
    /\ Touch(c)
    /\ ProxyGoes(p, "connect")
    /\ psess' = [psess EXCEPT ![p] = c]
    /\ UNCHANGED <<dockerVars, sess, startVars, stopVars, faults>>

\* Mutation: an unreachable container is taken for a closed connection.
ConnectFailureIgnored(p) ==
    /\ ppc[p] = "connect"
    /\ IF cont[psess[p]] = "serving"
       THEN ProxyGoes(p, "relay") /\ UNCHANGED psess
       ELSE ProxyIdle(p)
    /\ UNCHANGED <<dockerVars, dbVars, startVars, stopVars, faults>>

ProxyConnect(p) ==
    /\ ppc[p] = "connect"
    /\ ProxyGoes(p, IF cont[psess[p]] = "serving" THEN "relay" ELSE "mark")
    /\ UNCHANGED <<dockerVars, dbVars, psess, startVars, stopVars, faults>>

\* Either side closes; any other exception has the session marked dead.
ProxyEnds(p) ==
    /\ ppc[p] = "relay"
    /\ \/ ProxyIdle(p)
       \/ ProxyGoes(p, "mark") /\ UNCHANGED psess
    /\ UNCHANGED <<dockerVars, dbVars, startVars, stopVars, faults>>

\* Mutation: mark_session_dead leaves the container to Docker.
MarkKeepsContainer(p) ==
    /\ ppc[p] = "mark"
    /\ IF sess[psess[p]] = "running"
       THEN ProxyGoes(p, "markcommit") /\ UNCHANGED psess
       ELSE ProxyIdle(p)
    /\ UNCHANGED <<dockerVars, dbVars, startVars, stopVars, faults>>

\* mark_session_dead, on the row as it is by now.
ProxyMark(p) ==
    /\ ppc[p] = "mark"
    /\ IF sess[psess[p]] = "running"
       THEN /\ cont' = [cont EXCEPT ![psess[p]] = "gone"]
            /\ ProxyGoes(p, "markcommit")
            /\ UNCHANGED psess
       ELSE ProxyIdle(p) /\ UNCHANGED cont
    /\ UNCHANGED <<nb, dbVars, startVars, stopVars, faults>>

ProxyMarkCommit(p) ==
    /\ ppc[p] = "markcommit"
    /\ sess' = [sess EXCEPT ![psess[p]] = "stopped"]
    /\ Touch(psess[p])
    /\ ProxyIdle(p)
    /\ UNCHANGED <<dockerVars, startVars, stopVars, faults>>

---------------------------------------------------------------------------
(* stop_session, for DELETE kernel and for the reaper.                     *)

StopList(n) ==
    /\ at["user"] = "idle"
    /\ todo["user"] = {}
    /\ RunningOf(n) # {}
    /\ todo' = [todo EXCEPT !["user"] = RunningOf(n)]
    /\ UNCHANGED <<dockerVars, dbVars, startVars, proxyVars, at, cur, faults>>

\* Mutation: the reaper looks for sessions in use.
ReapListsBusy ==
    /\ at["reaper"] = "idle"
    /\ todo["reaper"] = {}
    /\ \E c \in Containers : sess[c] = "running" /\ ~idle[c]
    /\ todo' = [todo EXCEPT !["reaper"] = {c \in Containers : sess[c] = "running" /\ ~idle[c]}]
    /\ UNCHANGED <<dockerVars, dbVars, startVars, proxyVars, at, cur, faults>>

ReapList ==
    /\ at["reaper"] = "idle"
    /\ todo["reaper"] = {}
    /\ \E c \in Containers : sess[c] = "running" /\ idle[c]
    /\ todo' = [todo EXCEPT !["reaper"] = {c \in Containers : sess[c] = "running" /\ idle[c]}]
    /\ UNCHANGED <<dockerVars, dbVars, startVars, proxyVars, at, cur, faults>>

\* container.stop and container.remove for the next session of the list; an
\* unknown container is passed over.
StopContainer(s) ==
    /\ at[s] = "idle"
    /\ \E c \in todo[s] :
         /\ todo' = [todo EXCEPT ![s] = @ \ {c}]
         /\ cur' = [cur EXCEPT ![s] = c]
         /\ cont' = [cont EXCEPT ![c] = "gone"]
    /\ at' = [at EXCEPT ![s] = "commit"]
    /\ UNCHANGED <<nb, dbVars, startVars, proxyVars, faults>>

\* Mutation: any Docker error is taken for an unknown container.
StopFailureIgnored(s) ==
    /\ at[s] = "idle"
    /\ faults < MaxFaults
    /\ faults' = faults + 1
    /\ \E c \in todo[s] :
         /\ todo' = [todo EXCEPT ![s] = @ \ {c}]
         /\ cur' = [cur EXCEPT ![s] = c]
    /\ at' = [at EXCEPT ![s] = "commit"]
    /\ UNCHANGED <<dockerVars, dbVars, startVars, proxyVars>>

\* Docker raises, before the stop or between it and the removal.  Nothing
\* catches it: the rest of the list is dropped.
StopFails(s) ==
    /\ at[s] = "idle"
    /\ faults < MaxFaults
    /\ faults' = faults + 1
    /\ \E c \in todo[s] :
         \/ UNCHANGED cont
         \/ cont[c] # "gone" /\ cont' = [cont EXCEPT ![c] = "down"]
    /\ todo' = [todo EXCEPT ![s] = {}]
    /\ UNCHANGED <<nb, dbVars, startVars, proxyVars, at, cur>>

StopCommit(s) ==
    /\ at[s] = "commit"
    /\ sess' = [sess EXCEPT ![cur[s]] = "stopped"]
    /\ at' = [at EXCEPT ![s] = "idle"]
    /\ cur' = [cur EXCEPT ![s] = NoContainer]
    /\ Touch(cur[s])
    /\ UNCHANGED <<dockerVars, startVars, proxyVars, todo, faults>>

---------------------------------------------------------------------------
(* The environment.                                                        *)

GatewayAnswers(c) ==
    /\ cont[c] = "booting"
    /\ cont' = [cont EXCEPT ![c] = "serving"]
    /\ UNCHANGED <<nb, dbVars, startVars, proxyVars, stopVars, faults>>

\* The container exits by itself: out of memory, killed, host restarted.
ContainerDies(c) ==
    /\ cont[c] \in {"booting", "serving"}
    /\ cont' = [cont EXCEPT ![c] = "down"]
    /\ UNCHANGED <<nb, dbVars, startVars, proxyVars, stopVars, faults>>

\* The idle timeout passes since last_activity was written.
TimePasses(c) ==
    /\ sess[c] = "running"
    /\ ~idle[c]
    /\ idle' = [idle EXCEPT ![c] = TRUE]
    /\ UNCHANGED <<dockerVars, sess, startVars, proxyVars, stopVars, faults>>

ApiCrash ==
    /\ faults < MaxFaults
    /\ faults' = faults + 1
    /\ spc' = [r \in Starts |-> "idle"]
    /\ snb' = [r \in Starts |-> NoNotebook]
    /\ scont' = [r \in Starts |-> NoContainer]
    /\ ppc' = [p \in Proxies |-> "idle"]
    /\ psess' = [p \in Proxies |-> NoContainer]
    /\ at' = [s \in Stoppers |-> "idle"]
    /\ todo' = [s \in Stoppers |-> {}]
    /\ cur' = [s \in Stoppers |-> NoContainer]
    /\ UNCHANGED <<dockerVars, dbVars>>

Start(r) ==
    \/ \E n \in Notebooks : StartRead(r, n)
    \/ StartTouch(r) \/ StartRun(r) \/ StartTimesOut(r) \/ StartInsert(r)

Mark(p) == ProxyConnect(p) \/ ProxyMark(p) \/ ProxyMarkCommit(p)

Proxy(p) ==
    \/ \E c \in Containers : ProxyOpen(p, c)
    \/ Mark(p) \/ ProxyEnds(p)

Stop(s) == StopContainer(s) \/ StopCommit(s)

Next ==
    \/ \E r \in Starts : Start(r)
    \/ \E p \in Proxies : Proxy(p)
    \/ \E n \in Notebooks : StopList(n)
    \/ ReapList
    \/ \E s \in Stoppers : Stop(s) \/ StopFails(s)
    \/ \E c \in Containers : GatewayAnswers(c) \/ ContainerDies(c) \/ TimePasses(c)
    \/ ApiCrash

Spec == Init /\ [][Next]_vars

\* The scheduler runs the reaper every minute; handlers that are under way go on.
Fairness ==
    /\ WF_vars(ReapList)
    /\ \A s \in Stoppers : WF_vars(Stop(s))
    /\ \A p \in Proxies : WF_vars(Mark(p))

FairSpec == Spec /\ Fairness

---------------------------------------------------------------------------
(* What must hold.                                                         *)

\* A session is recorded as stopped only once its container is gone, whichever
\* of the three paths records it, with Docker errors and crashes in between:
\* nothing that still takes memory is forgotten by the reaper.
StoppedIsGone ==
    \A c \in Containers : sess[c] = "stopped" => cont[c] = "gone"

\* A session that ended is never handed back to life: a start that found it
\* before it ended only touches it (kernel_service.py:38).
StoppedForGood ==
    [][\A c \in Containers : sess[c] = "stopped" => sess'[c] = "stopped"]_vars

\* README.md:186, "Close the tab and the kernel is reaped after 30 minutes
\* idle": an idle session is stopped, or was used again, though a sweep may have
\* been cut short.
IdleIsReaped ==
    \A c \in Containers :
        sess[c] = "running" /\ idle[c] ~> sess[c] = "stopped" \/ ~idle[c]

\* kernel_service.py:178, "Marks it stopped so the next connect attempt spins up
\* a fresh container": a proxy that finds its container dead comes to commit that,
\* unless somebody else has, once crashes are over.
DeadIsMarked ==
    \A p \in Proxies :
        ppc[p] = "connect" /\ cont[psess[p]] \in Dead /\ faults = MaxFaults
            ~> ppc[p] = "markcommit" \/ sess[psess[p]] = "stopped"
=============================================================================
