---------------------------- MODULE KernelProofs ----------------------------
(***************************************************************************)
(* KernelSessions for any number of notebooks, containers, requests and    *)
(* WebSockets: a session recorded as stopped has lost its container, and   *)
(* stays stopped.                                                          *)
(***************************************************************************)
EXTENDS KernelSessions, TLAPS

\* Whoever is about to record the end of a session has removed its container,
\* and a removed container does not come back.
KernelInv ==
    /\ TypeOK
    /\ StoppedIsGone
    /\ \A s \in Stoppers : at[s] = "commit" => cont[cur[s]] = "gone"
    /\ \A p \in Proxies : ppc[p] = "markcommit" => cont[psess[p]] = "gone"

LEMMA InitHolds == Init => KernelInv
<1> SUFFICES ASSUME Init PROVE KernelInv
  OBVIOUS
<1>1. NoNotebook \in Notebooks /\ NoContainer \in Containers
  BY ContainersAssumption DEF NoNotebook, NoContainer
<1> QED
  BY <1>1, MaxFaultsAssumption DEF Init, KernelInv, TypeOK, StoppedIsGone

LEMMA TypePreserved == TypeOK /\ [Next]_vars => TypeOK'
<1> SUFFICES ASSUME TypeOK, [Next]_vars PROVE TypeOK'
  OBVIOUS
<1>0. NoNotebook \in Notebooks /\ NoContainer \in Containers
  BY ContainersAssumption DEF NoNotebook, NoContainer
<1> USE MaxFaultsAssumption DEF TypeOK, Dead, dockerVars, dbVars, startVars, proxyVars, stopVars
<1>1. ASSUME NEW r \in Starts, Start(r) PROVE TypeOK'
  <2>1. ASSUME NEW n \in Notebooks, StartRead(r, n) PROVE TypeOK'
    BY <2>1 DEF StartRead, RunningOf
  <2>2. CASE StartTouch(r) \/ StartTimesOut(r)
    <3>1. CASE StartTouch(r)
      BY <1>0, <3>1 DEF StartTouch, StartIdle, Touch
    <3>2. CASE StartTimesOut(r)
      BY <1>0, <3>2 DEF StartTimesOut, StartIdle
    <3> QED
      BY <2>2, <3>1, <3>2
  <2>3. CASE StartInsert(r)
    BY <1>0, <2>3 DEF StartInsert, StartIdle, Touch
  <2>4. CASE StartRun(r)
    BY <1>0, <2>4 DEF StartRun, StartIdle
  <2> QED
    BY <1>1, <2>1, <2>2, <2>3, <2>4 DEF Start
<1>2. ASSUME NEW p \in Proxies, Proxy(p) PROVE TypeOK'
  <2>1. ASSUME NEW c \in Containers, ProxyOpen(p, c) PROVE TypeOK'
    BY <2>1 DEF ProxyOpen, ProxyGoes, Touch
  <2>2. CASE ProxyConnect(p) \/ ProxyEnds(p)
    BY <1>0, <2>2 DEF ProxyConnect, ProxyEnds, ProxyGoes, ProxyIdle
  <2>3. CASE ProxyMark(p)
    BY <1>0, <2>3 DEF ProxyMark, ProxyGoes, ProxyIdle
  <2>4. CASE ProxyMarkCommit(p)
    BY <1>0, <2>4 DEF ProxyMarkCommit, ProxyGoes, ProxyIdle, Touch
  <2> QED
    BY <1>2, <2>1, <2>2, <2>3, <2>4 DEF Proxy, Mark
<1>3. ASSUME NEW n \in Notebooks, StopList(n) \/ ReapList PROVE TypeOK'
  BY <1>3 DEF StopList, ReapList, RunningOf, Stoppers
<1>4. ASSUME NEW s \in Stoppers, Stop(s) PROVE TypeOK'
  <2>1. CASE StopContainer(s)
    BY <1>0, <2>1 DEF StopContainer
  <2>2. CASE StopCommit(s)
    BY <1>0, <2>2 DEF StopCommit, Touch
  <2> QED
    BY <1>4, <2>1, <2>2 DEF Stop
<1>5. ASSUME NEW s \in Stoppers, StopFails(s) PROVE TypeOK'
  BY <1>5 DEF StopFails
<1>6. ASSUME NEW c \in Containers, GatewayAnswers(c) \/ ContainerDies(c) \/ TimePasses(c)
      PROVE TypeOK'
  BY <1>6 DEF GatewayAnswers, ContainerDies, TimePasses
<1>7. CASE ApiCrash
  BY <1>0, <1>7 DEF ApiCrash
<1>8. CASE UNCHANGED vars
  BY <1>8 DEF vars
<1> QED
  BY <1>1, <1>2, <1>3, <1>4, <1>5, <1>6, <1>7, <1>8, ContainersAssumption DEF Next

\* Nothing restarts or re-creates a removed container.
LEMMA GoneStaysGone ==
    TypeOK /\ [Next]_vars =>
        \A c \in Containers : cont[c] = "gone" => cont'[c] = "gone"
<1> SUFFICES ASSUME TypeOK, [Next]_vars, NEW c \in Containers, cont[c] = "gone"
             PROVE  cont'[c] = "gone"
  OBVIOUS
<1> USE DEF TypeOK, dockerVars
<1>1. CASE \E r \in Starts : Start(r)
  BY <1>1 DEF Start, StartRead, StartTouch, StartRun, StartTimesOut, StartInsert
<1>2. CASE \E p \in Proxies : Proxy(p)
  BY <1>2 DEF Proxy, Mark, ProxyOpen, ProxyConnect, ProxyEnds, ProxyMark, ProxyMarkCommit
<1>3. CASE (\E n \in Notebooks : StopList(n)) \/ ReapList
  BY <1>3 DEF StopList, ReapList
<1>4. CASE \E s \in Stoppers : Stop(s) \/ StopFails(s)
  BY <1>4 DEF Stop, StopContainer, StopCommit, StopFails
<1>5. CASE \E d \in Containers : GatewayAnswers(d) \/ ContainerDies(d) \/ TimePasses(d)
  BY <1>5 DEF GatewayAnswers, ContainerDies, TimePasses
<1>6. CASE ApiCrash \/ UNCHANGED vars
  BY <1>6 DEF ApiCrash, vars
<1> QED
  BY <1>1, <1>2, <1>3, <1>4, <1>5, <1>6 DEF Next

\* A step that records an end finds the container gone.
LEMMA StoppedPreserved == KernelInv /\ [Next]_vars => StoppedIsGone'
<1> SUFFICES ASSUME KernelInv, [Next]_vars, NEW c \in Containers, sess'[c] = "stopped"
             PROVE  cont'[c] = "gone"
  BY DEF StoppedIsGone
<1>0. TypeOK /\ StoppedIsGone
  BY DEF KernelInv
<1> SUFFICES ASSUME sess[c] # "stopped" PROVE cont[c] = "gone"
  BY <1>0, GoneStaysGone DEF StoppedIsGone
<1>1. (\E s \in Stoppers : StopCommit(s) /\ cur[s] = c)
      \/ (\E p \in Proxies : ProxyMarkCommit(p) /\ psess[p] = c)
  <2> USE DEF TypeOK, dbVars
  <2>1. CASE \E r \in Starts : Start(r)
    BY <1>0, <2>1 DEF Start, StartRead, StartTouch, StartRun, StartTimesOut, StartInsert
  <2>2. ASSUME NEW p \in Proxies, Proxy(p) PROVE ProxyMarkCommit(p) /\ psess[p] = c
    BY <1>0, <2>2 DEF Proxy, Mark, ProxyOpen, ProxyConnect, ProxyEnds, ProxyMark, ProxyMarkCommit
  <2>3. CASE (\E n \in Notebooks : StopList(n)) \/ ReapList
    BY <1>0, <2>3 DEF StopList, ReapList
  <2>4. ASSUME NEW s \in Stoppers, Stop(s) \/ StopFails(s) PROVE StopCommit(s) /\ cur[s] = c
    BY <1>0, <2>4 DEF Stop, StopContainer, StopCommit, StopFails
  <2>5. CASE \E d \in Containers : GatewayAnswers(d) \/ ContainerDies(d) \/ TimePasses(d)
    BY <1>0, <2>5 DEF GatewayAnswers, ContainerDies, TimePasses
  <2>6. CASE ApiCrash \/ UNCHANGED vars
    BY <1>0, <2>6 DEF ApiCrash, vars
  <2> QED
    BY <2>1, <2>2, <2>3, <2>4, <2>5, <2>6 DEF Next
<1> QED
  BY <1>1 DEF KernelInv, StopCommit, ProxyMarkCommit

\* A stopper reaches its commit by removing the container first.
LEMMA StoppersPreserved ==
    KernelInv /\ [Next]_vars =>
        \A s \in Stoppers : at'[s] = "commit" => cont'[cur'[s]] = "gone"
<1> SUFFICES ASSUME KernelInv, [Next]_vars, NEW s \in Stoppers, at'[s] = "commit"
             PROVE  cont'[cur'[s]] = "gone"
  OBVIOUS
<1>0. TypeOK /\ (at[s] = "commit" => cont[cur[s]] = "gone") /\ cur[s] \in Containers
  BY DEF KernelInv, TypeOK
<1>1. CASE at'[s] = at[s] /\ cur'[s] = cur[s]
  BY <1>0, <1>1, GoneStaysGone
<1>2. ASSUME NEW t \in Stoppers, StopContainer(t) PROVE cont'[cur'[s]] = "gone"
  <2>1. PICK c \in Containers : cur' = [cur EXCEPT ![t] = c] /\ cont' = [cont EXCEPT ![c] = "gone"]
    BY <1>0, <1>2 DEF StopContainer, TypeOK
  <2>2. CASE t = s
    BY <1>0, <2>1, <2>2 DEF TypeOK
  <2>3. CASE t # s
    BY <1>0, <1>1, <1>2, <2>1, <2>3 DEF StopContainer, TypeOK
  <2> QED
    BY <2>2, <2>3
<1>3. ASSUME NEW t \in Stoppers, StopCommit(t) PROVE cont'[cur'[s]] = "gone"
  BY <1>0, <1>1, <1>3 DEF StopCommit, TypeOK
<1>4. CASE ApiCrash
  BY <1>4 DEF ApiCrash
<1>5. CASE UNCHANGED <<at, cur>>
  BY <1>1, <1>5
<1> QED
  <2> USE DEF stopVars
  <2>1. CASE \E r \in Starts : Start(r)
    BY <1>5, <2>1 DEF Start, StartRead, StartTouch, StartRun, StartTimesOut, StartInsert
  <2>2. CASE \E p \in Proxies : Proxy(p)
    BY <1>5, <2>2 DEF Proxy, Mark, ProxyOpen, ProxyConnect, ProxyEnds, ProxyMark, ProxyMarkCommit
  <2>3. CASE (\E n \in Notebooks : StopList(n)) \/ ReapList
    BY <1>5, <2>3 DEF StopList, ReapList
  <2>4. ASSUME NEW t \in Stoppers, Stop(t) \/ StopFails(t) PROVE cont'[cur'[s]] = "gone"
    BY <1>2, <1>3, <1>5, <2>4 DEF Stop, StopFails
  <2>5. CASE \E d \in Containers : GatewayAnswers(d) \/ ContainerDies(d) \/ TimePasses(d)
    BY <1>5, <2>5 DEF GatewayAnswers, ContainerDies, TimePasses
  <2>6. CASE UNCHANGED vars
    BY <1>5, <2>6 DEF vars
  <2> QED
    BY <1>4, <2>1, <2>2, <2>3, <2>4, <2>5, <2>6 DEF Next

\* So does a proxy.
LEMMA ProxiesPreserved ==
    KernelInv /\ [Next]_vars =>
        \A p \in Proxies : ppc'[p] = "markcommit" => cont'[psess'[p]] = "gone"
<1> SUFFICES ASSUME KernelInv, [Next]_vars, NEW p \in Proxies, ppc'[p] = "markcommit"
             PROVE  cont'[psess'[p]] = "gone"
  OBVIOUS
<1>0. /\ TypeOK
      /\ ppc[p] = "markcommit" => cont[psess[p]] = "gone"
      /\ psess[p] \in Containers
  BY DEF KernelInv, TypeOK
<1>1. CASE ppc'[p] = ppc[p] /\ psess'[p] = psess[p]
  BY <1>0, <1>1, GoneStaysGone
<1>2. CASE UNCHANGED <<ppc, psess>>
  BY <1>1, <1>2
<1>3. ASSUME NEW q \in Proxies, Proxy(q) PROVE cont'[psess'[p]] = "gone"
  <2>1. CASE q # p
    <3>1. ppc'[p] = ppc[p] /\ psess'[p] = psess[p]
      BY <1>0, <1>3, <2>1
      DEF Proxy, Mark, ProxyOpen, ProxyConnect, ProxyEnds, ProxyMark, ProxyMarkCommit,
          ProxyGoes, ProxyIdle, TypeOK
    <3> QED
      BY <1>1, <3>1
  <2>2. CASE q = p /\ ProxyMark(p)
    BY <1>0, <2>2 DEF ProxyMark, ProxyGoes, ProxyIdle, TypeOK
  <2>3. CASE q = p /\ ~ProxyMark(p)
    BY <1>0, <1>3, <2>3
    DEF Proxy, Mark, ProxyOpen, ProxyConnect, ProxyEnds, ProxyMarkCommit,
        ProxyGoes, ProxyIdle, TypeOK
  <2> QED
    BY <2>1, <2>2, <2>3
<1>4. CASE ApiCrash
  BY <1>4 DEF ApiCrash
<1> QED
  <2> USE DEF proxyVars
  <2>1. CASE \E r \in Starts : Start(r)
    BY <1>2, <2>1 DEF Start, StartRead, StartTouch, StartRun, StartTimesOut, StartInsert
  <2>2. CASE (\E n \in Notebooks : StopList(n)) \/ ReapList
    BY <1>2, <2>2 DEF StopList, ReapList
  <2>3. CASE \E s \in Stoppers : Stop(s) \/ StopFails(s)
    BY <1>2, <2>3 DEF Stop, StopContainer, StopCommit, StopFails
  <2>4. CASE \E d \in Containers : GatewayAnswers(d) \/ ContainerDies(d) \/ TimePasses(d)
    BY <1>2, <2>4 DEF GatewayAnswers, ContainerDies, TimePasses
  <2>5. CASE UNCHANGED vars
    BY <1>2, <2>5 DEF vars
  <2> QED
    BY <1>3, <1>4, <2>1, <2>2, <2>3, <2>4, <2>5 DEF Next

LEMMA KernelInvHolds == Spec => []KernelInv
<1>1. KernelInv /\ [Next]_vars => KernelInv'
  BY TypePreserved, StoppedPreserved, StoppersPreserved, ProxiesPreserved DEF KernelInv
<1> QED
  BY InitHolds, <1>1, PTL DEF Spec

\* Type correctness: a session has the states the code writes, and whoever is in
\* the middle of starting, ending or proxying one holds a container it may name.
THEOREM KernelTypeCorrect == Spec => []TypeOK
<1>1. KernelInv => TypeOK
  BY DEF KernelInv
<1> QED
  BY <1>1, KernelInvHolds, PTL

\* A session is recorded as stopped only once its container is gone
\* (kernel_service.py:153-155, 191-193): whichever of the three paths records it,
\* and however many of them work on the same session.
THEOREM NothingForgotten == Spec => []StoppedIsGone
<1>1. KernelInv => StoppedIsGone
  BY DEF KernelInv
<1> QED
  BY <1>1, KernelInvHolds, PTL

\* A start that found a session before it ended cannot hand it back to life
\* (kernel_service.py:38), and a start that created it cannot either: it has
\* heard the container answer (kernel_service.py:112-126).
THEOREM StoppedStays == Spec => StoppedForGood
<1> DEFINE Final == \A c \in Containers : sess[c] = "stopped" => sess'[c] = "stopped"
<1>1. KernelInv /\ [Next]_vars => Final
  <2> SUFFICES ASSUME KernelInv, [Next]_vars, NEW c \in Containers, sess[c] = "stopped"
               PROVE  sess'[c] = "stopped"
    OBVIOUS
  <2>0. TypeOK /\ cont[c] = "gone"
    BY DEF KernelInv, StoppedIsGone
  <2> USE DEF TypeOK, dbVars
  <2>1. CASE \E r \in Starts : Start(r)
    BY <2>0, <2>1 DEF Start, StartRead, StartTouch, StartRun, StartTimesOut, StartInsert
  <2>2. CASE \E p \in Proxies : Proxy(p)
    BY <2>0, <2>2 DEF Proxy, Mark, ProxyOpen, ProxyConnect, ProxyEnds, ProxyMark, ProxyMarkCommit
  <2>3. CASE (\E n \in Notebooks : StopList(n)) \/ ReapList
    BY <2>0, <2>3 DEF StopList, ReapList
  <2>4. CASE \E s \in Stoppers : Stop(s) \/ StopFails(s)
    BY <2>0, <2>4 DEF Stop, StopContainer, StopCommit, StopFails
  <2>5. CASE \E d \in Containers : GatewayAnswers(d) \/ ContainerDies(d) \/ TimePasses(d)
    BY <2>0, <2>5 DEF GatewayAnswers, ContainerDies, TimePasses
  <2>6. CASE ApiCrash \/ UNCHANGED vars
    BY <2>0, <2>6 DEF ApiCrash, vars
  <2> QED
    BY <2>1, <2>2, <2>3, <2>4, <2>5, <2>6 DEF Next
<1>2. KernelInv /\ [Next]_vars => [Final]_vars
  BY <1>1
<1> QED
  BY <1>2, KernelInvHolds, PTL DEF Spec, StoppedForGood
=============================================================================
