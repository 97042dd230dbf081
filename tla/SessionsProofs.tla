--------------------------- MODULE SessionsProofs ---------------------------
(***************************************************************************)
(* Proofs about Sessions: for any appliances, connections and models.      *)
(***************************************************************************)
EXTENDS Sessions, TLAPS



(***************************************************************************)
(* What makes the safety invariants inductive: which protocol a connection *)
(* and its appliance belong to, and how the life of a Device, of its       *)
(* socket and of its handler are tied to each other.                       *)
(***************************************************************************)
SameProtocol ==
  \A c \in Conns : did[c] # NoId => (c \in T1Conns <=> did[c] \in T1Ids)

DeviceLife ==
  \A c \in Conns :
    /\ device[c] # "none" => did[c] # NoId
    /\ sock[c] = "closed" => device[c] # "open"
    /\ sock[c] = "idle" => did[c] = NoId
    /\ c \in T2Conns => sock[c] # "closing" /\ (device[c] = "none" => did[c] = NoId)

HandlerLife ==
  /\ \A c \in Conns : handlers[c] # "none" => device[c] # "none"
  /\ \A i \in Ids : LET c == haDevices[i] IN
       c # NoConn => did[c] = i /\ handlers[c] # "none"

IInv ==
  /\ TypeOK
  /\ AcceptorAgreesWithManager
  /\ RegisteredIsConnected
  /\ OneLiveHandler
  /\ SameProtocol
  /\ DeviceLife
  /\ HandlerLife

-----------------------------------------------------------------------------
(* The inductive invariant.                                                *)

USE SessionsAssumption DEF Ids, Conns, Models, NoModel

LEMMA InitInv == Init => IInv
BY DEF Init, IInv, TypeOK, AcceptorAgreesWithManager,
       RegisteredIsConnected, OneLiveHandler, SameProtocol, DeviceLife, HandlerLife

(***************************************************************************)
(* A step that leaves the devices, the maps and the handlers alone, and    *)
(* moves sockets only from idle to open or, in ThinQ1, to closing.         *)
(***************************************************************************)
LEMMA QuietStep ==
  ASSUME IInv, TypeOK',
         UNCHANGED <<did, device, byId, allDevices, haDevices, handlers>>,
         \A c \in Conns : \/ sock'[c] = sock[c]
                          \/ sock[c] = "idle" /\ sock'[c] = "open"
                          \/ c \in T1Conns /\ sock[c] = "open" /\ sock'[c] = "closing"
  PROVE  IInv'
<1> USE DEF IInv, TypeOK
<1>1. AcceptorAgreesWithManager'
  BY DEF AcceptorAgreesWithManager
<1>2. RegisteredIsConnected'
  BY DEF RegisteredIsConnected, DeviceLife
<1>3. OneLiveHandler' /\ SameProtocol' /\ HandlerLife'
  BY DEF OneLiveHandler, SameProtocol, HandlerLife
<1>4. DeviceLife'
  BY DEF DeviceLife
<1> QED BY <1>1, <1>2, <1>3, <1>4

\* What newDevice leaves behind is well typed, from well typed arguments.
LEMMA HaNewDeviceType ==
  ASSUME config \subseteq Conns,
         NEW hd \in [Ids -> Conns \cup {NoConn}],
         NEW hs \in [Conns -> {"none", "live", "dropped"}],
         NEW av \in [Ids -> {"none", "online", "offline"}],
         NEW c \in Conns, NEW i \in Ids, NEW model \in Models,
         HaNewDevice(hd, hs, av, c, i, model)
  PROVE  /\ haDevices' \in [Ids -> Conns \cup {NoConn}]
         /\ handlers' \in [Conns -> {"none", "live", "dropped"}]
         /\ config' \subseteq Conns
         /\ avail' \in [Ids -> {"none", "online", "offline"}]
BY DEF TypeOK, HaNewDevice, HandlersAfterReplace, Drop, Offline, PublishConfig

LEMMA AfterCloseType ==
  ASSUME TypeOK, NEW c \in Conns, NEW i \in Ids
  PROVE  /\ DevicesAfterClose(c, i) \in [Ids -> Conns \cup {NoConn}]
         /\ HandlersAfterClose(c, i) \in [Conns -> {"none", "live", "dropped"}]
         /\ AvailAfterClose(c, i) \in [Ids -> {"none", "online", "offline"}]
         /\ ManagerClose(allDevices, c, i) \in [Ids -> Conns \cup {NoConn}]
BY DEF TypeOK, DevicesAfterClose, HandlersAfterClose, AvailAfterClose, Drop,
       Offline, ServesStill, ManagerClose

\* A device whose connection ends takes its registrations with it.
LEMMA CloseStep ==
  ASSUME IInv, TypeOK', NEW c \in Conns,
         device[c] = "open",
         sock' = [sock EXCEPT ![c] = "closed"],
         device' = [device EXCEPT ![c] = "closed"],
         byId' = ManagerClose(allDevices, c, did[c]),
         allDevices' = ManagerClose(allDevices, c, did[c]),
         haDevices' = DevicesAfterClose(c, did[c]),
         handlers' = HandlersAfterClose(c, did[c]),
         UNCHANGED did
  PROVE  IInv'
<1> USE DEF IInv, TypeOK
<1>0. did[c] \in Ids
  BY DEF DeviceLife
<1>1. AcceptorAgreesWithManager'
  BY DEF AcceptorAgreesWithManager
<1>2. RegisteredIsConnected'
  BY <1>0 DEF RegisteredIsConnected, ManagerClose
<1>3. OneLiveHandler'
  BY <1>0 DEF OneLiveHandler, RegisteredIsConnected, HandlersAfterClose, DevicesAfterClose,
       ServesStill, Drop, ManagerClose
<1>4. SameProtocol'
  BY DEF SameProtocol
<1>5. DeviceLife'
  BY DEF DeviceLife
<1>6. HandlerLife'
  BY <1>0 DEF HandlerLife, HandlersAfterClose, DevicesAfterClose, ServesStill, Drop
<1> QED BY <1>1, <1>2, <1>3, <1>4, <1>5, <1>6

LEMMA T1AcceptStep ==
  ASSUME IInv, TypeOK', NEW c \in T1Conns, NEW i \in T1Ids, T1Accept(c, i)
  PROVE  IInv'
<1> USE DEF IInv, TypeOK
<1> DEFINE old == byId[i]
<1>1. /\ did' = [did EXCEPT ![c] = i]
      /\ sock' = IF old # NoConn THEN [sock EXCEPT ![old] = "closing"] ELSE sock
      /\ byId' = [byId EXCEPT ![i] = c]
      /\ device' = [device EXCEPT ![c] = "open"]
      /\ allDevices' = [allDevices EXCEPT ![i] = c]
      /\ sock[c] = "open" /\ did[c] = NoId
      /\ HaNewDevice(haDevices, handlers, avail, c, i, deviceMeta[i])
  BY DEF T1Accept
<1>2. device[c] = "none" /\ handlers[c] = "none" /\ \A j \in Ids : allDevices[j] # c /\ haDevices[j] # c
  BY <1>1 DEF DeviceLife, HandlerLife, RegisteredIsConnected
<1>3. old = allDevices[i] /\ (old # NoConn => /\ old \in T1Conns /\ old # c
                                             /\ did[old] = i /\ device[old] = "open")
  BY <1>2 DEF AcceptorAgreesWithManager, RegisteredIsConnected, SameProtocol
<1>4. AcceptorAgreesWithManager'
  BY <1>1 DEF AcceptorAgreesWithManager
<1>5. RegisteredIsConnected'
  BY <1>1, <1>2, <1>3 DEF RegisteredIsConnected
<1>6. OneLiveHandler' /\ HandlerLife'
  <2>1. /\ haDevices' = IF deviceMeta[i] = "unhandled" THEN haDevices
                                                      ELSE [haDevices EXCEPT ![i] = c]
        /\ handlers' = IF deviceMeta[i] = "unhandled"
                       THEN HandlersAfterReplace(handlers, haDevices[i])
                       ELSE [HandlersAfterReplace(handlers, haDevices[i]) EXCEPT ![c] = "live"]
    BY <1>1 DEF HaNewDevice
  <2>2. \A x \in Conns : handlers[x] # "none" => did[x] \in Ids
    BY DEF HandlerLife, DeviceLife
  <2>3. OneLiveHandler'
    BY <1>1, <1>2, <2>1, <2>2 DEF OneLiveHandler, HandlerLife, RegisteredIsConnected,
       HandlersAfterReplace, Drop
  <2>4. HandlerLife'
    BY <1>1, <1>2, <2>1 DEF HandlerLife, HandlersAfterReplace, Drop
  <2> QED BY <2>3, <2>4
<1>7. SameProtocol' /\ DeviceLife'
  BY <1>1, <1>2, <1>3 DEF SameProtocol, DeviceLife
<1> QED BY <1>4, <1>5, <1>6, <1>7

LEMMA T2CompleteStep ==
  ASSUME IInv, TypeOK', NEW c \in T2Conns, NEW i \in T2Ids, T2CompleteProvisioning(c, i)
  PROVE  IInv'
<1> USE DEF IInv, TypeOK
<1> DEFINE old == byId[i]
           hd == IF old # NoConn THEN DevicesAfterClose(old, i) ELSE haDevices
           hs == IF old # NoConn THEN HandlersAfterClose(old, i) ELSE handlers
           av == IF old # NoConn THEN AvailAfterClose(old, i) ELSE avail
<1>1. /\ did' = [did EXCEPT ![c] = i]
      /\ sock' = IF old # NoConn THEN [sock EXCEPT ![old] = "closed"] ELSE sock
      /\ byId' = [byId EXCEPT ![i] = c]
      /\ device' = IF old # NoConn THEN [device EXCEPT ![old] = "closed", ![c] = "open"]
                                   ELSE [device EXCEPT ![c] = "open"]
      /\ allDevices' = [allDevices EXCEPT ![i] = c]
      /\ sock[c] = "open" /\ device[c] = "none"
      /\ HaNewDevice(hd, hs, av, c, i, deployMsg[c])
  BY DEF T2CompleteProvisioning, CanComplete, T2Register, T2Forget, ManagerClose
<1>2. /\ did[c] = NoId /\ handlers[c] = "none"
      /\ \A j \in Ids : allDevices[j] # c /\ haDevices[j] # c
  BY <1>1 DEF DeviceLife, HandlerLife, RegisteredIsConnected
<1>3. old = allDevices[i] /\ (old # NoConn => /\ old \in T2Conns /\ old # c
                                             /\ did[old] = i /\ device[old] = "open"
                                             /\ sock[old] = "open")
  BY <1>2 DEF AcceptorAgreesWithManager, RegisteredIsConnected, SameProtocol, DeviceLife
<1>4. AcceptorAgreesWithManager'
  BY <1>1 DEF AcceptorAgreesWithManager
<1>5. RegisteredIsConnected'
  BY <1>1, <1>2, <1>3 DEF RegisteredIsConnected
<1>6. OneLiveHandler' /\ HandlerLife'
  <2>1. /\ haDevices' = IF deployMsg[c] = "unhandled" THEN hd ELSE [hd EXCEPT ![i] = c]
        /\ handlers' = IF deployMsg[c] = "unhandled"
                       THEN HandlersAfterReplace(hs, hd[i])
                       ELSE [HandlersAfterReplace(hs, hd[i]) EXCEPT ![c] = "live"]
    BY <1>1 DEF HaNewDevice
  <2>2. /\ hd \in [Ids -> Conns \cup {NoConn}]
        /\ \A j \in Ids : j # i => hd[j] = haDevices[j]
        /\ hd[i] = NoConn \/ hd[i] = haDevices[i]
    BY DEF DevicesAfterClose, ServesStill
  <2>3. /\ hs \in [Conns -> {"none", "live", "dropped"}]
        /\ \A x \in Conns : hs[x] = handlers[x] \/ (hs[x] = "dropped" /\ x = old /\ haDevices[i] = x)
        /\ \A x \in Conns : haDevices[i] = x => hs[x] = "dropped" \/ hd[i] = x
    BY <1>3 DEF HandlersAfterClose, DevicesAfterClose, ServesStill, Drop
  <2> HIDE DEF hd, hs
  <2>4. OneLiveHandler'
    <3>1. \A x \in Conns : handlers[x] # "none" => did[x] \in Ids
      BY DEF HandlerLife, DeviceLife
    <3>2. ASSUME NEW x \in Conns, handlers'[x] = "live"
          PROVE  allDevices'[did'[x]] = x /\ haDevices'[did'[x]] = x
      BY <1>1, <1>2, <1>3, <2>1, <2>2, <2>3, <3>1, <3>2
         DEF OneLiveHandler, HandlerLife, HandlersAfterReplace, Drop
    <3>3. ASSUME NEW x \in Conns, handlers'[x] = "dropped", NEW j \in Ids
          PROVE  allDevices'[j] # x
      BY <1>1, <1>2, <1>3, <2>1, <2>2, <2>3, <3>1, <3>3
         DEF OneLiveHandler, HandlerLife, RegisteredIsConnected, HandlersAfterReplace, Drop
    <3> QED BY <3>2, <3>3 DEF OneLiveHandler
  <2>5. HandlerLife'
    BY <1>1, <1>2, <1>3, <2>1, <2>2, <2>3 DEF HandlerLife, HandlersAfterReplace, Drop
  <2> QED BY <2>4, <2>5
<1>7. SameProtocol' /\ DeviceLife'
  BY <1>1, <1>2, <1>3 DEF SameProtocol, DeviceLife
<1> QED BY <1>4, <1>5, <1>6, <1>7

LEMMA T1ClosedStep ==
  ASSUME IInv, NEW c \in T1Conns, T1SocketClosed(c)
  PROVE  IInv'
<1> USE DEF IInv
<1>1. CASE device[c] = "open"
  <2>1. did[c] \in Ids
    BY <1>1 DEF DeviceLife, TypeOK
  <2>a. /\ DevicesAfterClose(c, did[c]) \in [Ids -> Conns \cup {NoConn}]
        /\ HandlersAfterClose(c, did[c]) \in [Conns -> {"none", "live", "dropped"}]
        /\ AvailAfterClose(c, did[c]) \in [Ids -> {"none", "online", "offline"}]
        /\ ManagerClose(allDevices, c, did[c]) \in [Ids -> Conns \cup {NoConn}]
    BY <2>1, AfterCloseType
  <2>2. TypeOK'
    BY <1>1, <2>1, <2>a DEF TypeOK, T1SocketClosed, T1Forget
  <2>3. byId' = ManagerClose(allDevices, c, did[c])
    BY <1>1 DEF T1SocketClosed, T1Forget, ManagerClose, AcceptorAgreesWithManager
  <2> QED BY <1>1, <2>2, <2>3, CloseStep DEF T1SocketClosed
<1>2. CASE device[c] # "open"
  <2>1. TypeOK'
    BY <1>2 DEF TypeOK, T1SocketClosed
  <2>2. /\ sock' = [sock EXCEPT ![c] = "closed"] /\ sock[c] # "idle"
        /\ UNCHANGED <<did, device, byId, allDevices, haDevices, handlers>>
    BY <1>2 DEF T1SocketClosed
  <2>3. RegisteredIsConnected'
    BY <1>2, <2>2 DEF RegisteredIsConnected, TypeOK
  <2>4. DeviceLife'
    BY <1>2, <2>2 DEF DeviceLife, TypeOK
  <2> QED
    BY <2>1, <2>2, <2>3, <2>4 DEF AcceptorAgreesWithManager, OneLiveHandler, SameProtocol, HandlerLife
<1> QED BY <1>1, <1>2

LEMMA T2DestroyStep ==
  ASSUME IInv, NEW c \in T2Conns, T2Destroy(c)
  PROVE  IInv'
<1> USE DEF IInv
<1>1. CASE device[c] = "open"
  <2>1. did[c] \in Ids
    BY <1>1 DEF DeviceLife, TypeOK
  <2>2. allDevices[did[c]] = c
    BY <1>1 DEF RegisteredIsConnected, T2Destroy
  <2>a. /\ DevicesAfterClose(c, did[c]) \in [Ids -> Conns \cup {NoConn}]
        /\ HandlersAfterClose(c, did[c]) \in [Conns -> {"none", "live", "dropped"}]
        /\ AvailAfterClose(c, did[c]) \in [Ids -> {"none", "online", "offline"}]
        /\ ManagerClose(allDevices, c, did[c]) \in [Ids -> Conns \cup {NoConn}]
    BY <2>1, AfterCloseType
  <2>3. TypeOK'
    BY <1>1, <2>1, <2>a DEF TypeOK, T2Destroy, T2Forget
  <2>4. byId' = ManagerClose(allDevices, c, did[c])
    BY <1>1, <2>2 DEF T2Destroy, T2Forget, ManagerClose, AcceptorAgreesWithManager
  <2> QED BY <1>1, <2>3, <2>4, CloseStep DEF T2Destroy
<1>2. CASE device[c] # "open"
  <2>1. TypeOK'
    BY <1>2 DEF TypeOK, T2Destroy
  <2>2. /\ sock' = [sock EXCEPT ![c] = "closed"] /\ sock[c] # "idle"
        /\ UNCHANGED <<did, device, byId, allDevices, haDevices, handlers>>
    BY <1>2 DEF T2Destroy
  <2>3. RegisteredIsConnected'
    BY <1>2, <2>2 DEF RegisteredIsConnected, TypeOK
  <2>4. DeviceLife'
    BY <1>2, <2>2 DEF DeviceLife, TypeOK
  <2> QED
    BY <2>1, <2>2, <2>3, <2>4 DEF AcceptorAgreesWithManager, OneLiveHandler, SameProtocol, HandlerLife
<1> QED BY <1>1, <1>2

\* A ThinQ1 connection whose model is unknown is destroyed, never announced.
LEMMA T1RefuseStep ==
  ASSUME IInv, NEW c \in T1Conns, NEW i \in T1Ids, T1Refuse(c, i)
  PROVE  IInv'
<1> USE DEF IInv
<1>0. TypeOK'
  BY DEF TypeOK, T1Refuse, haVars
<1> USE DEF TypeOK, T1Refuse, haVars
<1>1. TypeOK' /\ device[c] = "none" /\ handlers[c] = "none"
  BY <1>0 DEF DeviceLife, HandlerLife
<1>2. AcceptorAgreesWithManager'
  BY DEF AcceptorAgreesWithManager
<1>3. RegisteredIsConnected'
  BY <1>1 DEF RegisteredIsConnected
<1>4. OneLiveHandler' /\ HandlerLife'
  <2>1. \A x \in Conns : handlers[x] # "none" => x # c
    BY <1>1
  <2>2. OneLiveHandler'
    BY <2>1 DEF OneLiveHandler
  <2>3. HandlerLife'
    BY <2>1 DEF HandlerLife
  <2> QED BY <2>2, <2>3
<1>5. SameProtocol' /\ DeviceLife'
  BY <1>1 DEF SameProtocol, DeviceLife
<1> QED BY <1>1, <1>2, <1>3, <1>4, <1>5

LEMMA NextInv == IInv /\ [Next]_vars => IInv'
<1> SUFFICES ASSUME IInv, [Next]_vars PROVE IInv'
  OBVIOUS
<1> USE DEF haVars
<1>0. TypeOK
  BY DEF IInv
<1>1. ASSUME NEW c \in Conns, Connect(c) \/ Configure(c) \/ Vanish(c) PROVE IInv'
  <2>1. TypeOK'
    BY <1>0, <1>1 DEF TypeOK, Connect, Configure, Vanish, PublishConfig
  <2> QED BY <1>0, <1>1, <2>1, QuietStep DEF Connect, Configure, Vanish, TypeOK
<1>2. ASSUME NEW i \in T1Ids, NEW model \in Models, PostMeta(i, model) PROVE IInv'
  BY <1>0, <1>2, QuietStep DEF PostMeta, TypeOK
<1>3. ASSUME NEW c \in T1Conns, NEW i \in T1Ids, T1Accept(c, i) PROVE IInv'
  <2>1. deviceMeta[i] \in Models
    BY <1>0, <1>3 DEF TypeOK, T1Accept
  <2>2. /\ haDevices' \in [Ids -> Conns \cup {NoConn}]
        /\ handlers' \in [Conns -> {"none", "live", "dropped"}]
        /\ config' \subseteq Conns
        /\ avail' \in [Ids -> {"none", "online", "offline"}]
    <3>1. HaNewDevice(haDevices, handlers, avail, c, i, deviceMeta[i])
      BY <1>3 DEF T1Accept
    <3>2. /\ haDevices \in [Ids -> Conns \cup {NoConn}]
          /\ handlers \in [Conns -> {"none", "live", "dropped"}]
          /\ avail \in [Ids -> {"none", "online", "offline"}]
      BY <1>0 DEF TypeOK
    <3>3. c \in Conns /\ i \in Ids /\ config \subseteq Conns
      BY <1>0 DEF TypeOK
    <3> HIDE DEF Conns, Ids, Models
    <3> QED BY <2>1, <3>1, <3>2, <3>3, HaNewDeviceType
  <2>3. TypeOK'
    BY <1>0, <1>3, <2>2 DEF T1Accept, TypeOK
  <2> QED BY <1>3, <2>3, T1AcceptStep
<1>4. ASSUME NEW c \in T1Conns, T1IdleTimeout(c) PROVE IInv'
  BY <1>0, <1>4, QuietStep DEF T1IdleTimeout, TypeOK
<1>5. ASSUME NEW c \in T2Conns, NEW model \in Models, T2Deploy(c, model) PROVE IInv'
  BY <1>0, <1>5, QuietStep DEF T2Deploy, TypeOK
<1>6. ASSUME NEW c \in T2Conns, NEW i \in T2Ids, T2CompleteProvisioning(c, i) PROVE IInv'
  <2> DEFINE old == byId[i]
  <2>1. deployMsg[c] \in Models /\ old \in Conns \cup {NoConn}
    BY <1>0, <1>6 DEF TypeOK, T2CompleteProvisioning, CanComplete
  <2>2. /\ haDevices' \in [Ids -> Conns \cup {NoConn}]
        /\ handlers' \in [Conns -> {"none", "live", "dropped"}]
        /\ config' \subseteq Conns
        /\ avail' \in [Ids -> {"none", "online", "offline"}]
    <3>0. c \in Conns /\ i \in Ids /\ config \subseteq Conns
      BY <1>0 DEF TypeOK
    <3>1. CASE old # NoConn
      <4>1. HaNewDevice(DevicesAfterClose(old, i), HandlersAfterClose(old, i),
                        AvailAfterClose(old, i), c, i, deployMsg[c])
        BY <1>6, <3>1 DEF T2CompleteProvisioning
      <4>2. /\ DevicesAfterClose(old, i) \in [Ids -> Conns \cup {NoConn}]
            /\ HandlersAfterClose(old, i) \in [Conns -> {"none", "live", "dropped"}]
            /\ AvailAfterClose(old, i) \in [Ids -> {"none", "online", "offline"}]
        BY <1>0, <2>1, <3>1, AfterCloseType
      <4> HIDE DEF Conns, Ids, Models
      <4> QED BY <2>1, <3>0, <4>1, <4>2, HaNewDeviceType
    <3>2. CASE old = NoConn
      <4>1. HaNewDevice(haDevices, handlers, avail, c, i, deployMsg[c])
        BY <1>6, <3>2 DEF T2CompleteProvisioning
      <4>2. /\ haDevices \in [Ids -> Conns \cup {NoConn}]
            /\ handlers \in [Conns -> {"none", "live", "dropped"}]
            /\ avail \in [Ids -> {"none", "online", "offline"}]
        BY <1>0 DEF TypeOK
      <4> HIDE DEF Conns, Ids, Models
      <4> QED BY <2>1, <3>0, <4>1, <4>2, HaNewDeviceType
    <3> QED BY <3>1, <3>2
  <2>3. TypeOK'
    BY <1>0, <1>6, <2>1, <2>2, AfterCloseType
       DEF T2CompleteProvisioning, TypeOK, T2Register, T2Forget, ManagerClose
  <2> QED BY <1>6, <2>3, T2CompleteStep
<1>7. ASSUME Discovery PROVE IInv'
  BY <1>0, <1>7, QuietStep DEF Discovery, TypeOK, PublishConfig
<1>8. CASE UNCHANGED vars
  BY <1>0, <1>8, QuietStep DEF vars, TypeOK
<1> QED
  BY <1>1, <1>2, <1>3, <1>4, <1>5, <1>6, <1>7, <1>8,
     T1RefuseStep, T1ClosedStep, T2DestroyStep DEF Next

LEMMA InductiveInvariant == Spec => []IInv
BY InitInv, NextInv, PTL DEF Spec

\* Every variable keeps its type in every state of every behaviour.
THEOREM TypeCorrect == Spec => []TypeOK
BY InductiveInvariant, PTL DEF IInv

(***************************************************************************)
(* For any number of appliances and connections, the maps of the acceptors *)
(* and of the manager never disagree, an announced open connection is the  *)
(* registered one, and an appliance never has two live handlers.           *)
(***************************************************************************)
THEOREM SessionSafety ==
  Spec => [](AcceptorAgreesWithManager /\ RegisteredIsConnected /\ OneLiveHandler)
BY InductiveInvariant, PTL DEF IInv

-----------------------------------------------------------------------------
(* The acceptors and the manager implement the abstract registry.          *)

\* The registry as seen by the abstract specification, named for the proof.
registryState == [c \in Conns |-> DeviceState(c)]
registryOwner == [c \in Conns |-> IF device[c] = "none" THEN NoId ELSE did[c]]

\* The two values of a device's abstract state before and after a step.
LEMMA StateEffect ==
  ASSUME TypeOK, TypeOK', NEW c \in Conns
  PROVE  /\ device[c] = "none" <=> registryState[c] = "unborn"
         /\ device[c] = "open" <=> registryState[c] = "open"
         /\ device'[c] = device[c] => registryState'[c] = registryState[c]
         /\ device'[c] = "open" => registryState'[c] = "open"
         /\ device'[c] = "closed" => registryState'[c] = "closed"
BY DEF registryState, DeviceState, TypeOK

LEMMA InitRegistry == Init => Registry!RegistryInit
BY DEF Init, Registry!RegistryInit, DeviceState

\* A step that leaves devices and the manager's map alone is invisible.
LEMMA InvisibleStep ==
  ASSUME IInv, IInv', UNCHANGED <<device, allDevices>>,
         \A c \in Conns : device[c] # "none" => did'[c] = did[c]
  PROVE  UNCHANGED Registry!registryVars
<1>1. registryState' = registryState
  BY DEF registryState, DeviceState
<1>2. registryOwner' = registryOwner
  BY DEF registryOwner
<1> QED BY <1>1, <1>2 DEF Registry!registryVars, registryState, registryOwner

LEMMA VisibleClose ==
  ASSUME IInv, IInv', NEW c \in Conns,
         device[c] = "open",
         device' = [device EXCEPT ![c] = "closed"],
         allDevices' = ManagerClose(allDevices, c, did[c]),
         UNCHANGED did
  PROVE  Registry!Close(c)
<1>0. TypeOK /\ TypeOK' /\ RegisteredIsConnected
  BY DEF IInv
<1>1. registryState[c] = "open"
  BY <1>0, StateEffect
<1>2. registryState' = [registryState EXCEPT ![c] = "closed"]
  BY <1>0 DEF registryState, DeviceState, TypeOK
<1>3. allDevices' = [i \in Ids |-> IF allDevices[i] = c THEN NoConn ELSE allDevices[i]]
  <2>1. did[c] \in Ids
    BY <1>0 DEF IInv, DeviceLife, TypeOK
  <2>2. \A j \in Ids : allDevices[j] = c => j = did[c]
    BY <1>0 DEF RegisteredIsConnected
  <2>3. allDevices \in [Ids -> Conns \cup {NoConn}]
    BY <1>0 DEF TypeOK
  <2> QED BY <2>1, <2>2, <2>3 DEF ManagerClose
<1>4. registryOwner' = registryOwner
  BY <1>0 DEF registryOwner, TypeOK
<1> QED
  BY <1>1, <1>2, <1>3, <1>4 DEF Registry!Close, registryState, registryOwner

LEMMA VisibleAnnounce ==
  ASSUME IInv, IInv', NEW c \in Conns, NEW i \in Ids,
         device[c] = "none",
         did' = [did EXCEPT ![c] = i],
         allDevices' = [allDevices EXCEPT ![i] = c],
         \/ device' = [device EXCEPT ![c] = "open"]
         \/ /\ allDevices[i] # NoConn
            /\ device' = [device EXCEPT ![allDevices[i]] = "closed", ![c] = "open"]
  PROVE  Registry!Announce(i, c)
<1>0. TypeOK /\ TypeOK' /\ RegisteredIsConnected
  BY DEF IInv
<1>1. allDevices[i] # NoConn => /\ allDevices[i] # c /\ allDevices[i] \in Conns
                                /\ device[allDevices[i]] = "open"
  BY <1>0 DEF RegisteredIsConnected, TypeOK
<1>2. registryState[c] = "unborn"
  BY <1>0, StateEffect
<1>3. registryOwner' = [registryOwner EXCEPT ![c] = i]
  <2>1. device'[c] = "open" /\ \A x \in Conns : x # c =>
          did'[x] = did[x] /\ (device'[x] = "none" <=> device[x] = "none")
    BY <1>0, <1>1 DEF TypeOK
  <2> QED BY <1>0, <2>1 DEF registryOwner, TypeOK
<1>4. CASE device' = [device EXCEPT ![c] = "open"]
  <2>1. registryState' = [registryState EXCEPT ![c] = "open"]
    BY <1>0, <1>4 DEF registryState, DeviceState, TypeOK
  <2> QED
    BY <1>2, <1>3, <2>1 DEF Registry!Announce, registryState, registryOwner
<1>5. CASE /\ allDevices[i] # NoConn
           /\ device' = [device EXCEPT ![allDevices[i]] = "closed", ![c] = "open"]
  <2>1. registryState' = [registryState EXCEPT ![c] = "open", ![allDevices[i]] = "closed"]
    BY <1>0, <1>1, <1>5 DEF registryState, DeviceState, TypeOK
  <2> QED
    BY <1>2, <1>3, <1>5, <2>1 DEF Registry!Announce, registryState, registryOwner
<1> QED BY <1>4, <1>5

LEMMA NextRegistry ==
  IInv /\ IInv' /\ [Next]_vars => [Registry!RegistryNext]_(Registry!registryVars)
<1> SUFFICES ASSUME IInv, IInv', [Next]_vars
             PROVE  Registry!RegistryNext \/ UNCHANGED Registry!registryVars
  OBVIOUS
<1>0. TypeOK /\ DeviceLife /\ AcceptorAgreesWithManager /\ SameProtocol /\ RegisteredIsConnected
  BY DEF IInv
<1>1. ASSUME NEW c \in Conns, Connect(c) \/ Configure(c) \/ Vanish(c)
      PROVE  UNCHANGED Registry!registryVars
  BY <1>1, InvisibleStep DEF Connect, Configure, Vanish
<1>2. ASSUME NEW i \in T1Ids, NEW model \in Models, PostMeta(i, model)
      PROVE  UNCHANGED Registry!registryVars
  BY <1>2, InvisibleStep DEF PostMeta
<1>3. ASSUME NEW c \in T1Conns, NEW i \in T1Ids, T1Refuse(c, i)
      PROVE  UNCHANGED Registry!registryVars
  BY <1>0, <1>3, InvisibleStep DEF T1Refuse, DeviceLife, TypeOK
<1>4. ASSUME NEW c \in T1Conns, NEW i \in T1Ids, T1Accept(c, i)
      PROVE  Registry!Announce(i, c)
  <2>1. device[c] = "none"
    BY <1>0, <1>4 DEF T1Accept, DeviceLife, TypeOK
  <2> QED BY <1>4, <2>1, VisibleAnnounce DEF T1Accept
<1>5. ASSUME NEW c \in T1Conns, T1IdleTimeout(c)
      PROVE  UNCHANGED Registry!registryVars
  BY <1>5, InvisibleStep DEF T1IdleTimeout
<1>6. ASSUME NEW c \in T1Conns, T1SocketClosed(c)
      PROVE  Registry!Close(c) \/ UNCHANGED Registry!registryVars
  <2>1. CASE device[c] = "open"
    BY <1>6, <2>1, VisibleClose DEF T1SocketClosed
  <2>2. CASE device[c] # "open"
    BY <1>6, <2>2, InvisibleStep DEF T1SocketClosed
  <2> QED BY <2>1, <2>2
<1>7. ASSUME NEW c \in T2Conns, NEW model \in Models, T2Deploy(c, model)
      PROVE  UNCHANGED Registry!registryVars
  BY <1>7, InvisibleStep DEF T2Deploy
<1>8. ASSUME NEW c \in T2Conns, NEW i \in T2Ids, T2CompleteProvisioning(c, i)
      PROVE  Registry!Announce(i, c)
  <2>1. device[c] = "none" /\ did' = [did EXCEPT ![c] = i]
    BY <1>8 DEF T2CompleteProvisioning, CanComplete
  <2>2. byId[i] = allDevices[i]
    BY <1>0 DEF AcceptorAgreesWithManager
  <2>3. allDevices' = [allDevices EXCEPT ![i] = c]
    BY <1>0, <1>8 DEF T2CompleteProvisioning, ManagerClose, TypeOK
  <2>4. \/ device' = [device EXCEPT ![c] = "open"]
        \/ /\ allDevices[i] # NoConn
           /\ device' = [device EXCEPT ![allDevices[i]] = "closed", ![c] = "open"]
    BY <1>8, <2>2 DEF T2CompleteProvisioning
  <2>5. c \in Conns /\ i \in Ids
    OBVIOUS
  <2> QED BY <2>1, <2>3, <2>4, <2>5, VisibleAnnounce
<1>9. ASSUME NEW c \in T2Conns, T2Destroy(c)
      PROVE  Registry!Close(c) \/ UNCHANGED Registry!registryVars
  <2>1. CASE device[c] = "open"
    BY <1>9, <2>1, VisibleClose DEF T2Destroy
  <2>2. CASE device[c] # "open"
    BY <1>9, <2>2, InvisibleStep DEF T2Destroy
  <2> QED BY <2>1, <2>2
<1>10. ASSUME Discovery PROVE UNCHANGED Registry!registryVars
  BY <1>10, InvisibleStep DEF Discovery
<1>11. CASE UNCHANGED vars
  BY <1>11, InvisibleStep DEF vars
<1> QED
  BY <1>1, <1>2, <1>3, <1>4, <1>5, <1>6, <1>7, <1>8, <1>9, <1>10, <1>11
     DEF Next, Registry!RegistryNext

(***************************************************************************)
(* Every behaviour of the two acceptors and the manager is a behaviour of  *)
(* the abstract registry: only the close of the very object an appliance   *)
(* is registered under unregisters it.                                     *)
(***************************************************************************)
THEOREM RegistryImplemented == Spec => ImplementsRegistry
<1>1. Spec => []IInv
  BY InductiveInvariant
<1>2. QED
  BY <1>1, InitRegistry, NextRegistry, PTL DEF Spec, ImplementsRegistry, Registry!RegistrySpec

-----------------------------------------------------------------------------
(* What HA is told about an appliance that is served.                      *)

\* Only a handler sets a config; with ServedIsOnline this is inductive.
ConfiguredIsHandler == \A c \in config : handlers[c] # "none"

(***************************************************************************)
(* Dropping the handlers of appliance i and publishing 'offline' on its    *)
(* topic keeps ServedIsOnline for the handlers that stay live.             *)
(***************************************************************************)
LEMMA CloseAvail ==
  ASSUME IInv, ServedIsOnline, ConfiguredIsHandler,
         NEW c \in Conns, NEW i \in Ids, did[c] = i
  PROVE  \A x \in config :
           /\ HandlersAfterClose(c, i)[x] = "live" =>
                handlers[x] = "live" /\ AvailAfterClose(c, i)[did[x]] = "online"
           /\ HandlersAfterClose(c, i)[x] # "none"
<1> SUFFICES ASSUME NEW x \in config
             PROVE  /\ HandlersAfterClose(c, i)[x] = "live" =>
                         handlers[x] = "live" /\ AvailAfterClose(c, i)[did[x]] = "online"
                    /\ HandlersAfterClose(c, i)[x] # "none"
  OBVIOUS
<1>1. x \in Conns /\ TypeOK
  BY DEF IInv, TypeOK
<1>2. handlers[x] = "live" => haDevices[did[x]] = x /\ did[x] \in Ids
  BY <1>1 DEF IInv, OneLiveHandler, HandlerLife, DeviceLife, TypeOK
<1> QED
  BY <1>1, <1>2 DEF ServedIsOnline, ConfiguredIsHandler, HandlersAfterClose,
     AvailAfterClose, ServesStill, Drop, Offline, TypeOK

(***************************************************************************)
(* What newDevice needs of the map, handlers and topics it starts from:    *)
(* live configured handlers are shown online, and the one of appliance i   *)
(* is the one the map holds, so that newDevice drops it.                   *)
(***************************************************************************)
ReadyFor(i, hd, hs, av) ==
  \A x \in config :
    /\ hs[x] # "none"
    /\ hs[x] = "live" => /\ av[did[x]] = "online"
                        /\ did[x] \in Ids
                        /\ (did[x] = i => hd[i] = x)

LEMMA NewDeviceAvail ==
  ASSUME TypeOK,
         NEW hd \in [Ids -> Conns \cup {NoConn}],
         NEW hs \in [Conns -> {"none", "live", "dropped"}],
         NEW av \in [Ids -> {"none", "online", "offline"}],
         NEW c \in Conns, NEW i \in Ids, NEW model \in Models,
         HaNewDevice(hd, hs, av, c, i, model),
         c \notin config, did' = [did EXCEPT ![c] = i],
         ReadyFor(i, hd, hs, av)
  PROVE  ServedIsOnline' /\ ConfiguredIsHandler'
<1> USE DEF ReadyFor
<1>1. ASSUME NEW x \in config', handlers'[x] = "live" PROVE avail'[did'[x]] = "online"
  <2>1. CASE x = c
    BY <1>1, <2>1 DEF HaNewDevice, HandlersAfterReplace, Drop, Offline, PublishConfig, TypeOK
  <2>2. CASE x # c
    <3>1. x \in config /\ x \in Conns /\ did'[x] = did[x]
      BY <1>1, <2>2 DEF HaNewDevice, TypeOK
    <3>2. hs[x] = "live" /\ did[x] # i
      BY <1>1, <2>2, <3>1 DEF HaNewDevice, HandlersAfterReplace, Drop
    <3> QED
      BY <2>2, <3>1, <3>2 DEF HaNewDevice, Offline, PublishConfig
  <2> QED BY <2>1, <2>2
<1>2. ASSUME NEW x \in config' PROVE handlers'[x] # "none"
  BY <1>2 DEF HaNewDevice, HandlersAfterReplace, Drop, TypeOK
<1> QED BY <1>1, <1>2 DEF ServedIsOnline, ConfiguredIsHandler

LEMMA NextAvail ==
  IInv /\ IInv' /\ ServedIsOnline /\ ConfiguredIsHandler /\ [Next]_vars
    => ServedIsOnline' /\ ConfiguredIsHandler'
<1> SUFFICES ASSUME IInv, IInv', ServedIsOnline, ConfiguredIsHandler, [Next]_vars
             PROVE  ServedIsOnline' /\ ConfiguredIsHandler'
  OBVIOUS
<1> USE DEF haVars
<1>0. TypeOK /\ DeviceLife /\ HandlerLife /\ OneLiveHandler
  BY DEF IInv
<1>a. \A x \in Conns : handlers[x] # "none" => did[x] \in Ids /\ device[x] # "none"
  BY <1>0 DEF DeviceLife, HandlerLife, TypeOK
<1>b. ASSUME UNCHANGED <<did, handlers, config, avail>>
      PROVE  ServedIsOnline' /\ ConfiguredIsHandler'
  BY <1>b DEF ServedIsOnline, ConfiguredIsHandler
<1>1. ASSUME NEW c \in Conns, Connect(c) \/ Vanish(c)
      PROVE  ServedIsOnline' /\ ConfiguredIsHandler'
  BY <1>1, <1>b DEF Connect, Vanish
<1>2. ASSUME NEW c \in Conns, Configure(c)
      PROVE  ServedIsOnline' /\ ConfiguredIsHandler'
  BY <1>0, <1>a, <1>2 DEF Configure, PublishConfig, ServedIsOnline, ConfiguredIsHandler, TypeOK
<1>3. ASSUME Discovery
      PROVE  ServedIsOnline' /\ ConfiguredIsHandler'
  <2>1. \A i \in Ids : avail[i] = "online" => avail'[i] = "online"
    BY <1>0, <1>3 DEF Discovery, PublishConfig, TypeOK
  <2> QED
    BY <1>0, <1>a, <1>3, <2>1 DEF Discovery, ServedIsOnline, ConfiguredIsHandler, TypeOK
<1>4. ASSUME NEW c \in T1Conns, NEW i \in T1Ids, T1Accept(c, i)
      PROVE  ServedIsOnline' /\ ConfiguredIsHandler'
  <2>1. /\ deviceMeta[i] \in Models /\ c \notin config
        /\ did' = [did EXCEPT ![c] = i]
        /\ HaNewDevice(haDevices, handlers, avail, c, i, deviceMeta[i])
    BY <1>0, <1>4 DEF T1Accept, DeviceLife, HandlerLife, ConfiguredIsHandler, TypeOK
  <2>2. ReadyFor(i, haDevices, handlers, avail)
    BY <1>0, <1>a DEF ReadyFor, ServedIsOnline, ConfiguredIsHandler, OneLiveHandler, TypeOK
  <2>3. /\ haDevices \in [Ids -> Conns \cup {NoConn}]
        /\ handlers \in [Conns -> {"none", "live", "dropped"}]
        /\ avail \in [Ids -> {"none", "online", "offline"}]
        /\ c \in Conns /\ i \in Ids
    BY <1>0 DEF TypeOK
  <2> HIDE DEF Conns, Ids, Models
  <2> QED BY <1>0, <2>1, <2>2, <2>3, NewDeviceAvail
<1>5. ASSUME NEW c \in T2Conns, NEW i \in T2Ids, T2CompleteProvisioning(c, i)
      PROVE  ServedIsOnline' /\ ConfiguredIsHandler'
  <2> DEFINE old == byId[i]
  <2>1. /\ deployMsg[c] \in Models /\ c \notin config
        /\ did' = [did EXCEPT ![c] = i]
        /\ c \in Conns /\ i \in Ids
    BY <1>0, <1>5 DEF T2CompleteProvisioning, CanComplete, DeviceLife, HandlerLife,
       ConfiguredIsHandler, TypeOK
  <2>2. CASE old = NoConn
    <3>1. HaNewDevice(haDevices, handlers, avail, c, i, deployMsg[c])
      BY <1>5, <2>2 DEF T2CompleteProvisioning
    <3>2. ReadyFor(i, haDevices, handlers, avail)
      BY <1>0, <1>a DEF ReadyFor, ServedIsOnline, ConfiguredIsHandler, OneLiveHandler, TypeOK
    <3>3. /\ haDevices \in [Ids -> Conns \cup {NoConn}]
          /\ handlers \in [Conns -> {"none", "live", "dropped"}]
          /\ avail \in [Ids -> {"none", "online", "offline"}]
      BY <1>0 DEF TypeOK
    <3> HIDE DEF Conns, Ids, Models
    <3> QED BY <1>0, <2>1, <3>1, <3>2, <3>3, NewDeviceAvail
  <2>3. CASE old # NoConn
    <3> DEFINE hd == DevicesAfterClose(old, i)
               hs == HandlersAfterClose(old, i)
               av == AvailAfterClose(old, i)
    <3>1. HaNewDevice(hd, hs, av, c, i, deployMsg[c])
      BY <1>5, <2>3 DEF T2CompleteProvisioning
    <3>2. old \in Conns /\ did[old] = i
      BY <1>0, <2>1, <2>3 DEF IInv, AcceptorAgreesWithManager, RegisteredIsConnected, TypeOK
    <3>3. /\ hd \in [Ids -> Conns \cup {NoConn}]
          /\ hs \in [Conns -> {"none", "live", "dropped"}]
          /\ av \in [Ids -> {"none", "online", "offline"}]
      BY <1>0, <2>1, <3>2, AfterCloseType
    <3>4. \A x \in config : /\ hs[x] = "live" => handlers[x] = "live" /\ av[did[x]] = "online"
                            /\ hs[x] # "none"
      BY <3>2, <2>1, CloseAvail
    <3>5. \A x \in config : hs[x] = "live" => (did[x] = i => hd[i] = x)
      BY <1>0, <3>2, <3>4 DEF OneLiveHandler, DevicesAfterClose, HandlersAfterClose,
         ServesStill, Drop, TypeOK
    <3>6. \A x \in config : hs[x] = "live" => did[x] \in Ids
      BY <1>0, <1>a, <3>4 DEF TypeOK
    <3>7. ReadyFor(i, hd, hs, av)
      BY <3>4, <3>5, <3>6 DEF ReadyFor
    <3> HIDE DEF Conns, Ids, Models, hd, hs, av
    <3> QED BY <1>0, <2>1, <3>1, <3>3, <3>7, NewDeviceAvail
  <2> QED BY <2>2, <2>3
<1>6. ASSUME NEW c \in Conns, device[c] = "open",
             handlers' = HandlersAfterClose(c, did[c]),
             avail' = AvailAfterClose(c, did[c]),
             UNCHANGED <<did, config>>
      PROVE  ServedIsOnline' /\ ConfiguredIsHandler'
  BY <1>0, <1>6, CloseAvail DEF DeviceLife, TypeOK, ServedIsOnline, ConfiguredIsHandler
<1>7. ASSUME NEW c \in T1Conns, T1SocketClosed(c)
      PROVE  ServedIsOnline' /\ ConfiguredIsHandler'
  BY <1>7, <1>6, <1>b DEF T1SocketClosed
<1>8. ASSUME NEW c \in T2Conns, T2Destroy(c)
      PROVE  ServedIsOnline' /\ ConfiguredIsHandler'
  BY <1>8, <1>6, <1>b DEF T2Destroy
<1>9. ASSUME NEW c \in T1Conns, NEW i \in T1Ids, T1Refuse(c, i)
      PROVE  ServedIsOnline' /\ ConfiguredIsHandler'
  <2>1. \A x \in config : x # c
    BY <1>0, <1>9 DEF T1Refuse, DeviceLife, HandlerLife, ConfiguredIsHandler, TypeOK
  <2> QED BY <1>0, <1>9, <2>1 DEF T1Refuse, ServedIsOnline, ConfiguredIsHandler, TypeOK
<1>10. CASE \/ \E i \in T1Ids, model \in Models : PostMeta(i, model)
            \/ \E c \in T1Conns : T1IdleTimeout(c)
            \/ \E c \in T2Conns, model \in Models : T2Deploy(c, model)
            \/ UNCHANGED vars
  BY <1>10, <1>b DEF PostMeta, T1IdleTimeout, T2Deploy, vars
<1> QED
  BY <1>1, <1>2, <1>3, <1>4, <1>5, <1>7, <1>8, <1>9, <1>10 DEF Next

(***************************************************************************)
(* While a configured handler serves an appliance HA is told it is online, *)
(* whatever the number of connections and the order of their events.       *)
(***************************************************************************)
THEOREM AvailabilitySafety == Spec => []ServedIsOnline
<1>1. Init => ServedIsOnline /\ ConfiguredIsHandler
  BY DEF Init, ServedIsOnline, ConfiguredIsHandler
<1>2. QED
  BY <1>1, NextAvail, InductiveInvariant, PTL DEF Spec

(***************************************************************************)
(* The registries: the maps of the acceptors and of the manager agree, and *)
(* hold the connections that are open, whatever closes late.               *)
(***************************************************************************)
THEOREM RegistriesSafety == Spec => []RegistriesAgree
<1>1. IInv => RegistriesAgree
  BY DEF IInv, RegistriesAgree
<1>2. QED
  BY <1>1, InductiveInvariant, PTL

-----------------------------------------------------------------------------
(* What HA is shown of an appliance that only reports handled models.      *)

\* newDevice never takes its early return for the appliance.
AlwaysHandled(i) == "unhandled" \notin ModelsOf[i]

\* The models posted over HTTP are models the appliance reports.
MetaIsReported == \A i \in T1Ids : deviceMeta[i] \in ModelsOf[i] \cup {NoModel}

(***************************************************************************)
(* The strengthening of OnlineIsServed, in terms of the map hd, the        *)
(* handlers hs and the topics av: the entry of the map, which 'discovery'  *)
(* goes by, is never a dropped handler.                                    *)
(***************************************************************************)
ServedIn(i, hd, hs, av) ==
  /\ hd[i] # NoConn => hs[hd[i]] = "live"
  /\ av[i] = "online" => hd[i] # NoConn

OnlineInv ==
  /\ MetaIsReported
  /\ \A i \in Ids : AlwaysHandled(i) => ServedIn(i, haDevices, handlers, avail)

\* dropDevice of the HA bridge, for whichever appliance the device was.
LEMMA CloseServed ==
  ASSUME TypeOK, HandlerLife,
         NEW c \in Conns, NEW i \in Ids, did[c] = i,
         NEW j \in Ids, ServedIn(j, haDevices, handlers, avail)
  PROVE  ServedIn(j, DevicesAfterClose(c, i), HandlersAfterClose(c, i), AvailAfterClose(c, i))
BY DEF ServedIn, DevicesAfterClose, HandlersAfterClose, AvailAfterClose, ServesStill, Drop,
       Offline, TypeOK, HandlerLife

\* newDevice for the device of connection c, from any map that serves only its own.
LEMMA NewDeviceServed ==
  ASSUME NEW hd \in [Ids -> Conns \cup {NoConn}],
         NEW hs \in [Conns -> {"none", "live", "dropped"}],
         NEW av \in [Ids -> {"none", "online", "offline"}],
         NEW c \in Conns, NEW i \in Ids, NEW model \in Models,
         HaNewDevice(hd, hs, av, c, i, model),
         model \in ModelsOf[i],
         \A x \in Ids : hd[x] # c,
         \A x, y \in Ids : hd[x] = hd[y] /\ hd[x] # NoConn => x = y,
         NEW j \in Ids, AlwaysHandled(j), ServedIn(j, hd, hs, av)
  PROVE  ServedIn(j, haDevices', handlers', avail')
<1>1. CASE j = i
  <2>1. model # "unhandled"
    BY <1>1 DEF AlwaysHandled
  <2>2. haDevices'[i] = c /\ handlers'[c] = "live"
    BY <2>1 DEF HaNewDevice, HandlersAfterReplace, Drop
  <2>3. c # NoConn
    OBVIOUS
  <2> QED BY <1>1, <2>2, <2>3 DEF ServedIn
<1>2. CASE j # i
  <2>1. haDevices'[j] = hd[j] /\ avail'[j] = av[j]
    BY <1>2 DEF HaNewDevice, Offline, PublishConfig
  <2>2. hd[j] # NoConn => handlers'[hd[j]] = hs[hd[j]]
    BY <1>2 DEF HaNewDevice, HandlersAfterReplace, Drop
  <2> QED BY <2>1, <2>2 DEF ServedIn
<1> QED BY <1>1, <1>2

LEMMA NextOnline ==
  IInv /\ IInv' /\ OnlineInv /\ [Next]_vars => OnlineInv'
<1> SUFFICES ASSUME IInv, IInv', OnlineInv, [Next]_vars
             PROVE  OnlineInv'
  OBVIOUS
<1> USE DEF haVars
<1>0. /\ TypeOK /\ TypeOK' /\ DeviceLife /\ HandlerLife /\ OneLiveHandler
      /\ AcceptorAgreesWithManager /\ RegisteredIsConnected
  BY DEF IInv
<1>a. \A x, y \in Ids : haDevices[x] = haDevices[y] /\ haDevices[x] # NoConn => x = y
  BY <1>0 DEF HandlerLife, TypeOK
<1>b. ASSUME UNCHANGED <<deviceMeta, haDevices, handlers, avail>>
      PROVE  OnlineInv'
  BY <1>b DEF OnlineInv, MetaIsReported, ServedIn
<1>1. ASSUME NEW i \in T1Ids, NEW model \in Models, PostMeta(i, model)
      PROVE  OnlineInv'
  BY <1>0, <1>1 DEF PostMeta, OnlineInv, MetaIsReported, ServedIn, TypeOK
<1>2. ASSUME NEW c \in Conns, Configure(c)
      PROVE  OnlineInv'
  <2>1. did[c] \in Ids /\ haDevices[did[c]] = c /\ c # NoConn
    BY <1>0, <1>2 DEF Configure, OneLiveHandler, HandlerLife, DeviceLife, TypeOK
  <2> QED
    BY <1>0, <1>2, <2>1 DEF Configure, PublishConfig, OnlineInv, MetaIsReported, ServedIn, TypeOK
<1>3. ASSUME Discovery
      PROVE  OnlineInv'
  <2>1. \A i \in Ids : avail'[i] = "online" => avail[i] = "online" \/ haDevices[i] # NoConn
    BY <1>0, <1>3 DEF Discovery, PublishConfig, TypeOK
  <2> QED
    BY <1>3, <2>1 DEF Discovery, OnlineInv, MetaIsReported, ServedIn
<1>4. ASSUME NEW c \in T1Conns, NEW i \in T1Ids, T1Accept(c, i)
      PROVE  OnlineInv'
  <2>1. /\ deviceMeta[i] \in Models /\ deviceMeta[i] \in ModelsOf[i]
        /\ HaNewDevice(haDevices, handlers, avail, c, i, deviceMeta[i])
        /\ UNCHANGED deviceMeta
    BY <1>0, <1>4 DEF T1Accept, OnlineInv, MetaIsReported, TypeOK
  <2>2. \A x \in Ids : haDevices[x] # c
    BY <1>0, <1>4 DEF T1Accept, HandlerLife, TypeOK
  <2>3. /\ haDevices \in [Ids -> Conns \cup {NoConn}]
        /\ handlers \in [Conns -> {"none", "live", "dropped"}]
        /\ avail \in [Ids -> {"none", "online", "offline"}]
        /\ c \in Conns /\ i \in Ids
    BY <1>0 DEF TypeOK
  <2>4. \A j \in Ids : AlwaysHandled(j) => ServedIn(j, haDevices', handlers', avail')
    <3> HIDE DEF Conns, Ids, Models
    <3> QED BY <1>a, <2>1, <2>2, <2>3, NewDeviceServed DEF OnlineInv
  <2> QED BY <2>1, <2>4 DEF OnlineInv, MetaIsReported
<1>5. ASSUME NEW c \in T2Conns, NEW i \in T2Ids, T2CompleteProvisioning(c, i)
      PROVE  OnlineInv'
  <2> DEFINE old == byId[i]
             hd == IF old # NoConn THEN DevicesAfterClose(old, i) ELSE haDevices
             hs == IF old # NoConn THEN HandlersAfterClose(old, i) ELSE handlers
             av == IF old # NoConn THEN AvailAfterClose(old, i) ELSE avail
  <2>1. /\ deployMsg[c] \in Models /\ deployMsg[c] \in ModelsOf[i]
        /\ HaNewDevice(hd, hs, av, c, i, deployMsg[c])
        /\ UNCHANGED deviceMeta /\ device[c] = "none"
        /\ c \in Conns /\ i \in Ids
    BY <1>0, <1>5 DEF T2CompleteProvisioning, CanComplete, TypeOK
  <2>2. old # NoConn => old \in Conns /\ did[old] = i
    BY <1>0, <2>1 DEF AcceptorAgreesWithManager, RegisteredIsConnected, TypeOK
  <2>3. /\ hd \in [Ids -> Conns \cup {NoConn}]
        /\ hs \in [Conns -> {"none", "live", "dropped"}]
        /\ av \in [Ids -> {"none", "online", "offline"}]
    BY <1>0, <2>1, <2>2, AfterCloseType DEF TypeOK
  <2>4. \A x \in Ids : hd[x] = haDevices[x] \/ hd[x] = NoConn
    BY <1>0 DEF DevicesAfterClose, TypeOK
  <2>5. /\ \A x \in Ids : hd[x] # c
        /\ \A x, y \in Ids : hd[x] = hd[y] /\ hd[x] # NoConn => x = y
    BY <1>0, <1>a, <2>1, <2>4 DEF HandlerLife, TypeOK, DeviceLife
  <2>6. \A j \in Ids : AlwaysHandled(j) => ServedIn(j, hd, hs, av)
    BY <1>0, <2>1, <2>2, CloseServed DEF OnlineInv
  <2>7. \A j \in Ids : AlwaysHandled(j) => ServedIn(j, haDevices', handlers', avail')
    <3> HIDE DEF Conns, Ids, Models, hd, hs, av
    <3> QED BY <2>1, <2>3, <2>5, <2>6, NewDeviceServed
  <2> QED BY <2>1, <2>7 DEF OnlineInv, MetaIsReported
<1>6. ASSUME NEW c \in Conns, device[c] = "open",
             haDevices' = DevicesAfterClose(c, did[c]),
             handlers' = HandlersAfterClose(c, did[c]),
             avail' = AvailAfterClose(c, did[c]),
             UNCHANGED deviceMeta
      PROVE  OnlineInv'
  <2>1. did[c] \in Ids
    BY <1>0, <1>6 DEF DeviceLife, TypeOK
  <2> QED BY <1>0, <1>6, <2>1, CloseServed DEF OnlineInv, MetaIsReported
<1>7. ASSUME NEW c \in T1Conns, T1SocketClosed(c)
      PROVE  OnlineInv'
  BY <1>7, <1>6, <1>b DEF T1SocketClosed
<1>8. ASSUME NEW c \in T2Conns, T2Destroy(c)
      PROVE  OnlineInv'
  BY <1>8, <1>6, <1>b DEF T2Destroy
<1>9. CASE \/ \E c \in Conns : Connect(c) \/ Vanish(c)
           \/ \E c \in T1Conns, i \in T1Ids : T1Refuse(c, i)
           \/ \E c \in T1Conns : T1IdleTimeout(c)
           \/ \E c \in T2Conns, model \in Models : T2Deploy(c, model)
           \/ UNCHANGED vars
  BY <1>9, <1>b DEF Connect, Vanish, T1Refuse, T1IdleTimeout, T2Deploy, vars
<1> QED
  BY <1>1, <1>2, <1>3, <1>4, <1>5, <1>7, <1>8, <1>9 DEF Next

(***************************************************************************)
(* An appliance that only reports models the program has a class for is    *)
(* shown online only while a handler serves it: neither a late 'close' nor *)
(* 'discovery' leaves it online with nobody behind it.                     *)
(***************************************************************************)
THEOREM OnlineSafety == Spec => []OnlineIsServed
<1>1. Init => OnlineInv
  BY DEF Init, OnlineInv, MetaIsReported, ServedIn
<1>2. IInv /\ OnlineInv => OnlineIsServed
  BY DEF OnlineInv, AlwaysHandled, ServedIn, OnlineIsServed, HasLiveHandler
<1>3. QED
  BY <1>1, <1>2, NextOnline, InductiveInvariant, PTL DEF Spec
=============================================================================
