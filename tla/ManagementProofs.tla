-------------------------- MODULE ManagementProofs --------------------------
(***************************************************************************)
(* Proofs about the modules that MCManagement instantiates: the page of    *)
(* the bridges (Panel), the monitors of an appliance (Monitors) and the    *)
(* internal broker (ApplianceBroker), for any appliances, requests,        *)
(* connections and numbers of messages under way.                          *)
(***************************************************************************)
EXTENDS MCManagement, FiniteSetTheorems, WellFoundedInduction, TLAPS

-----------------------------------------------------------------------------
(* Queues of messages of several kinds, as the page and a monitor read     *)
(* them.                                                                   *)

\* No message of the kind is in the queue.
Silent(q, kind) == \A n \in 1 .. Len(q) : q[n].kind # kind

\* The last message of its kind in the queue is m.
LastIs(q, m) ==
  \E n \in 1 .. Len(q) : /\ q[n] = m
                         /\ \A l \in n + 1 .. Len(q) : q[l].kind # m.kind

\* A message of another kind changes neither, one of the kind is the last.
LEMMA AppendLast ==
  ASSUME NEW S, NEW q \in Seq(S), NEW m \in S
  PROVE  /\ Append(q, m) \in Seq(S)
         /\ LastIs(Append(q, m), m)
         /\ \A x : x.kind # m.kind /\ LastIs(q, x) => LastIs(Append(q, m), x)
         /\ \A kind : kind # m.kind /\ Silent(q, kind) => Silent(Append(q, m), kind)
<1>1. /\ Append(q, m) \in Seq(S) /\ Len(Append(q, m)) = Len(q) + 1
      /\ Append(q, m)[Len(q) + 1] = m
      /\ \A n \in 1 .. Len(q) : Append(q, m)[n] = q[n]
      /\ Len(q) \in Nat
  OBVIOUS
<1>2. LastIs(Append(q, m), m)
  BY <1>1 DEF LastIs
<1>3. ASSUME NEW x, x.kind # m.kind, LastIs(q, x) PROVE LastIs(Append(q, m), x)
  <2>1. PICK n \in 1 .. Len(q) : q[n] = x /\ \A l \in n + 1 .. Len(q) : q[l].kind # x.kind
    BY <1>3 DEF LastIs
  <2>2. \A l \in n + 1 .. Len(q) + 1 : Append(q, m)[l].kind # x.kind
    BY <1>1, <1>3, <2>1
  <2>3. n \in 1 .. Len(q) + 1 /\ Append(q, m)[n] = x
    BY <1>1, <2>1
  <2> QED BY <1>1, <2>2, <2>3 DEF LastIs
<1>4. ASSUME NEW kind, kind # m.kind, Silent(q, kind) PROVE Silent(Append(q, m), kind)
  BY <1>1, <1>4 DEF Silent
<1> QED BY <1>1, <1>2, <1>3, <1>4

\* Taking the first message away: it may have been the last of its kind.
LEMMA TailLast ==
  ASSUME NEW S, NEW q \in Seq(S), q # <<>>
  PROVE  /\ Tail(q) \in Seq(S) /\ Head(q) \in S
         /\ \A x : LastIs(q, x) => LastIs(Tail(q), x) \/ (x = Head(q) /\ Silent(Tail(q), x.kind))
         /\ \A kind : Silent(q, kind) => Head(q).kind # kind /\ Silent(Tail(q), kind)
<1>1. /\ Tail(q) \in Seq(S) /\ Head(q) \in S /\ Head(q) = q[1]
      /\ Len(q) \in Nat /\ Len(q) >= 1 /\ Len(Tail(q)) = Len(q) - 1
      /\ \A n \in 1 .. Len(q) - 1 : Tail(q)[n] = q[n + 1]
  OBVIOUS
<1>2. ASSUME NEW x, LastIs(q, x)
      PROVE  LastIs(Tail(q), x) \/ (x = Head(q) /\ Silent(Tail(q), x.kind))
  <2>1. PICK n \in 1 .. Len(q) : q[n] = x /\ \A l \in n + 1 .. Len(q) : q[l].kind # x.kind
    BY <1>2 DEF LastIs
  <2>2. CASE n = 1
    BY <1>1, <2>1, <2>2 DEF Silent
  <2>3. CASE n # 1
    <3>1. n - 1 \in 1 .. Len(Tail(q)) /\ Tail(q)[n - 1] = x
      BY <1>1, <2>1, <2>3
    <3>2. \A l \in (n - 1) + 1 .. Len(Tail(q)) : Tail(q)[l].kind # x.kind
      BY <1>1, <2>1, <2>3
    <3> QED BY <3>1, <3>2 DEF LastIs
  <2> QED BY <2>2, <2>3
<1>3. ASSUME NEW kind, Silent(q, kind) PROVE Head(q).kind # kind /\ Silent(Tail(q), kind)
  BY <1>1, <1>3 DEF Silent
<1> QED BY <1>1, <1>2, <1>3

\* What a broadcast adds, one message at a time.
LEMMA Broadcasts ==
  ASSUME NEW S, NEW q \in Seq(S), NEW m \in S
  PROVE  /\ q \o <<>> = q
         /\ q \o <<m>> = Append(q, m)
         /\ q \o <<m, m>> = Append(Append(q, m), m)
OBVIOUS

-----------------------------------------------------------------------------
(* The page of the bridges.                                                *)

DevicesMessages == [kind : {"devices"}, all : SUBSET Ids, bridged : SUBSET Ids]
BridgeMessages == [kind : {"bridge"}, loggedIn : BOOLEAN]
PanelMessages == DevicesMessages \cup BridgeMessages

PanelType ==
  /\ allDevices \subseteq Ids /\ bridged \subseteq Ids /\ loggedIn \in BOOLEAN
  /\ ws \in {"none", "open", "broken"}
  /\ queue \in Seq(PanelMessages)
  /\ request \in [Calls -> Requests \cup {None}]
  /\ rows \subseteq Ids /\ remote \subseteq Ids /\ checked \subseteq Ids
  /\ bridgeBusy \subseteq Ids /\ spinner \subseteq Ids
  /\ bridgeStatus \in BOOLEAN
  /\ typed \subseteq Ids /\ undecided \subseteq Ids /\ dialog \in Dialogs \cup {None}

(***************************************************************************)
(* What the page will show once it has handled what is under way: the last *)
(* message of either kind tells the server's present state, and where no   *)
(* message is left the page shows it already.                              *)
(***************************************************************************)
PageWillAgree ==
  ws = "open" =>
    /\ \/ LastIs(queue, Devices(allDevices, bridged))
       \/ Silent(queue, "devices") /\ rows = allDevices /\ remote = bridged \cap allDevices
    /\ \/ LastIs(queue, BridgeStatus(loggedIn))
       \/ Silent(queue, "bridge") /\ bridgeStatus = loggedIn

\* A visible switch that is on follows the row's remote state, or is one whose type
\* the dialog asked for.
SwitchFollows ==
  checked \ (spinner \cup undecided) \subseteq remote /\ undecided \cap typed = {}

\* A spinner is that of a busy row, and a busy row has a request under way that was
\* sent since the row was last made anew from nothing.
BusyIsAwaited ==
  /\ spinner \subseteq bridgeBusy
  /\ \A i \in bridgeBusy : \E k \in Calls :
       request[k] # None /\ request[k].id = i /\ request[k].row

PanelInv == PanelType /\ PageWillAgree /\ SwitchFollows /\ BusyIsAwaited

USE PanelAssumption

LEMMA PanelInit == Init => PanelInv
<1> SUFFICES ASSUME Init PROVE PanelInv
  OBVIOUS
<1>1. queue \in Seq(PanelMessages)
  BY DEF Init
<1>2. PanelType
  BY <1>1 DEF Init, PanelType
<1>3. PageWillAgree /\ SwitchFollows /\ BusyIsAwaited
  BY DEF Init, PageWillAgree, SwitchFollows, BusyIsAwaited
<1> QED BY <1>2, <1>3 DEF PanelInv

LEMMA MessageTypes ==
  /\ \A all, br \in SUBSET Ids : Devices(all, br) \in PanelMessages
                                 /\ Devices(all, br).kind = "devices"
  /\ \A in \in BOOLEAN : BridgeStatus(in) \in PanelMessages /\ BridgeStatus(in).kind = "bridge"
BY DEF Devices, BridgeStatus, PanelMessages, DevicesMessages, BridgeMessages

(***************************************************************************)
(* A handler of the server that changes the devices or the bridges and     *)
(* tells every page so, once or twice, the last time as they are now.      *)
(***************************************************************************)
LEMMA TellDevices ==
  ASSUME PanelInv, allDevices' \subseteq Ids, bridged' \subseteq Ids,
         NEW m, m = Devices(allDevices', bridged'),
         \/ Broadcast(<<m>>) \/ Broadcast(<<m, m>>),
         UNCHANGED <<loggedIn, ws, rows, remote, bridgeStatus>>
  PROVE  queue' \in Seq(PanelMessages) /\ PageWillAgree'
<1> USE DEF PanelInv, PanelType
<1>1. m \in PanelMessages /\ m.kind = "devices"
  BY MessageTypes
<1>2. CASE ws # "open"
  BY <1>2 DEF Broadcast, PageWillAgree
<1>3. CASE ws = "open"
  <2> DEFINE q1 == Append(queue, m)
             q2 == Append(q1, m)
             b == BridgeStatus(loggedIn)
  <2>1. queue' = q1 \/ queue' = q2
    BY <1>1, <1>3, Broadcasts DEF Broadcast
  <2>2. /\ q1 \in Seq(PanelMessages) /\ LastIs(q1, m)
        /\ LastIs(queue, b) => LastIs(q1, b)
        /\ Silent(queue, "bridge") => Silent(q1, "bridge")
    BY <1>1, AppendLast, MessageTypes
  <2>3. /\ q2 \in Seq(PanelMessages) /\ LastIs(q2, m)
        /\ LastIs(q1, b) => LastIs(q2, b)
        /\ Silent(q1, "bridge") => Silent(q2, "bridge")
    <3> HIDE DEF q1
    <3> QED BY <1>1, <2>2, AppendLast, MessageTypes
  <2> HIDE DEF q1, q2
  <2> QED BY <1>3, <2>1, <2>2, <2>3 DEF PageWillAgree
<1> QED BY <1>2, <1>3

\* The same for the state of the login.
LEMMA TellBridge ==
  ASSUME PanelInv, loggedIn' \in BOOLEAN,
         Broadcast(<<BridgeStatus(loggedIn')>>),
         UNCHANGED <<allDevices, bridged, ws, rows, remote, bridgeStatus>>
  PROVE  queue' \in Seq(PanelMessages) /\ PageWillAgree'
<1> USE DEF PanelInv, PanelType
<1> DEFINE m == BridgeStatus(loggedIn')
           d == Devices(allDevices, bridged)
<1>1. m \in PanelMessages /\ m.kind = "bridge" /\ d.kind = "devices"
  BY MessageTypes
<1> HIDE DEF m, d
<1>2. CASE ws # "open"
  BY <1>2 DEF Broadcast, PageWillAgree
<1>3. CASE ws = "open"
  <2>1. queue' = Append(queue, m)
    BY <1>1, <1>3, Broadcasts DEF Broadcast, m
  <2>2. /\ queue' \in Seq(PanelMessages) /\ LastIs(queue', m)
        /\ LastIs(queue, d) => LastIs(queue', d)
        /\ Silent(queue, "devices") => Silent(queue', "devices")
    BY <1>1, <2>1, AppendLast
  <2> QED BY <1>3, <2>2 DEF PageWillAgree, m, d
<1> QED BY <1>2, <1>3

(***************************************************************************)
(* A step that only moves requests on, or adds one: those under way keep   *)
(* their appliance and their row.                                          *)
(***************************************************************************)
Carried ==
  /\ request' \in [Calls -> Requests \cup {None}]
  /\ \A k \in Calls : request[k] # None =>
       request'[k] # None /\ request'[k].id = request[k].id /\ request'[k].row = request[k].row

LEMMA NowCarries ==
  ASSUME PanelType, NEW k \in Calls, NEW stage \in Stages, request[k] # None,
         request' = Now(k, stage)
  PROVE  Carried
BY DEF PanelType, Now, Carried, Requests, Stages

\* The handlers of the server, none of which touches the page.
LEMMA ServerStep ==
  ASSUME PanelInv, PanelType', PageWillAgree', Carried,
         UNCHANGED <<remote, checked, bridgeBusy, spinner, undecided, typed>>
  PROVE  PanelInv'
BY DEF PanelInv, PanelType, SwitchFollows, BusyIsAwaited, Carried

LEMMA ServerKeeps ==
  ASSUME PanelInv,
         \/ \E i \in Ids : NewDevice(i) \/ DropDevice(i) \/ Suspend(i) \/ Resume(i)
         \/ \E k \in Calls : EnableBegins(k) \/ EnableEnds(k) \/ Disable(k)
         \/ Login
  PROVE  PanelInv'
<1> USE DEF page, server
<1>0. PanelType
  BY DEF PanelInv
<1>a. ASSUME UNCHANGED request PROVE Carried
  BY <1>0, <1>a DEF Carried, PanelType
<1>b. ASSUME UNCHANGED <<allDevices, bridged, loggedIn, ws, queue, rows, remote, bridgeStatus>>
      PROVE  queue' \in Seq(PanelMessages) /\ PageWillAgree'
  BY <1>0, <1>b DEF PanelInv, PanelType, PageWillAgree
<1>c. ASSUME queue' \in Seq(PanelMessages), PageWillAgree', Carried,
             allDevices' \subseteq Ids, bridged' \subseteq Ids, loggedIn' \in BOOLEAN,
             UNCHANGED <<ws, page>>
      PROVE  PanelInv'
  <2>1. PanelType'
    BY <1>0, <1>c DEF PanelType, Carried
  <2> QED BY <1>c, <2>1, ServerStep
<1>1. ASSUME NEW i \in Ids, NewDevice(i) PROVE PanelInv'
  <2>1. allDevices' \subseteq Ids /\ bridged' \subseteq Ids
    BY <1>0, <1>1 DEF NewDevice, PanelType
  <2> DEFINE m == Devices(allDevices', bridged')
  <2>2. Broadcast(<<m>>) \/ Broadcast(<<m, m>>)
    BY <1>1 DEF NewDevice
  <2>3. UNCHANGED <<loggedIn, ws, request, page>>
    BY <1>1 DEF NewDevice
  <2>4. queue' \in Seq(PanelMessages) /\ PageWillAgree'
    BY <2>1, <2>2, <2>3, TellDevices
  <2> QED BY <1>0, <1>a, <1>c, <2>1, <2>3, <2>4 DEF PanelType
<1>2. ASSUME NEW i \in Ids, DropDevice(i) PROVE PanelInv'
  <2>1. allDevices' \subseteq Ids /\ bridged' \subseteq Ids
    BY <1>0, <1>2 DEF DropDevice, PanelType
  <2> DEFINE m == Devices(allDevices', bridged')
  <2>2. Broadcast(<<m>>) \/ Broadcast(<<m, m>>)
    BY <1>2 DEF DropDevice
  <2>3. UNCHANGED <<loggedIn, ws, request, page>>
    BY <1>2 DEF DropDevice
  <2>4. queue' \in Seq(PanelMessages) /\ PageWillAgree'
    BY <2>1, <2>2, <2>3, TellDevices
  <2> QED BY <1>0, <1>a, <1>c, <2>1, <2>3, <2>4 DEF PanelType
<1>3. ASSUME NEW i \in Ids, Suspend(i) \/ Resume(i) PROVE PanelInv'
  <2>1. allDevices' \subseteq Ids /\ bridged' \subseteq Ids
    BY <1>0, <1>3 DEF Suspend, Resume, PanelType
  <2> DEFINE m == Devices(allDevices', bridged')
  <2>2. Broadcast(<<m>>)
    BY <1>3 DEF Suspend, Resume, Stopped
  <2>3. UNCHANGED <<allDevices, loggedIn, ws, request, page>>
    BY <1>3 DEF Suspend, Resume
  <2>4. queue' \in Seq(PanelMessages) /\ PageWillAgree'
    BY <2>1, <2>2, <2>3, TellDevices
  <2> QED BY <1>0, <1>a, <1>c, <2>1, <2>3, <2>4 DEF PanelType
<1>4. ASSUME NEW k \in Calls, EnableBegins(k) PROVE PanelInv'
  <2>1. Carried
    BY <1>0, <1>4, NowCarries DEF EnableBegins, At, Stages
  <2> QED BY <1>0, <1>4, <1>b, <1>c, <2>1 DEF EnableBegins, PanelType
<1>5. ASSUME NEW k \in Calls, EnableEnds(k) PROVE PanelInv'
  <2>1. Carried
    BY <1>0, <1>5, NowCarries DEF EnableEnds, At, Stages
  <2>2. UNCHANGED <<allDevices, loggedIn, ws, page>>
    BY <1>5 DEF EnableEnds
  <2>3. bridged' \subseteq Ids
    BY <1>0, <1>5 DEF EnableEnds, At, PanelType, Requests
  <2>4. queue' \in Seq(PanelMessages) /\ PageWillAgree'
    <3>1. CASE UNCHANGED <<bridged, queue>>
      BY <1>b, <2>2, <3>1
    <3>2. CASE Broadcast(<<Devices(allDevices', bridged')>>)
      BY <1>0, <2>2, <2>3, <3>2, TellDevices DEF PanelType
    <3> QED BY <1>5, <2>2, <3>1, <3>2 DEF EnableEnds
  <2> QED BY <1>0, <1>c, <2>1, <2>2, <2>3, <2>4 DEF PanelType
<1>6. ASSUME NEW k \in Calls, Disable(k) PROVE PanelInv'
  <2> DEFINE i == request[k].id
  <2>1. Carried
    BY <1>0, <1>6, NowCarries DEF Disable, At, Stages
  <2>2. UNCHANGED <<allDevices, loggedIn, ws, page>> /\ bridged' = bridged \ {i}
    BY <1>6 DEF Disable
  <2>3. bridged' \subseteq Ids
    BY <1>0, <2>2 DEF PanelType
  <2>4. queue' \in Seq(PanelMessages) /\ PageWillAgree'
    <3>1. CASE i \in bridged
      BY <1>0, <1>6, <2>2, <2>3, <3>1, TellDevices DEF Disable, Stopped, PanelType
    <3>2. CASE i \notin bridged
      <4>1. bridged' = bridged
        BY <2>2, <3>2
      <4>2. queue' = queue
        BY <1>0, <1>6, <3>2 DEF Disable, Stopped, Broadcast, PanelType
      <4> QED BY <1>b, <2>2, <4>1, <4>2
    <3> QED BY <3>1, <3>2
  <2> QED BY <1>0, <1>c, <2>1, <2>2, <2>3, <2>4 DEF PanelType
<1>7. ASSUME Login PROVE PanelInv'
  <2>1. loggedIn' \in BOOLEAN
    BY <1>0, <1>7 DEF Login, PanelType
  <2>2. UNCHANGED <<allDevices, bridged, ws, request, page>>
    BY <1>7 DEF Login
  <2>3. queue' \in Seq(PanelMessages) /\ PageWillAgree'
    BY <1>7, <2>1, <2>2, TellBridge DEF Login
  <2> QED BY <1>0, <1>a, <1>c, <2>1, <2>2, <2>3 DEF PanelType
<1> QED BY <1>1, <1>2, <1>3, <1>4, <1>5, <1>6, <1>7

\* The first message to a page tells everything; a page without socket is told nothing.
LEMMA SocketKeeps ==
  ASSUME PanelInv, Connect \/ Break \/ Closed
  PROVE  PanelInv'
<1> USE DEF page, server, PanelInv
<1> DEFINE d == Devices(allDevices, bridged)
           b == BridgeStatus(loggedIn)
<1>1. CASE Connect
  <2>1. d \in PanelMessages /\ b \in PanelMessages /\ d.kind # b.kind
    BY MessageTypes DEF PanelType
  <2>2. queue' = <<d, b>>
    BY <1>1 DEF Connect, Snapshot
  <2> HIDE DEF d, b
  <2>3. queue' \in Seq(PanelMessages) /\ Len(queue') = 2 /\ queue'[1] = d /\ queue'[2] = b
    BY <2>1, <2>2
  <2>4. LastIs(queue', d) /\ LastIs(queue', b)
    BY <2>1, <2>3 DEF LastIs
  <2>5. PanelType'
    BY <1>1, <2>3 DEF Connect, PanelType
  <2>6. PageWillAgree'
    BY <1>1, <2>4 DEF Connect, PageWillAgree, d, b
  <2> QED
    BY <1>1, <2>5, <2>6 DEF Connect, SwitchFollows, BusyIsAwaited
<1>2. CASE Break
  BY <1>2 DEF Break, PanelType, PageWillAgree, SwitchFollows, BusyIsAwaited
<1>3. CASE Closed
  <2>1. queue' \in Seq(PanelMessages)
    BY <1>3 DEF Closed
  <2>2. PanelType'
    BY <1>3, <2>1 DEF Closed, PanelType
  <2> QED
    BY <1>3, <2>2 DEF Closed, PageWillAgree, SwitchFollows, BusyIsAwaited
<1> QED BY <1>1, <1>2, <1>3

\* The page takes a message.  Only the table made anew forgets which rows are busy,
\* and only those that are gone.
LEMMA ReceiveKeeps ==
  ASSUME PanelInv, Receive
  PROVE  PanelInv'
<1> USE DEF server, PanelInv
<1> DEFINE m == Head(queue)
           d == Devices(allDevices, bridged)
           b == BridgeStatus(loggedIn)
<1>0. PanelType /\ queue # <<>> /\ ws = "open" /\ queue' = Tail(queue)
      /\ UNCHANGED <<allDevices, bridged, loggedIn, ws>>
  BY DEF Receive
<1>1. /\ Tail(queue) \in Seq(PanelMessages) /\ m \in PanelMessages
      /\ \A x : LastIs(queue, x) => LastIs(Tail(queue), x)
                                  \/ (x = m /\ Silent(Tail(queue), x.kind))
      /\ \A kind : Silent(queue, kind) => m.kind # kind /\ Silent(Tail(queue), kind)
  BY <1>0, TailLast DEF PanelType
<1>2. d.kind = "devices" /\ d.all = allDevices /\ d.bridged = bridged \cap allDevices
      /\ b.kind = "bridge" /\ b.loggedIn = loggedIn
  BY DEF Devices, BridgeStatus
<1>3. \/ m \in DevicesMessages /\ m.kind = "devices"
      \/ m \in BridgeMessages /\ m.kind = "bridge"
  BY <1>1 DEF PanelMessages, DevicesMessages, BridgeMessages
<1> HIDE DEF m, d, b
<1>4. /\ \/ LastIs(queue, d)
         \/ Silent(queue, "devices") /\ rows = allDevices /\ remote = bridged \cap allDevices
      /\ \/ LastIs(queue, b)
         \/ Silent(queue, "bridge") /\ bridgeStatus = loggedIn
  BY <1>0 DEF PageWillAgree, d, b
<1>5. CASE m.kind = "devices"
  <2>1. UpdateDom(m)
    BY <1>5 DEF Receive, m
  <2>2. m.all \subseteq Ids /\ m.bridged \subseteq Ids
    BY <1>3, <1>5 DEF DevicesMessages, BridgeMessages
  <2>3. request' \in [Calls -> Requests \cup {None}]
        /\ \A k \in Calls : request[k] # None =>
             /\ request'[k] # None /\ request'[k].id = request[k].id
             /\ request[k].id \in m.all => request'[k].row = request[k].row
    BY <1>0, <2>1 DEF UpdateDom, Kept, PanelType, Requests
  <2>d. dialog' \in Dialogs \cup {None} /\ UNCHANGED typed
    BY <1>0, <2>1 DEF UpdateDom, Kept, PanelType, Dialogs, Receive
  <2>4. PanelType'
    BY <1>0, <1>1, <2>1, <2>2, <2>3, <2>d DEF UpdateDom, PanelType
  <2>5. PageWillAgree'
    <3>1. LastIs(Tail(queue), d) \/ (d = m /\ Silent(Tail(queue), "devices"))
      BY <1>1, <1>2, <1>4, <1>5
    <3>2. LastIs(Tail(queue), b) \/ (Silent(Tail(queue), "bridge") /\ bridgeStatus = loggedIn)
      BY <1>1, <1>2, <1>4, <1>5
    <3>3. rows' = m.all /\ remote' = m.bridged /\ bridgeStatus' = bridgeStatus
      BY <2>1 DEF UpdateDom
    <3>4. \/ LastIs(Tail(queue), d)
          \/ Silent(Tail(queue), "devices") /\ rows' = allDevices /\ remote' = bridged \cap allDevices
      BY <1>2, <3>1, <3>3
    <3> QED BY <1>0, <3>2, <3>3, <3>4 DEF PageWillAgree, d, b
  <2>6. SwitchFollows' /\ BusyIsAwaited'
    BY <2>1, <2>3, <2>d DEF UpdateDom, SwitchFollows, BusyIsAwaited
  <2> QED BY <2>4, <2>5, <2>6
<1>6. CASE m.kind = "bridge"
  <2>1. /\ bridgeStatus' = m.loggedIn /\ RefreshUI(rows, checked, bridgeBusy)
        /\ UNCHANGED <<rows, remote, request, dialog, typed>>
    BY <1>6 DEF Receive, m
  <2>2. m.loggedIn \in BOOLEAN
    BY <1>3, <1>6 DEF DevicesMessages, BridgeMessages
  <2>3. PanelType'
    BY <1>0, <1>1, <2>1, <2>2 DEF RefreshUI, Shown, PanelType
  <2>4. PageWillAgree'
    <3>1. LastIs(Tail(queue), b) \/ (b = m /\ Silent(Tail(queue), "bridge"))
      BY <1>1, <1>2, <1>4, <1>6
    <3>2. \/ LastIs(Tail(queue), d)
          \/ Silent(Tail(queue), "devices") /\ rows = allDevices /\ remote = bridged \cap allDevices
      BY <1>1, <1>2, <1>4, <1>6
    <3>3. LastIs(Tail(queue), b) \/ (Silent(Tail(queue), "bridge") /\ bridgeStatus' = loggedIn)
      BY <1>2, <2>1, <3>1
    <3> QED BY <1>0, <2>1, <3>2, <3>3 DEF PageWillAgree, d, b
  <2>5. SwitchFollows' /\ BusyIsAwaited'
    BY <2>1 DEF RefreshUI, Shown, SwitchFollows, BusyIsAwaited
  <2> QED BY <2>3, <2>4, <2>5
<1> QED BY <1>3, <1>5, <1>6

\* The user, and the answers.
LEMMA StartKeeps ==
  ASSUME PanelInv, NEW i \in Ids, NEW op \in {"enable", "disable"}, NEW ch \in SUBSET Ids,
         Start(i, op, ch), ch \ {i} = checked \ {i}, dialog' \in Dialogs \cup {None},
         UNCHANGED <<server, ws, queue, rows, remote, bridgeStatus, typed>>
  PROVE  PanelInv'
<1> USE DEF server, PanelInv
<1>1. PICK k \in Calls : /\ request[k] = None
                         /\ request' = [request EXCEPT ![k] = Request(i, op, "sent")]
  BY DEF Start, Send
<1>2. Request(i, op, "sent") \in Requests
  BY DEF Request, Requests, Stages
<1>3. /\ request' \in [Calls -> Requests \cup {None}]
      /\ request'[k] # None /\ request'[k].id = i /\ request'[k].row
      /\ \A x \in Calls : request[x] # None => x # k /\ request'[x] = request[x]
  BY <1>1, <1>2 DEF PanelType, Request
<1>4. RefreshUI({i}, ch, bridgeBusy \cup {i})
  BY DEF Start
<1>5. PanelType'
  BY <1>3, <1>4 DEF PanelType, RefreshUI, Shown
<1>6. PageWillAgree'
  BY DEF PageWillAgree
<1>7. SwitchFollows'
  BY <1>4 DEF SwitchFollows, RefreshUI, Shown
<1>8. BusyIsAwaited'
  BY <1>3, <1>4 DEF BusyIsAwaited, RefreshUI
<1> QED BY <1>5, <1>6, <1>7, <1>8

LEMMA ToggleKeeps ==
  ASSUME PanelInv, NEW i \in Ids, Toggle(i)
  PROVE  PanelInv'
<1> USE DEF PanelInv
<1>1. UNCHANGED <<server, ws, queue, rows, remote, bridgeStatus, typed>>
  BY DEF Toggle
<1>2. CASE SwitchOff(i)
  BY <1>1, <1>2, StartKeeps DEF SwitchOff, PanelType
<1>3. CASE SwitchOn(i)
  BY <1>1, <1>3, StartKeeps DEF SwitchOn, PanelType
<1>4. CASE AskType(i)
  <2>1. /\ checked' = checked \cup {i} /\ undecided' = undecided \cup {i} /\ i \notin typed
        /\ dialog' \in Dialogs /\ UNCHANGED <<request, bridgeBusy, spinner>>
    BY <1>4 DEF AskType, Dialogs
  <2>2. PanelType'
    BY <1>1, <2>1 DEF PanelType, server
  <2>3. PageWillAgree'
    BY <1>1 DEF PageWillAgree, server
  <2>4. SwitchFollows'
    BY <1>1, <2>1 DEF SwitchFollows
  <2>5. BusyIsAwaited'
    BY <2>1 DEF BusyIsAwaited
  <2> QED BY <2>2, <2>3, <2>4, <2>5
<1> QED BY <1>2, <1>3, <1>4 DEF Toggle

\* The dialog is answered, for a row that may be gone, or dismissed.
LEMMA DialogKeeps ==
  ASSUME PanelInv, DialogContinues \/ DialogDismissed
  PROVE  PanelInv'
<1> USE DEF PanelInv
<1>1. /\ UNCHANGED <<server, ws, queue, rows, remote, bridgeStatus, typed>>
      /\ dialog \in Dialogs /\ dialog' = None
  BY DEF DialogContinues, DialogDismissed, PanelType
<1>2. dialog.id \in Ids
  BY <1>1 DEF Dialogs
<1>3. CASE Start(dialog.id, "enable", checked)
  BY <1>1, <1>2, <1>3, StartKeeps DEF PanelType
<1>4. ASSUME UNCHANGED <<checked, undecided, bridgeBusy, spinner>>, Carried
      PROVE  PanelInv'
  <2>1. PanelType'
    BY <1>1, <1>4 DEF PanelType, Carried, server
  <2>2. PageWillAgree'
    BY <1>1 DEF PageWillAgree, server
  <2> QED BY <1>1, <1>4, <2>1, <2>2, ServerStep
<1>5. CASE DialogDismissed
  BY <1>4, <1>5 DEF DialogDismissed, Carried, PanelType
<1>6. CASE DialogContinues /\ ~dialog.row
  <2> DEFINE n == [Request(dialog.id, "enable", "sent") EXCEPT !.row = FALSE]
  <2>1. n \in Requests
    BY <1>2 DEF Request, Requests, Stages
  <2> HIDE DEF n
  <2>2. PICK k \in Calls : request[k] = None /\ request' = [request EXCEPT ![k] = n]
    BY <1>6 DEF DialogContinues, Send, n
  <2>3. Carried
    BY <2>1, <2>2 DEF Carried, PanelType
  <2> QED BY <1>4, <1>6, <2>3 DEF DialogContinues
<1> QED BY <1>3, <1>5, <1>6 DEF DialogContinues

LEMMA AnsweredKeeps ==
  ASSUME PanelInv, NEW k \in Calls, Answered(k)
  PROVE  PanelInv'
<1> USE DEF server, PanelInv
<1> DEFINE i == request[k].id
<1>1. /\ request' = [request EXCEPT ![k] = None] /\ request[k] \in Requests
      /\ UNCHANGED <<allDevices, bridged, loggedIn, ws, queue, rows, remote, bridgeStatus,
                     typed, dialog>>
  BY DEF Answered, At, PanelType
<1>2. i \in Ids
  BY <1>1 DEF Requests
<1> HIDE DEF i
<1>3. /\ request' \in [Calls -> Requests \cup {None}]
      /\ \A x \in Calls : x # k => request'[x] = request[x]
  BY <1>1 DEF PanelType
<1>4. PageWillAgree'
  BY <1>1 DEF PageWillAgree
<1>5. CASE request[k].row
  <2>1. RefreshUI({i}, checked, bridgeBusy \ {i})
    BY <1>5 DEF Answered, i
  <2>2. PanelType'
    BY <1>1, <1>2, <1>3, <2>1 DEF PanelType, RefreshUI, Shown
  <2>3. SwitchFollows'
    BY <1>1, <2>1 DEF SwitchFollows, RefreshUI, Shown
  <2>4. BusyIsAwaited'
    <3>1. spinner' \subseteq bridgeBusy' /\ bridgeBusy' = bridgeBusy \ {i}
      BY <2>1 DEF BusyIsAwaited, RefreshUI
    <3>2. ASSUME NEW j \in bridgeBusy'
          PROVE  \E x \in Calls : request'[x] # None /\ request'[x].id = j /\ request'[x].row
      BY <1>3, <3>1 DEF BusyIsAwaited, i
    <3> QED BY <3>1, <3>2 DEF BusyIsAwaited
  <2> QED BY <1>4, <2>2, <2>3, <2>4
<1>6. CASE ~request[k].row
  <2>1. UNCHANGED <<checked, spinner, bridgeBusy, undecided>>
    BY <1>6 DEF Answered
  <2>2. PanelType'
    BY <1>1, <1>3, <2>1 DEF PanelType
  <2>3. SwitchFollows' /\ BusyIsAwaited'
    BY <1>1, <1>3, <1>6, <2>1 DEF SwitchFollows, BusyIsAwaited
  <2> QED BY <1>4, <2>2, <2>3
<1> QED BY <1>5, <1>6

LEMMA PanelNext == PanelInv /\ [Next]_vars => PanelInv'
<1> SUFFICES ASSUME PanelInv, [Next]_vars PROVE PanelInv'
  OBVIOUS
<1>1. CASE \/ \E i \in Ids : NewDevice(i) \/ DropDevice(i) \/ Suspend(i) \/ Resume(i)
           \/ \E k \in Calls : EnableBegins(k) \/ EnableEnds(k) \/ Disable(k)
           \/ Login
  BY <1>1, ServerKeeps
<1>2. CASE Connect \/ Break \/ Closed
  BY <1>2, SocketKeeps
<1>3. CASE Receive
  BY <1>3, ReceiveKeeps
<1>4. CASE \E i \in Ids : Toggle(i)
  BY <1>4, ToggleKeeps
<1>5. CASE \E k \in Calls : Answered(k)
  BY <1>5, AnsweredKeeps
<1>6. CASE DialogContinues \/ DialogDismissed
  BY <1>6, DialogKeeps
<1>7. CASE UNCHANGED vars
  BY <1>7 DEF vars, server, page, PanelInv, PanelType, PageWillAgree, SwitchFollows, BusyIsAwaited
<1> QED BY <1>1, <1>2, <1>3, <1>4, <1>5, <1>6, <1>7 DEF Next

LEMMA PanelInvariant == Spec => []PanelInv
BY PanelInit, PanelNext, PTL DEF Spec

(***************************************************************************)
(* A page that has handled all it was sent shows the server's state, for   *)
(* any appliances, requests under way and length of the queue.             *)
(***************************************************************************)
THEOREM PageShowsTheServer == Spec => []PageAgrees
<1>1. PanelInv => PageAgrees
  <2> SUFFICES ASSUME PanelInv, Settled
               PROVE  /\ rows = allDevices
                      /\ remote = bridged \cap allDevices
                      /\ bridgeStatus = loggedIn
    BY DEF PageAgrees
  <2>1. \A x : ~LastIs(queue, x)
    BY DEF Settled, LastIs
  <2> QED BY <2>1 DEF PanelInv, PageWillAgree, Settled
<1>2. QED
  BY <1>1, PanelInvariant, PTL

(***************************************************************************)
(* The switches and spinners of that page, whatever the order of messages  *)
(* and answers, and whichever rows are made anew between them.             *)
(***************************************************************************)
THEOREM RowsShowTheServer == Spec => []RowsAreTrue
<1>1. PanelInv /\ PageAgrees => RowsAreTrue
  BY DEF PanelInv, PageAgrees, SwitchFollows, BusyIsAwaited, RowsAreTrue, SwitchOnIsBridged,
     SpinnerIsAwaited, Pending
<1>2. QED
  BY <1>1, PanelInvariant, PageShowsTheServer, PTL

-----------------------------------------------------------------------------
(* The monitors.                                                           *)

StatusMessages == [kind : {"status"}, online : BOOLEAN]
PacketMessages == [kind : {"rx"}, injected : BOOLEAN]
MonitorMessages == StatusMessages \cup PacketMessages

MonitorType ==
  /\ registered \in Objects \cup {None}
  /\ live \subseteq Objects /\ unborn \subseteq Objects
  /\ onManager \subseteq Sockets /\ unused \subseteq Sockets
  /\ watched \in [Sockets -> Objects \cup {None}]
  /\ listeners \in [Objects -> [Sockets -> Nat]]
  /\ socket \in Sockets \cup {None}
  /\ flight \in Seq(MonitorMessages)
  /\ shown \in {"waiting", "offline", "online"}

\* What connection s has on each Device object when it watches object w.
ListensTo(ls, s, w) == \A o \in Objects : ls[o][s] = IF o = w THEN 1 ELSE 0

(***************************************************************************)
(* A connection that listens to the manager watches the registered object  *)
(* and has one listener there; one that has not been opened has none.  An  *)
(* object is registered only after its birth, so a new one has no listener.*)
(***************************************************************************)
ListenersFollow ==
  /\ \A s \in onManager : watched[s] = registered /\ ListensTo(listeners, s, registered)
  /\ \A s \in unused : s \notin onManager /\ watched[s] = None /\ ListensTo(listeners, s, None)
  /\ socket # None => socket \in onManager
  /\ registered \notin unborn

\* What the page will show when what is under way has arrived.
StatusWillAgree ==
  socket # None =>
    \/ LastIs(flight, Mon!Presence(registered))
    \/ /\ Silent(flight, "status")
       /\ shown = IF registered = None THEN "offline" ELSE "online"

MonitorInv == MonitorType /\ ListenersFollow /\ StatusWillAgree

USE MonitorsAssumption

LEMMA MonitorInit == Mon!Init => MonitorInv
<1> SUFFICES ASSUME Mon!Init PROVE MonitorInv
  OBVIOUS
<1>1. flight \in Seq(MonitorMessages)
  BY DEF Mon!Init
<1>2. MonitorType
  BY <1>1 DEF Mon!Init, MonitorType
<1>3. ListenersFollow
  BY DEF Mon!Init, ListenersFollow, ListensTo
<1>4. StatusWillAgree
  BY DEF Mon!Init, StatusWillAgree
<1> QED BY <1>2, <1>3, <1>4 DEF MonitorInv

\* checkDevicePresence moves the one listener of a connection to the object.
LEMMA CheckMoves ==
  ASSUME MonitorType, NEW ss \in SUBSET Sockets, NEW o \in Objects \cup {None},
         \A s \in ss : ListensTo(listeners, s, watched[s]),
         Mon!Check(ss, o)
  PROVE  /\ watched' \in [Sockets -> Objects \cup {None}]
         /\ listeners' \in [Objects -> [Sockets -> Nat]]
         /\ \A s \in ss : watched'[s] = o /\ ListensTo(listeners', s, o)
         /\ \A s \in Sockets \ ss : watched'[s] = watched[s]
                                 /\ \A x \in Objects : listeners'[x][s] = listeners[x][s]
<1>1. ASSUME NEW s \in Sockets
      PROVE  LET ls == Mon!Removed(listeners, watched[s], s) IN
             /\ ls \in [Objects -> [Sockets -> Nat]]
             /\ s \in ss => \A x \in Objects : ls[x][s] = 0
  BY DEF Mon!Removed, MonitorType, ListensTo
<1>2. ASSUME NEW s \in Sockets
      PROVE  LET ls == Mon!Added(Mon!Removed(listeners, watched[s], s), o, s) IN
             /\ ls \in [Objects -> [Sockets -> Nat]]
             /\ s \in ss => ListensTo(ls, s, o)
  BY <1>1 DEF Mon!Added, ListensTo
<1>3. \A x \in Objects, s \in Sockets :
        listeners'[x][s] = IF s \in Mon!Changed(ss, o)
                           THEN Mon!Added(Mon!Removed(listeners, watched[s], s), o, s)[x][s]
                           ELSE listeners[x][s]
  BY DEF Mon!Check
<1>4. listeners' \in [Objects -> [Sockets -> Nat]]
  BY <1>2 DEF Mon!Check, MonitorType
<1>5. watched' \in [Sockets -> Objects \cup {None}]
      /\ \A s \in Sockets : watched'[s] = IF s \in ss THEN o ELSE watched[s]
  BY DEF Mon!Check, MonitorType
<1>6. ASSUME NEW s \in ss PROVE ListensTo(listeners', s, o)
  <2>1. CASE watched[s] # o
    BY <1>2, <1>3, <2>1 DEF Mon!Changed, ListensTo
  <2>2. CASE watched[s] = o
    BY <1>3, <2>2 DEF Mon!Changed, ListensTo
  <2> QED BY <2>1, <2>2
<1>7. ASSUME NEW s \in Sockets \ ss, NEW x \in Objects PROVE listeners'[x][s] = listeners[x][s]
  BY <1>3, <1>7 DEF Mon!Changed
<1> QED BY <1>4, <1>5, <1>6, <1>7

LEMMA StatusTypes ==
  \A o : /\ Mon!Presence(o) \in MonitorMessages /\ Mon!Presence(o).kind = "status"
         /\ Mon!Presence(o).online = (o # None)
BY DEF Mon!Presence, MonitorMessages, StatusMessages

(***************************************************************************)
(* The manager changes the registered object to o and runs every           *)
(* checkDevicePresence that listens to it.                                 *)
(***************************************************************************)
LEMMA RegisteredChanges ==
  ASSUME MonitorInv, NEW o \in Objects \cup {None}, o # registered,
         registered' = o, Mon!Check(onManager, o), flight' = Mon!Told(onManager, o),
         live' \subseteq Objects, unborn' \subseteq unborn, o \notin unborn',
         UNCHANGED <<onManager, socket, unused, shown>>
  PROVE  MonitorInv'
<1> USE DEF MonitorInv
<1> DEFINE m == Mon!Presence(o)
<1>1. \A s \in onManager : ListensTo(listeners, s, watched[s])
  BY DEF ListenersFollow
<1>2. /\ watched' \in [Sockets -> Objects \cup {None}]
      /\ listeners' \in [Objects -> [Sockets -> Nat]]
      /\ \A s \in onManager : watched'[s] = o /\ ListensTo(listeners', s, o)
      /\ \A s \in Sockets \ onManager : watched'[s] = watched[s]
                        /\ \A x \in Objects : listeners'[x][s] = listeners[x][s]
  BY <1>1, CheckMoves DEF MonitorType
<1>3. ListenersFollow'
  BY <1>2 DEF ListenersFollow, ListensTo, MonitorType
<1>4. flight' = IF socket \in onManager THEN Append(flight, m) ELSE flight
  BY DEF Mon!Told, Mon!Changed, ListenersFollow
<1>5. m \in MonitorMessages /\ m.kind = "status"
  BY StatusTypes
<1> HIDE DEF m
<1>6. flight' \in Seq(MonitorMessages)
  BY <1>4, <1>5, AppendLast DEF MonitorType
<1>7. MonitorType'
  BY <1>2, <1>6 DEF MonitorType
<1>8. StatusWillAgree'
  BY <1>4, <1>5, AppendLast DEF StatusWillAgree, ListenersFollow, MonitorType, m
<1> QED BY <1>3, <1>7, <1>8

LEMMA OpenKeeps ==
  ASSUME MonitorInv, NEW s \in Sockets, Mon!Open(s)
  PROVE  MonitorInv'
<1> USE DEF MonitorInv, Mon!Open
<1> DEFINE m == Mon!Presence(registered)
<1>1. watched[s] = None /\ s \notin onManager /\ ListensTo(listeners, s, watched[s])
  BY DEF ListenersFollow
<1>2. /\ watched' \in [Sockets -> Objects \cup {None}]
      /\ listeners' \in [Objects -> [Sockets -> Nat]]
      /\ watched'[s] = registered /\ ListensTo(listeners', s, registered)
      /\ \A r \in Sockets \ {s} : watched'[r] = watched[r]
                        /\ \A x \in Objects : listeners'[x][r] = listeners[x][r]
  <2>1. {s} \in SUBSET Sockets /\ registered \in Objects \cup {None} /\ MonitorType
        /\ \A r \in {s} : ListensTo(listeners, r, watched[r])
        /\ Mon!Check({s}, registered)
    BY <1>1 DEF MonitorType
  <2> HIDE DEF Mon!Open, MonitorInv
  <2> QED BY <2>1, CheckMoves
<1>3. ListenersFollow'
  BY <1>2 DEF ListenersFollow, ListensTo, MonitorType
<1>4. m \in MonitorMessages /\ m.kind = "status" /\ m.online = (registered # None)
  BY StatusTypes
<1>5. flight' = IF registered # None THEN <<m>> ELSE <<>>
  OBVIOUS
<1> HIDE DEF m
<1>6. /\ flight' \in Seq(MonitorMessages)
      /\ registered # None => Len(flight') = 1 /\ flight'[1] = m
      /\ registered = None => Len(flight') = 0
  BY <1>4, <1>5
<1>7. MonitorType'
  BY <1>2, <1>6 DEF MonitorType
<1>8. StatusWillAgree'
  BY <1>4, <1>6 DEF StatusWillAgree, LastIs, Silent, m
<1> QED BY <1>3, <1>7, <1>8

(***************************************************************************)
(* Packets, as many as the connection has listeners: the status stays the  *)
(* last one.                                                               *)
(***************************************************************************)
LEMMA PacketsKeep ==
  ASSUME MonitorInv, NEW o \in Objects, NEW injected \in BOOLEAN,
         flight' = Mon!Heard(o, injected),
         UNCHANGED <<registered, live, unborn, onManager, watched, listeners, socket, unused, shown>>
  PROVE  MonitorInv'
<1> USE DEF MonitorInv
<1>1. CASE socket = None
  BY <1>1 DEF Mon!Heard, MonitorType, ListenersFollow, ListensTo, StatusWillAgree
<1>2. CASE socket # None
  <2> DEFINE k == listeners[o][socket]
             p == Mon!Packet(injected)
             ps == [n \in 1 .. k |-> p]
  <2>1. k \in Nat /\ socket \in Sockets
    BY <1>2 DEF MonitorType
  <2>2. p \in MonitorMessages /\ p.kind = "rx"
    BY <2>1 DEF Mon!Packet, MonitorMessages, PacketMessages
  <2>3. flight' = flight \o ps
    BY <1>2 DEF Mon!Heard
  <2> HIDE DEF k, p
  <2>4. ps \in Seq(MonitorMessages) /\ Len(ps) = k
    BY <2>1, <2>2
  <2>5. /\ flight' \in Seq(MonitorMessages)
        /\ Len(flight) \in Nat /\ Len(flight') = Len(flight) + k
        /\ \A n \in 1 .. Len(flight) : flight'[n] = flight[n]
        /\ \A n \in Len(flight) + 1 .. Len(flight) + k : flight'[n] = p
    BY <2>1, <2>3, <2>4 DEF MonitorType
  <2>6. MonitorType'
    BY <2>5 DEF MonitorType
  <2>7. \A x : x.kind = "status" /\ LastIs(flight, x) => LastIs(flight', x)
    <3> SUFFICES ASSUME NEW x, x.kind = "status", LastIs(flight, x) PROVE LastIs(flight', x)
      OBVIOUS
    <3>1. PICK n \in 1 .. Len(flight) :
            flight[n] = x /\ \A l \in n + 1 .. Len(flight) : flight[l].kind # x.kind
      BY DEF LastIs
    <3>2. n \in 1 .. Len(flight') /\ flight'[n] = x
      BY <2>1, <2>5, <3>1
    <3>3. \A l \in n + 1 .. Len(flight') : flight'[l].kind # x.kind
      BY <2>1, <2>2, <2>5, <3>1
    <3> QED BY <3>2, <3>3 DEF LastIs
  <2>8. Silent(flight, "status") => Silent(flight', "status")
    BY <2>1, <2>2, <2>5 DEF Silent
  <2>9. StatusWillAgree'
    BY <2>7, <2>8, StatusTypes DEF StatusWillAgree
  <2>10. ListenersFollow'
    BY DEF ListenersFollow, ListensTo
  <2> QED BY <2>6, <2>9, <2>10
<1> QED BY <1>1, <1>2

LEMMA MonitorReceives ==
  ASSUME MonitorInv, Mon!Receive
  PROVE  MonitorInv'
<1> USE DEF MonitorInv, Mon!Receive
<1> DEFINE m == Head(flight)
           r == Mon!Presence(registered)
<1>1. /\ Tail(flight) \in Seq(MonitorMessages) /\ m \in MonitorMessages
      /\ \A x : LastIs(flight, x) => LastIs(Tail(flight), x)
                                  \/ (x = m /\ Silent(Tail(flight), x.kind))
      /\ \A kind : Silent(flight, kind) => m.kind # kind /\ Silent(Tail(flight), kind)
  BY TailLast DEF MonitorType
<1>2. r.kind = "status" /\ r.online = (registered # None)
  BY StatusTypes
<1>3. shown' = IF m.kind = "status" THEN IF m.online THEN "online" ELSE "offline" ELSE shown
  OBVIOUS
<1> HIDE DEF m, r
<1>4. MonitorType'
  BY <1>1, <1>3 DEF MonitorType
<1>5. StatusWillAgree'
  <2> SUFFICES ASSUME socket # None
               PROVE  \/ LastIs(Tail(flight), r)
                      \/ /\ Silent(Tail(flight), "status")
                         /\ shown' = IF registered = None THEN "offline" ELSE "online"
    BY DEF StatusWillAgree, r
  <2>1. LastIs(flight, r) \/ (/\ Silent(flight, "status")
                              /\ shown = IF registered = None THEN "offline" ELSE "online")
    BY DEF StatusWillAgree, r
  <2> QED BY <1>1, <1>2, <1>3, <2>1
<1>6. ListenersFollow'
  BY DEF ListenersFollow, ListensTo
<1> QED BY <1>4, <1>5, <1>6

LEMMA MonitorNext == MonitorInv /\ [Mon!Next]_(Mon!vars) => MonitorInv'
<1> SUFFICES ASSUME MonitorInv, [Mon!Next]_(Mon!vars) PROVE MonitorInv'
  OBVIOUS
<1>0. MonitorType /\ ListenersFollow
  BY DEF MonitorInv
<1>1. ASSUME NEW o \in Objects, Mon!NewDevice(o) PROVE MonitorInv'
  BY <1>0, <1>1, RegisteredChanges DEF Mon!NewDevice, MonitorType, ListenersFollow
<1>2. ASSUME NEW o \in Objects, Mon!CloseDevice(o) PROVE MonitorInv'
  <2>1. CASE registered = o
    <3>1. None \in Objects \cup {None} /\ None # registered /\ None \notin unborn
      BY <1>0, <2>1 DEF MonitorType
    <3> QED BY <1>0, <1>2, <2>1, <3>1, RegisteredChanges DEF Mon!CloseDevice, MonitorType
  <2>2. CASE registered # o
    BY <1>2, <2>2 DEF Mon!CloseDevice, MonitorInv, MonitorType, ListenersFollow, ListensTo,
       StatusWillAgree
  <2> QED BY <2>1, <2>2
<1>3. ASSUME NEW o \in Objects, Mon!Data(o) PROVE MonitorInv'
  BY <1>0, <1>3, PacketsKeep DEF Mon!Data, MonitorType
<1>4. ASSUME NEW s \in Sockets, Mon!Open(s) PROVE MonitorInv'
  BY <1>4, OpenKeeps
<1>5. ASSUME NEW s \in Sockets, Mon!Closed(s) PROVE MonitorInv'
  BY <1>5 DEF Mon!Closed, MonitorInv, MonitorType, ListenersFollow, ListensTo,
     StatusWillAgree
<1>6. ASSUME Mon!Lost PROVE MonitorInv'
  <2>1. flight' \in Seq(MonitorMessages)
    BY <1>6 DEF Mon!Lost
  <2> QED
    BY <1>6, <2>1 DEF Mon!Lost, MonitorInv, MonitorType, ListenersFollow, ListensTo,
       StatusWillAgree
<1>7. ASSUME Mon!Receive PROVE MonitorInv'
  BY <1>7, MonitorReceives
<1>8. ASSUME Mon!Inject PROVE MonitorInv'
  <2>1. registered \in Objects
    BY <1>0, <1>8 DEF Mon!Inject, MonitorType
  <2> QED BY <1>8, <2>1, PacketsKeep DEF Mon!Inject
<1>9. CASE UNCHANGED Mon!vars
  BY <1>9 DEF Mon!vars, MonitorInv, MonitorType, ListenersFollow, ListensTo, StatusWillAgree
<1> QED BY <1>1, <1>2, <1>3, <1>4, <1>5, <1>6, <1>7, <1>8, <1>9 DEF Mon!Next

LEMMA MonitorInvariant == Mon!Spec => []MonitorInv
BY MonitorInit, MonitorNext, PTL DEF Mon!Spec

(***************************************************************************)
(* However many sessions and connections follow each other, each monitor   *)
(* listens once to the registered object and to no other, and shows        *)
(* whether the appliance is there when all has arrived.                    *)
(***************************************************************************)
THEOREM MonitorsFollowTheManager == Mon!Spec => []MonitorFollows
<1>1. MonitorInv => MonitorFollows
  <2> SUFFICES ASSUME MonitorInv PROVE MonitorFollows
    OBVIOUS
  <2>1. \A s \in onManager, o \in Objects : listeners[o][s] = IF o = registered THEN 1 ELSE 0
    BY DEF MonitorInv, ListenersFollow, ListensTo
  <2>2. flight = <<>> => \A x : ~LastIs(flight, x)
    BY DEF LastIs
  <2>3. socket # None /\ flight = <<>> =>
          shown = IF registered = None THEN "offline" ELSE "online"
    BY <2>2 DEF MonitorInv, StatusWillAgree
  <2> QED BY <2>1, <2>3 DEF MonitorFollows, Mon!MonitorFollows
<1>2. QED
  BY <1>1, MonitorInvariant, PTL

-----------------------------------------------------------------------------
(* The broker.                                                             *)

\* What a client may be sent, and of whom: a will, an answer, a retained topic.
Kinds == {"message", "will", "response", "retained"}
Entries == Kinds \X (Clients \cup Topics \cup {None})

BrokerStates ==
  [alive : SUBSET Clients, clients : SUBSET Clients,
   subs : [Clients -> SUBSET Patterns], will : [Clients -> Wills \cup {None}],
   retainMap : [Topics -> Payloads \cup {Empty}], deployMsg : SUBSET Clients,
   deviceObj : [Clients -> BrokerIds \cup {None}],
   clientsById : [BrokerIds -> Clients \cup {None}],
   spoke : [Clients -> BrokerIds \cup {None}],
   sent : [Clients -> Seq(Entries)], given : [Clients -> SUBSET Topics]]

\* A message of somebody, a payload of the pool on a topic of the pool if it is retained.
IsMessage(m) ==
  /\ m.kind \in Kinds /\ m.from \in Clients \cup {None} /\ m.retain \in BOOLEAN
  /\ m.retain => m.topic \in Topics /\ m.payload \in Payloads \cup {Empty}

USE BrokerAssumption

\* What publishing leaves, field by field.
LEMMA DeliverFields ==
  ASSUME NEW b \in BrokerStates, NEW m, IsMessage(m)
  PROVE  LET d == Broker!Deliver(b, m) IN
         /\ d \in BrokerStates
         /\ d.alive = b.alive /\ d.clients = b.clients /\ d.subs = b.subs /\ d.will = b.will
         /\ d.deployMsg = b.deployMsg /\ d.deviceObj = b.deviceObj
         /\ d.clientsById = b.clientsById /\ d.spoke = b.spoke
         /\ \A t \in Topics : d.retainMap[t] = IF m.retain /\ t = m.topic THEN m.payload
                                                ELSE b.retainMap[t]
         /\ \A c \in Clients :
              /\ d.sent[c] = IF Broker!Receives(b, c, m.topic)
                             THEN Append(b.sent[c], <<m.kind, m.from>>) ELSE b.sent[c]
              /\ d.given[c] = IF ~m.retain THEN b.given[c]
                              ELSE IF Broker!Receives(b, c, m.topic) /\ m.payload # Empty
                              THEN b.given[c] \cup {m.topic} ELSE b.given[c] \ {m.topic}
<1> DEFINE to == {c \in Clients : Broker!Receives(b, c, m.topic)}
           s1 == [c \in Clients |-> IF c \in to THEN Append(b.sent[c], <<m.kind, m.from>>)
                                               ELSE b.sent[c]]
           r1 == IF m.retain THEN [b.retainMap EXCEPT ![m.topic] = m.payload] ELSE b.retainMap
           g1 == IF ~m.retain THEN b.given
                 ELSE [c \in Clients |-> IF c \in to /\ m.payload # Empty
                                        THEN b.given[c] \cup {m.topic} ELSE b.given[c] \ {m.topic}]
           d1 == [b EXCEPT !.sent = s1]
           d2 == [d1 EXCEPT !.retainMap = r1]
           d == [d2 EXCEPT !.given = g1]
<1>1. /\ b.alive \subseteq Clients /\ b.clients \subseteq Clients
      /\ b.sent \in [Clients -> Seq(Entries)] /\ b.given \in [Clients -> SUBSET Topics]
      /\ b.retainMap \in [Topics -> Payloads \cup {Empty}]
  BY DEF BrokerStates
<1>2. <<m.kind, m.from>> \in Entries
  BY DEF IsMessage, Entries
<1>3. s1 \in [Clients -> Seq(Entries)]
  BY <1>1, <1>2
<1>4. r1 \in [Topics -> Payloads \cup {Empty}]
  BY <1>1 DEF IsMessage
<1>5. g1 \in [Clients -> SUBSET Topics]
  BY <1>1 DEF IsMessage
<1>6. Broker!Deliver(b, m) = d
  BY DEF Broker!Deliver
<1> HIDE DEF s1, r1, g1
<1>7. /\ d \in BrokerStates
      /\ d.alive = b.alive /\ d.clients = b.clients /\ d.subs = b.subs /\ d.will = b.will
      /\ d.deployMsg = b.deployMsg /\ d.deviceObj = b.deviceObj
      /\ d.clientsById = b.clientsById /\ d.spoke = b.spoke
      /\ d.sent = s1 /\ d.retainMap = r1 /\ d.given = g1
  <2>1. /\ d1 \in BrokerStates /\ d1.sent = s1
        /\ d1.alive = b.alive /\ d1.clients = b.clients /\ d1.subs = b.subs /\ d1.will = b.will
        /\ d1.deployMsg = b.deployMsg /\ d1.deviceObj = b.deviceObj
        /\ d1.clientsById = b.clientsById /\ d1.spoke = b.spoke
    BY <1>3 DEF BrokerStates
  <2> HIDE DEF d1
  <2>2. /\ d2 \in BrokerStates /\ d2.sent = s1 /\ d2.retainMap = r1
        /\ d2.alive = b.alive /\ d2.clients = b.clients /\ d2.subs = b.subs /\ d2.will = b.will
        /\ d2.deployMsg = b.deployMsg /\ d2.deviceObj = b.deviceObj
        /\ d2.clientsById = b.clientsById /\ d2.spoke = b.spoke
    BY <1>4, <2>1 DEF BrokerStates
  <2> HIDE DEF d2
  <2> QED BY <1>5, <2>2 DEF BrokerStates
<1>8. \A t \in Topics : r1[t] = IF m.retain /\ t = m.topic THEN m.payload ELSE b.retainMap[t]
  BY <1>1 DEF r1
<1>9. \A c \in Clients :
        /\ s1[c] = IF Broker!Receives(b, c, m.topic)
                   THEN Append(b.sent[c], <<m.kind, m.from>>) ELSE b.sent[c]
        /\ g1[c] = IF ~m.retain THEN b.given[c]
                   ELSE IF Broker!Receives(b, c, m.topic) /\ m.payload # Empty
                   THEN b.given[c] \cup {m.topic} ELSE b.given[c] \ {m.topic}
  BY <1>1 DEF s1, g1
<1> HIDE DEF d
<1> QED BY <1>6, <1>7, <1>8, <1>9

\* In particular, publishing leaves the acceptor and the subscriptions alone.
LEMMA DeliverSpares ==
  ASSUME NEW b \in BrokerStates, NEW m, IsMessage(m)
  PROVE  LET d == Broker!Deliver(b, m) IN
         /\ d.alive = b.alive /\ d.subs = b.subs /\ d.will = b.will
         /\ d.deviceObj = b.deviceObj /\ d.clientsById = b.clientsById /\ d.spoke = b.spoke
<1> DEFINE d == Broker!Deliver(b, m)
<1>1. b \in BrokerStates /\ IsMessage(m)
  OBVIOUS
<1>2. /\ d \in BrokerStates
      /\ d.alive = b.alive /\ d.clients = b.clients /\ d.subs = b.subs /\ d.will = b.will
      /\ d.deployMsg = b.deployMsg /\ d.deviceObj = b.deviceObj
      /\ d.clientsById = b.clientsById /\ d.spoke = b.spoke
      /\ \A t \in Topics : d.retainMap[t] = IF m.retain /\ t = m.topic THEN m.payload
                                             ELSE b.retainMap[t]
      /\ \A c \in Clients :
           /\ d.sent[c] = IF Broker!Receives(b, c, m.topic)
                          THEN Append(b.sent[c], <<m.kind, m.from>>) ELSE b.sent[c]
           /\ d.given[c] = IF ~m.retain THEN b.given[c]
                           ELSE IF Broker!Receives(b, c, m.topic) /\ m.payload # Empty
                           THEN b.given[c] \cup {m.topic} ELSE b.given[c] \ {m.topic}
  BY Zenon, <1>1, DeliverFields
<1> QED BY <1>2

\* Client.destroy of a living client, with its will and the acceptor's part.
LEMMA DestroyFields ==
  ASSUME NEW b \in BrokerStates, NEW c \in b.alive
  PROVE  LET d == Broker!Destroy(b, c) IN
         /\ d \in BrokerStates
         /\ d.alive = b.alive \ {c} /\ d.clients = b.clients \ {c}
         /\ d.subs = b.subs /\ d.will = b.will /\ d.deployMsg = b.deployMsg /\ d.spoke = b.spoke
         /\ d.retainMap = b.retainMap
         /\ \A i \in BrokerIds : d.clientsById[i] = IF i = b.deviceObj[c] THEN None
                                                                      ELSE b.clientsById[i]
         /\ \A x \in Clients :
              /\ d.deviceObj[x] = IF x = c THEN None ELSE b.deviceObj[x]
              /\ d.given[x] = IF x = c THEN {} ELSE b.given[x]
              /\ d.sent[x] = IF /\ b.will[c] # None /\ x \in b.clients \cap b.alive /\ x # c
                                /\ Broker!Covered(b.subs[x], b.will[c].topic)
                             THEN Append(b.sent[x], <<"will", c>>) ELSE b.sent[x]
<1> DEFINE g0 == [b EXCEPT !.alive = @ \ {c}]
           gone == [b EXCEPT !.alive = @ \ {c}, !.given[c] = {}]
           w == Broker!WillOf(b, c)
           willed == IF b.will[c] = None THEN gone ELSE Broker!Deliver(gone, w)
           i0 == willed.deviceObj[c]
           u1 == [willed EXCEPT !.clientsById[i0] = None]
           u2 == [u1 EXCEPT !.deviceObj[c] = None]
           disc == Broker!Disconnected(willed, c)
           d == [disc EXCEPT !.clients = @ \ {c}]
<1>0. c \in Clients /\ c # None
  BY DEF BrokerStates
<1>1. Broker!Destroy(b, c) = d
  <2>1. Broker!Destroyable(b, c)
    BY DEF Broker!Destroyable
  <2>2. Broker!Destroy(b, c) = IF ~Broker!Destroyable(b, c) THEN b ELSE d
    BY DEF Broker!Destroy
  <2> QED BY Zenon, <2>1, <2>2
<1>2. /\ g0 \in BrokerStates
      /\ g0.alive = b.alive \ {c} /\ g0.clients = b.clients /\ g0.subs = b.subs
      /\ g0.will = b.will /\ g0.retainMap = b.retainMap /\ g0.deployMsg = b.deployMsg
      /\ g0.deviceObj = b.deviceObj /\ g0.clientsById = b.clientsById /\ g0.spoke = b.spoke
      /\ g0.sent = b.sent /\ g0.given = b.given
  BY DEF BrokerStates
<1> HIDE DEF g0
<1>3. /\ gone \in BrokerStates
      /\ gone.alive = b.alive \ {c} /\ gone.clients = b.clients /\ gone.subs = b.subs
      /\ gone.will = b.will /\ gone.retainMap = b.retainMap /\ gone.deployMsg = b.deployMsg
      /\ gone.deviceObj = b.deviceObj /\ gone.clientsById = b.clientsById /\ gone.spoke = b.spoke
      /\ gone.sent = b.sent
      /\ \A x \in Clients : gone.given[x] = IF x = c THEN {} ELSE b.given[x]
  <2> DEFINE g == [g0.given EXCEPT ![c] = {}]
  <2>1. g \in [Clients -> SUBSET Topics] /\ \A x \in Clients : g[x] = IF x = c THEN {} ELSE b.given[x]
    BY <1>0, <1>2 DEF BrokerStates
  <2>2. gone = [g0 EXCEPT !.given = g]
    BY <1>2 DEF BrokerStates, g0
  <2> HIDE DEF g, gone
  <2> QED BY <1>2, <2>1, <2>2 DEF BrokerStates
<1> HIDE DEF gone
<1>4. IsMessage(w) /\ w.topic = b.will[c].topic /\ w.retain = FALSE
      /\ w.kind = "will" /\ w.from = c
  <2>1. /\ w.topic = b.will[c].topic /\ w.retain = FALSE /\ w.kind = "will" /\ w.from = c
    BY <1>3 DEF Broker!WillOf
  <2>2. "will" \in Kinds /\ FALSE \in BOOLEAN
    BY DEF Kinds
  <2> HIDE DEF w
  <2>3. w.kind \in Kinds /\ w.from \in Clients \cup {None}
    BY <1>0, <2>1, <2>2
  <2>4. w.retain \in BOOLEAN
    BY <2>1, <2>2
  <2>5. w.retain => w.topic \in Topics /\ w.payload \in Payloads \cup {Empty}
    BY <2>1
  <2> QED BY <2>1, <2>3, <2>4, <2>5 DEF IsMessage
<1> HIDE DEF w
<1>5. /\ willed \in BrokerStates
      /\ willed.alive = b.alive \ {c} /\ willed.clients = b.clients /\ willed.subs = b.subs
      /\ willed.will = b.will /\ willed.deployMsg = b.deployMsg
      /\ willed.deviceObj = b.deviceObj /\ willed.clientsById = b.clientsById
      /\ willed.spoke = b.spoke
      /\ \A t \in Topics : willed.retainMap[t] = b.retainMap[t]
      /\ \A x \in Clients :
           /\ willed.given[x] = IF x = c THEN {} ELSE b.given[x]
           /\ willed.sent[x] = IF b.will[c] # None /\ Broker!Receives(gone, x, w.topic)
                               THEN Append(b.sent[x], <<"will", c>>) ELSE b.sent[x]
  <2>1. CASE b.will[c] = None
    BY <1>3, <2>1
  <2>2. CASE b.will[c] # None
    <3> DEFINE v == Broker!Deliver(gone, w)
    <3>1. willed = v
      BY <2>2
    <3>2. /\ v \in BrokerStates
          /\ v.alive = gone.alive /\ v.clients = gone.clients /\ v.subs = gone.subs
          /\ v.will = gone.will
          /\ v.deployMsg = gone.deployMsg /\ v.deviceObj = gone.deviceObj
          /\ v.clientsById = gone.clientsById /\ v.spoke = gone.spoke
          /\ \A t \in Topics : v.retainMap[t] = gone.retainMap[t]
          /\ \A x \in Clients :
               /\ v.sent[x] = IF Broker!Receives(gone, x, w.topic)
                              THEN Append(gone.sent[x], <<w.kind, w.from>>) ELSE gone.sent[x]
               /\ v.given[x] = gone.given[x]
      <4>1. gone \in BrokerStates /\ IsMessage(w) /\ w.retain = FALSE
        BY <1>3, <1>4
      <4>2. /\ v \in BrokerStates
            /\ v.alive = gone.alive /\ v.clients = gone.clients /\ v.subs = gone.subs
            /\ v.will = gone.will
            /\ v.deployMsg = gone.deployMsg /\ v.deviceObj = gone.deviceObj
            /\ v.clientsById = gone.clientsById /\ v.spoke = gone.spoke
            /\ \A t \in Topics : v.retainMap[t] = IF w.retain /\ t = w.topic THEN w.payload
                                                   ELSE gone.retainMap[t]
            /\ \A x \in Clients :
                 /\ v.sent[x] = IF Broker!Receives(gone, x, w.topic)
                                THEN Append(gone.sent[x], <<w.kind, w.from>>) ELSE gone.sent[x]
                 /\ v.given[x] = IF ~w.retain THEN gone.given[x]
                                 ELSE IF Broker!Receives(gone, x, w.topic) /\ w.payload # Empty
                                 THEN gone.given[x] \cup {w.topic} ELSE gone.given[x] \ {w.topic}
        <5> HIDE DEF willed, i0, u1, u2, disc, d
        <5> QED BY Zenon, <4>1, DeliverFields
      <4> HIDE DEF willed, v
      <4> QED BY <4>1, <4>2
    <3> HIDE DEF v, willed
    <3> QED BY <1>3, <1>4, <2>2, <3>1, <3>2
  <2> QED BY <2>1, <2>2
<1> HIDE DEF willed
<1>6. i0 = b.deviceObj[c] /\ i0 \in BrokerIds \cup {None}
  BY <1>0, <1>5 DEF BrokerStates
<1>7. /\ disc \in BrokerStates
      /\ disc.alive = b.alive \ {c} /\ disc.clients = b.clients /\ disc.subs = b.subs
      /\ disc.will = b.will /\ disc.deployMsg = b.deployMsg /\ disc.spoke = b.spoke
      /\ disc.retainMap = willed.retainMap /\ disc.given = willed.given /\ disc.sent = willed.sent
      /\ \A i \in BrokerIds : disc.clientsById[i] = IF i = i0 THEN None ELSE b.clientsById[i]
      /\ \A x \in Clients : disc.deviceObj[x] = IF x = c THEN None ELSE b.deviceObj[x]
  <2>1. CASE i0 = None
    <3>1. disc = willed
      BY <2>1 DEF Broker!Disconnected
    <3> HIDE DEF disc
    <3> QED BY <1>0, <1>5, <1>6, <2>1, <3>1 DEF BrokerStates
  <2>2. CASE i0 # None
    <3> DEFINE by == [willed.clientsById EXCEPT ![i0] = None]
               ob == [willed.deviceObj EXCEPT ![c] = None]
    <3>1. /\ by \in [BrokerIds -> Clients \cup {None}]
          /\ \A i \in BrokerIds : by[i] = IF i = i0 THEN None ELSE b.clientsById[i]
      BY <1>5, <1>6, <2>2 DEF BrokerStates
    <3>2. /\ ob \in [Clients -> BrokerIds \cup {None}]
          /\ \A x \in Clients : ob[x] = IF x = c THEN None ELSE b.deviceObj[x]
      BY <1>0, <1>5 DEF BrokerStates
    <3>3. u1 = [willed EXCEPT !.clientsById = by]
      BY <1>5 DEF BrokerStates
    <3> HIDE DEF u1, by, ob, i0
    <3>4. /\ u1 \in BrokerStates /\ u1.clientsById = by
          /\ u1.alive = willed.alive /\ u1.clients = willed.clients /\ u1.subs = willed.subs
          /\ u1.will = willed.will /\ u1.deployMsg = willed.deployMsg /\ u1.spoke = willed.spoke
          /\ u1.retainMap = willed.retainMap /\ u1.given = willed.given
          /\ u1.sent = willed.sent /\ u1.deviceObj = willed.deviceObj
      BY <1>5, <3>1, <3>3 DEF BrokerStates
    <3>5. u2 = [u1 EXCEPT !.deviceObj = ob]
      BY <3>4 DEF BrokerStates, ob
    <3>6. /\ u2 \in BrokerStates /\ u2.deviceObj = ob
          /\ u2.alive = u1.alive /\ u2.clients = u1.clients /\ u2.subs = u1.subs
          /\ u2.will = u1.will /\ u2.deployMsg = u1.deployMsg /\ u2.spoke = u1.spoke
          /\ u2.retainMap = u1.retainMap /\ u2.given = u1.given
          /\ u2.sent = u1.sent /\ u2.clientsById = u1.clientsById
      <4> HIDE DEF u2
      <4> QED BY <3>2, <3>4, <3>5 DEF BrokerStates
    <3>7. disc = u2
      BY <2>2 DEF Broker!Disconnected, u1, i0
    <3> HIDE DEF u2, disc
    <3> QED BY <1>5, <3>1, <3>2, <3>4, <3>6, <3>7
  <2> QED BY <2>1, <2>2
<1> HIDE DEF disc, i0
<1>8. /\ d \in BrokerStates
      /\ d.clients = disc.clients \ {c}
      /\ d.alive = disc.alive /\ d.subs = disc.subs
      /\ d.will = disc.will /\ d.deployMsg = disc.deployMsg /\ d.spoke = disc.spoke
      /\ d.retainMap = disc.retainMap /\ d.given = disc.given /\ d.sent = disc.sent
      /\ d.clientsById = disc.clientsById /\ d.deviceObj = disc.deviceObj
  BY <1>7 DEF BrokerStates
<1> HIDE DEF d
<1>9. d.retainMap = b.retainMap
  BY <1>5, <1>7, <1>8 DEF BrokerStates
<1>10. \A x \in Clients : Broker!Receives(gone, x, w.topic) <=>
         /\ x \in b.clients \cap b.alive /\ x # c
         /\ Broker!Covered(b.subs[x], b.will[c].topic)
  BY <1>3, <1>4 DEF Broker!Receives
<1> QED BY <1>1, <1>5, <1>6, <1>7, <1>8, <1>9, <1>10

-----------------------------------------------------------------------------
(* What holds of the broker between and during events: only a living       *)
(* client speaks for an appliance, the acceptor's map and the clients      *)
(* agree, and a connection not yet accepted has left no trace.             *)

BrokerOK(b, u) ==
  /\ b \in BrokerStates
  /\ u \in SUBSET Clients
  /\ b.alive = b.clients /\ b.alive \subseteq u
  /\ \A c \in Clients \ u : b.subs[c] = {} /\ b.deviceObj[c] = None /\ b.spoke[c] = None
  /\ \A c \in Clients : b.deviceObj[c] # None =>
       /\ c \in b.alive
       /\ b.clientsById[b.deviceObj[c]] = c
       /\ b.spoke[c] = b.deviceObj[c]
  /\ \A c \in b.alive : b.deviceObj[c] = None => b.spoke[c] = None
  /\ \A i \in BrokerIds : b.clientsById[i] # None => b.deviceObj[b.clientsById[i]] = i

\* Every living client has the present message of the retained topics it asked for.
Reaches(b) ==
  \A c \in b.alive, t \in Topics :
    b.retainMap[t] # Empty /\ Broker!Covered(b.subs[c], t) => t \in b.given[c]

BrokerInv ==
  /\ BrokerOK(Broker!Broker, used)
  /\ Reaches(Broker!Broker)
  /\ Broker!NoCopies

LEMMA DeliverKeeps ==
  ASSUME NEW b, NEW m, NEW u, IsMessage(m), BrokerOK(b, u), Reaches(b)
  PROVE  BrokerOK(Broker!Deliver(b, m), u) /\ Reaches(Broker!Deliver(b, m))
<1> DEFINE d == Broker!Deliver(b, m)
<1>1. b \in BrokerStates /\ IsMessage(m)
  BY DEF BrokerOK
<1>2. /\ d \in BrokerStates
      /\ d.alive = b.alive /\ d.clients = b.clients /\ d.subs = b.subs /\ d.will = b.will
      /\ d.deployMsg = b.deployMsg /\ d.deviceObj = b.deviceObj
      /\ d.clientsById = b.clientsById /\ d.spoke = b.spoke
      /\ \A t \in Topics : d.retainMap[t] = IF m.retain /\ t = m.topic THEN m.payload
                                             ELSE b.retainMap[t]
      /\ \A c \in Clients :
           /\ d.sent[c] = IF Broker!Receives(b, c, m.topic)
                          THEN Append(b.sent[c], <<m.kind, m.from>>) ELSE b.sent[c]
           /\ d.given[c] = IF ~m.retain THEN b.given[c]
                           ELSE IF Broker!Receives(b, c, m.topic) /\ m.payload # Empty
                           THEN b.given[c] \cup {m.topic} ELSE b.given[c] \ {m.topic}
  BY Zenon, <1>1, DeliverFields
<1> HIDE DEF d
<1>3. BrokerOK(d, u)
  BY <1>2 DEF BrokerOK
<1>4. Reaches(d)
  <2> SUFFICES ASSUME NEW c \in d.alive, NEW t \in Topics,
                      d.retainMap[t] # Empty, Broker!Covered(d.subs[c], t)
               PROVE  t \in d.given[c]
    BY DEF Reaches
  <2>1. c \in Clients /\ c \in b.alive /\ c \in b.clients /\ Broker!Covered(b.subs[c], t)
    BY <1>1, <1>2 DEF BrokerOK, BrokerStates
  <2>2. CASE m.retain /\ t = m.topic
    BY <1>2, <2>1, <2>2 DEF Broker!Receives
  <2>3. CASE ~(m.retain /\ t = m.topic)
    <3>1. t \in b.given[c]
      BY <1>2, <2>1, <2>3 DEF Reaches
    <3> QED BY <1>2, <2>1, <2>3, <3>1
  <2> QED BY <2>2, <2>3
<1> QED BY <1>3, <1>4 DEF d

LEMMA DestroyKeeps ==
  ASSUME NEW b, NEW u, BrokerOK(b, u), Reaches(b), NEW c \in b.alive
  PROVE  BrokerOK(Broker!Destroy(b, c), u) /\ Reaches(Broker!Destroy(b, c))
<1> DEFINE d == Broker!Destroy(b, c)
<1>1. b \in BrokerStates /\ c \in b.alive
  BY DEF BrokerOK
<1>2. /\ d \in BrokerStates
      /\ d.alive = b.alive \ {c} /\ d.clients = b.clients \ {c}
      /\ d.subs = b.subs /\ d.will = b.will /\ d.deployMsg = b.deployMsg /\ d.spoke = b.spoke
      /\ d.retainMap = b.retainMap
      /\ \A i \in BrokerIds : d.clientsById[i] = IF i = b.deviceObj[c] THEN None
                                                                   ELSE b.clientsById[i]
      /\ \A x \in Clients :
           /\ d.deviceObj[x] = IF x = c THEN None ELSE b.deviceObj[x]
           /\ d.given[x] = IF x = c THEN {} ELSE b.given[x]
           /\ d.sent[x] = IF /\ b.will[c] # None /\ x \in b.clients \cap b.alive /\ x # c
                             /\ Broker!Covered(b.subs[x], b.will[c].topic)
                          THEN Append(b.sent[x], <<"will", c>>) ELSE b.sent[x]
  BY <1>1, DestroyFields
<1> HIDE DEF d
<1>3. /\ b.alive \subseteq Clients
      /\ b.deviceObj \in [Clients -> BrokerIds \cup {None}]
      /\ b.clientsById \in [BrokerIds -> Clients \cup {None}]
      /\ d.alive \subseteq Clients
  BY <1>1, <1>2 DEF BrokerStates
<1>4. BrokerOK(d, u)
  <2>1. /\ d \in BrokerStates /\ u \in SUBSET Clients
        /\ d.alive = d.clients /\ d.alive \subseteq u
        /\ \A x \in Clients \ u : d.subs[x] = {} /\ d.deviceObj[x] = None /\ d.spoke[x] = None
    BY <1>2 DEF BrokerOK
  <2>2. \A x \in Clients : d.deviceObj[x] # None =>
          /\ x \in d.alive
          /\ d.clientsById[d.deviceObj[x]] = x
          /\ d.spoke[x] = d.deviceObj[x]
    <3> SUFFICES ASSUME NEW x \in Clients, d.deviceObj[x] # None
                 PROVE  /\ x \in d.alive
                        /\ d.clientsById[d.deviceObj[x]] = x
                        /\ d.spoke[x] = d.deviceObj[x]
      OBVIOUS
    <3>1. x # c /\ d.deviceObj[x] = b.deviceObj[x] /\ b.deviceObj[x] \in BrokerIds
      BY <1>2, <1>3
    <3>2. x \in b.alive /\ b.clientsById[b.deviceObj[x]] = x /\ b.spoke[x] = b.deviceObj[x]
      BY <3>1 DEF BrokerOK
    <3>3. b.deviceObj[x] # b.deviceObj[c]
      BY <1>1, <1>3, <3>1, <3>2 DEF BrokerOK
    <3> QED BY <1>2, <3>1, <3>2, <3>3
  <2>3. \A x \in d.alive : d.deviceObj[x] = None => d.spoke[x] = None
    BY <1>2, <1>3 DEF BrokerOK
  <2>4. \A i \in BrokerIds : d.clientsById[i] # None => d.deviceObj[d.clientsById[i]] = i
    <3> SUFFICES ASSUME NEW i \in BrokerIds, d.clientsById[i] # None
                 PROVE  d.deviceObj[d.clientsById[i]] = i
      OBVIOUS
    <3>1. i # b.deviceObj[c] /\ d.clientsById[i] = b.clientsById[i]
      BY <1>2
    <3>2. b.clientsById[i] \in Clients /\ b.deviceObj[b.clientsById[i]] = i
      BY <1>3, <3>1 DEF BrokerOK
    <3> QED BY <1>2, <3>1, <3>2
  <2> QED BY <2>1, <2>2, <2>3, <2>4 DEF BrokerOK
<1>5. Reaches(d)
  BY <1>2, <1>3 DEF Reaches
<1> QED BY <1>4, <1>5 DEF d

\* completeProvisioning by a connection that speaks for nobody yet: the connection
\* that spoke for the appliance is destroyed and this one takes its place.
LEMMA CompleteFields ==
  ASSUME NEW b, NEW u, BrokerOK(b, u), Reaches(b), NEW c \in b.alive, NEW i \in BrokerIds,
         c \in b.deployMsg, b.deviceObj[c] = None
  PROVE  LET d == Broker!CompleteProvisioning(b, c, i)
             o == b.clientsById[i]
         IN
         /\ BrokerOK(d, u) /\ Reaches(d)
         /\ o # None => o \in b.alive /\ o # c /\ b.deviceObj[o] = i
         /\ d.alive = b.alive \ {o} /\ d.subs = b.subs /\ d.will = b.will
         /\ \A j \in BrokerIds : d.clientsById[j] = IF j = i THEN c ELSE b.clientsById[j]
         /\ \A x \in Clients :
              /\ d.deviceObj[x] = IF x = c THEN i ELSE IF x = o THEN None ELSE b.deviceObj[x]
              /\ d.spoke[x] = IF x = c THEN i ELSE b.spoke[x]
              /\ d.sent[x] = IF /\ o # None /\ b.will[o] # None /\ x \in b.alive \ {o}
                                /\ Broker!Covered(b.subs[x], b.will[o].topic)
                             THEN Append(b.sent[x], <<"will", o>>) ELSE b.sent[x]
<1> DEFINE o == b.clientsById[i]
           b1 == IF o = None THEN b ELSE Broker!Destroy(b, o)
           by == [b1.clientsById EXCEPT ![i] = c]
           ob == [b1.deviceObj EXCEPT ![c] = i]
           sp == [b1.spoke EXCEPT ![c] = i]
           d1 == [b1 EXCEPT !.clientsById = by]
           d2 == [d1 EXCEPT !.deviceObj = ob]
           d == [d2 EXCEPT !.spoke = sp]
<1>1. /\ b \in BrokerStates /\ b.alive \subseteq Clients /\ c \in Clients /\ c # None /\ i # None
      /\ b.alive = b.clients
      /\ b.clientsById \in [BrokerIds -> Clients \cup {None}]
      /\ b.deviceObj \in [Clients -> BrokerIds \cup {None}]
  BY DEF BrokerOK, BrokerStates
<1>2. o # None => o \in b.alive /\ o # c /\ b.deviceObj[o] = i
  BY <1>1 DEF BrokerOK
<1>3. Broker!CompleteProvisioning(b, c, i) = d
  BY DEF Broker!CompleteProvisioning
<1>4. BrokerOK(b1, u) /\ Reaches(b1)
  <2>1. CASE o = None
    BY <2>1
  <2>2. CASE o # None
    <3>1. BrokerOK(Broker!Destroy(b, o), u) /\ Reaches(Broker!Destroy(b, o))
      BY Zenon, <1>2, <2>2, DestroyKeeps
    <3> QED BY <2>2, <3>1
  <2> QED BY <2>1, <2>2
<1>5. /\ b1.alive = b.alive \ {o} /\ b1.clients = b.clients \ {o}
      /\ b1.subs = b.subs /\ b1.will = b.will /\ b1.spoke = b.spoke
      /\ \A j \in BrokerIds \ {i} : b1.clientsById[j] = b.clientsById[j]
      /\ \A x \in Clients :
           /\ b1.deviceObj[x] = IF x = o THEN None ELSE b.deviceObj[x]
           /\ b1.sent[x] = IF /\ o # None /\ b.will[o] # None /\ x \in b.alive \ {o}
                              /\ Broker!Covered(b.subs[x], b.will[o].topic)
                           THEN Append(b.sent[x], <<"will", o>>) ELSE b.sent[x]
  <2>1. CASE o = None
    BY <1>1, <2>1
  <2>2. CASE o # None
    <3> DEFINE e == Broker!Destroy(b, o)
    <3>1. b \in BrokerStates /\ o \in b.alive
      BY <1>1, <1>2, <2>2
    <3>2. /\ e \in BrokerStates
          /\ e.alive = b.alive \ {o} /\ e.clients = b.clients \ {o}
          /\ e.subs = b.subs /\ e.will = b.will /\ e.deployMsg = b.deployMsg /\ e.spoke = b.spoke
          /\ e.retainMap = b.retainMap
          /\ \A j \in BrokerIds : e.clientsById[j] = IF j = b.deviceObj[o] THEN None
                                                                       ELSE b.clientsById[j]
          /\ \A x \in Clients :
               /\ e.deviceObj[x] = IF x = o THEN None ELSE b.deviceObj[x]
               /\ e.given[x] = IF x = o THEN {} ELSE b.given[x]
               /\ e.sent[x] = IF /\ b.will[o] # None /\ x \in b.clients \cap b.alive /\ x # o
                                 /\ Broker!Covered(b.subs[x], b.will[o].topic)
                              THEN Append(b.sent[x], <<"will", o>>) ELSE b.sent[x]
      <4> HIDE DEF o
      <4> QED BY <3>1, DestroyFields
    <3>3. b1 = e
      BY <2>2
    <3> HIDE DEF e, b1, o
    <3> QED BY <1>1, <1>2, <2>2, <3>2, <3>3
  <2> QED BY <2>1, <2>2
<1> HIDE DEF b1, o
<1>6. /\ b1 \in BrokerStates
      /\ b1.clientsById \in [BrokerIds -> Clients \cup {None}]
      /\ b1.deviceObj \in [Clients -> BrokerIds \cup {None}]
      /\ b1.spoke \in [Clients -> BrokerIds \cup {None}]
  BY <1>4 DEF BrokerOK, BrokerStates
<1>7. /\ by \in [BrokerIds -> Clients \cup {None}]
      /\ \A j \in BrokerIds : by[j] = IF j = i THEN c ELSE b.clientsById[j]
  BY <1>1, <1>5, <1>6
<1>8. /\ ob \in [Clients -> BrokerIds \cup {None}]
      /\ \A x \in Clients : ob[x] = IF x = c THEN i ELSE IF x = o THEN None ELSE b.deviceObj[x]
  BY <1>1, <1>5, <1>6
<1>9. /\ sp \in [Clients -> BrokerIds \cup {None}]
      /\ \A x \in Clients : sp[x] = IF x = c THEN i ELSE b.spoke[x]
  BY <1>1, <1>5, <1>6
<1> HIDE DEF by, ob, sp
<1>10. /\ d1 \in BrokerStates /\ d1.clientsById = by
       /\ d1.alive = b1.alive /\ d1.clients = b1.clients /\ d1.subs = b1.subs
       /\ d1.will = b1.will /\ d1.deployMsg = b1.deployMsg /\ d1.given = b1.given
       /\ d1.retainMap = b1.retainMap /\ d1.sent = b1.sent
  BY <1>6, <1>7 DEF BrokerStates
<1> HIDE DEF d1
<1>11. /\ d2 \in BrokerStates /\ d2.clientsById = by /\ d2.deviceObj = ob
       /\ d2.alive = b1.alive /\ d2.clients = b1.clients /\ d2.subs = b1.subs
       /\ d2.will = b1.will /\ d2.deployMsg = b1.deployMsg /\ d2.given = b1.given
       /\ d2.retainMap = b1.retainMap /\ d2.sent = b1.sent
  BY <1>8, <1>10 DEF BrokerStates
<1> HIDE DEF d2
<1>12. /\ d \in BrokerStates /\ d.clientsById = by /\ d.deviceObj = ob /\ d.spoke = sp
       /\ d.alive = b1.alive /\ d.clients = b1.clients /\ d.subs = b1.subs
       /\ d.will = b1.will /\ d.given = b1.given
       /\ d.retainMap = b1.retainMap /\ d.sent = b1.sent
  BY <1>9, <1>11 DEF BrokerStates
<1> HIDE DEF d
<1>13. BrokerOK(d, u)
  <2>1. /\ d \in BrokerStates /\ u \in SUBSET Clients
        /\ d.alive = d.clients /\ d.alive \subseteq u /\ c \in d.alive
    BY <1>2, <1>4, <1>5, <1>12 DEF BrokerOK
  <2>2. \A x \in Clients \ u : d.subs[x] = {} /\ d.deviceObj[x] = None /\ d.spoke[x] = None
    BY <1>5, <1>8, <1>9, <1>12, <2>1 DEF BrokerOK
  <2>3. \A x \in Clients : d.deviceObj[x] # None =>
          /\ x \in d.alive
          /\ d.clientsById[d.deviceObj[x]] = x
          /\ d.spoke[x] = d.deviceObj[x]
    <3> SUFFICES ASSUME NEW x \in Clients, x # c, d.deviceObj[x] # None
                 PROVE  /\ x \in d.alive
                        /\ d.clientsById[d.deviceObj[x]] = x
                        /\ d.spoke[x] = d.deviceObj[x]
      BY <1>1, <1>7, <1>8, <1>9, <1>12, <2>1
    <3>1. x # o /\ d.deviceObj[x] = b.deviceObj[x] /\ b.deviceObj[x] \in BrokerIds
      BY <1>1, <1>8, <1>12
    <3>2. x \in b.alive /\ b.clientsById[b.deviceObj[x]] = x /\ b.spoke[x] = b.deviceObj[x]
      BY <3>1 DEF BrokerOK
    <3>3. b.deviceObj[x] # i
      BY <3>1, <3>2 DEF o
    <3> QED BY <1>5, <1>7, <1>9, <1>12, <3>1, <3>2, <3>3
  <2>4. \A x \in d.alive : d.deviceObj[x] = None => d.spoke[x] = None
    <3> SUFFICES ASSUME NEW x \in d.alive, d.deviceObj[x] = None
                 PROVE  d.spoke[x] = None
      OBVIOUS
    <3>1. x \in b.alive /\ x # o /\ x \in Clients
      BY <1>1, <1>5, <1>12
    <3>2. x # c /\ b.deviceObj[x] = None
      BY <1>1, <1>8, <1>12, <3>1
    <3> QED BY <1>9, <1>12, <3>1, <3>2 DEF BrokerOK
  <2>5. \A j \in BrokerIds : d.clientsById[j] # None => d.deviceObj[d.clientsById[j]] = j
    <3> SUFFICES ASSUME NEW j \in BrokerIds, j # i, d.clientsById[j] # None
                 PROVE  d.deviceObj[d.clientsById[j]] = j
      BY <1>1, <1>7, <1>8, <1>12
    <3>1. d.clientsById[j] = b.clientsById[j] /\ b.clientsById[j] \in Clients
      BY <1>1, <1>7, <1>12
    <3>2. b.deviceObj[b.clientsById[j]] = j
      BY <3>1 DEF BrokerOK
    <3>3. b.clientsById[j] # c /\ b.clientsById[j] # o
      BY <1>1, <1>2, <3>1, <3>2
    <3> QED BY <1>8, <1>12, <3>1, <3>2, <3>3
  <2> QED BY <2>1, <2>2, <2>3, <2>4, <2>5 DEF BrokerOK
<1>14. Reaches(d)
  BY <1>4, <1>12 DEF Reaches
<1> HIDE DEF d
<1>15. /\ d.alive = b.alive \ {o} /\ d.subs = b.subs /\ d.will = b.will
       /\ \A j \in BrokerIds : d.clientsById[j] = IF j = i THEN c ELSE b.clientsById[j]
       /\ \A x \in Clients :
            /\ d.deviceObj[x] = IF x = c THEN i ELSE IF x = o THEN None ELSE b.deviceObj[x]
            /\ d.spoke[x] = IF x = c THEN i ELSE b.spoke[x]
            /\ d.sent[x] = IF /\ o # None /\ b.will[o] # None /\ x \in b.alive \ {o}
                              /\ Broker!Covered(b.subs[x], b.will[o].topic)
                           THEN Append(b.sent[x], <<"will", o>>) ELSE b.sent[x]
  BY <1>5, <1>7, <1>8, <1>9, <1>12
<1> QED BY Zenon, <1>2, <1>3, <1>13, <1>14, <1>15 DEF o

-----------------------------------------------------------------------------
(* What the clients are sent during an event, as sets and without copies.  *)

Tells(b, x) == Broker!ToSet(b.sent[x])

Once(b) == \A x \in Clients : Broker!IsInjective(b.sent[x])

LEMMA NothingSent == Broker!IsInjective(<<>>) /\ Broker!ToSet(<<>>) = {}
  BY DEF Broker!IsInjective, Broker!ToSet

LEMMA AppendEntry ==
  ASSUME NEW s \in Seq(Entries), NEW e \in Entries
  PROVE  /\ Broker!ToSet(Append(s, e)) = Broker!ToSet(s) \cup {e}
         /\ Broker!IsInjective(s) /\ e \notin Broker!ToSet(s) => Broker!IsInjective(Append(s, e))
<1> DEFINE z == Append(s, e)
<1>1. /\ z \in Seq(Entries) /\ Len(s) \in Nat
      /\ DOMAIN s = 1 .. Len(s) /\ DOMAIN z = 1 .. Len(s) + 1
      /\ \A n \in 1 .. Len(s) : z[n] = s[n]
      /\ z[Len(s) + 1] = e
  OBVIOUS
<1> HIDE DEF z
<1>2. Broker!ToSet(z) = Broker!ToSet(s) \cup {e}
  BY <1>1 DEF Broker!ToSet
<1>3. ASSUME Broker!IsInjective(s), e \notin Broker!ToSet(s)
      PROVE  Broker!IsInjective(z)
  <2>1. \A n \in 1 .. Len(s) : s[n] # e
    BY <1>1, <1>3 DEF Broker!ToSet
  <2>2. \A n \in 1 .. Len(s) + 1 : n \in 1 .. Len(s) \/ n = Len(s) + 1
    BY <1>1
  <2> QED BY <1>1, <1>3, <2>1, <2>2 DEF Broker!IsInjective
<1> QED BY <1>2, <1>3 DEF z

LEMMA DeliverTells ==
  ASSUME NEW b \in BrokerStates, NEW m, IsMessage(m), Once(b),
         \A x \in Clients : <<m.kind, m.from>> \notin Tells(b, x)
  PROVE  LET d == Broker!Deliver(b, m) IN
         /\ Once(d)
         /\ \A x \in Clients :
              Tells(d, x) = IF Broker!Receives(b, x, m.topic)
                            THEN Tells(b, x) \cup {<<m.kind, m.from>>} ELSE Tells(b, x)
<1> DEFINE d == Broker!Deliver(b, m)
           e == <<m.kind, m.from>>
<1>1. b \in BrokerStates /\ IsMessage(m)
  OBVIOUS
<1>2. /\ d \in BrokerStates
      /\ d.alive = b.alive /\ d.clients = b.clients /\ d.subs = b.subs /\ d.will = b.will
      /\ d.deployMsg = b.deployMsg /\ d.deviceObj = b.deviceObj
      /\ d.clientsById = b.clientsById /\ d.spoke = b.spoke
      /\ \A t \in Topics : d.retainMap[t] = IF m.retain /\ t = m.topic THEN m.payload
                                             ELSE b.retainMap[t]
      /\ \A c \in Clients :
           /\ d.sent[c] = IF Broker!Receives(b, c, m.topic)
                          THEN Append(b.sent[c], <<m.kind, m.from>>) ELSE b.sent[c]
           /\ d.given[c] = IF ~m.retain THEN b.given[c]
                           ELSE IF Broker!Receives(b, c, m.topic) /\ m.payload # Empty
                           THEN b.given[c] \cup {m.topic} ELSE b.given[c] \ {m.topic}
  BY Zenon, <1>1, DeliverFields
<1>3. e \in Entries /\ \A x \in Clients : b.sent[x] \in Seq(Entries)
  BY DEF BrokerStates, Entries, IsMessage
<1> HIDE DEF d, e
<1>4. ASSUME NEW x \in Clients
      PROVE  /\ Broker!IsInjective(d.sent[x])
             /\ Tells(d, x) = IF Broker!Receives(b, x, m.topic)
                              THEN Tells(b, x) \cup {e} ELSE Tells(b, x)
  <2>1. /\ Broker!IsInjective(b.sent[x]) /\ e \notin Broker!ToSet(b.sent[x])
        /\ d.sent[x] = IF Broker!Receives(b, x, m.topic) THEN Append(b.sent[x], e) ELSE b.sent[x]
    BY <1>2 DEF Once, Tells, e
  <2>2. /\ Broker!ToSet(Append(b.sent[x], e)) = Broker!ToSet(b.sent[x]) \cup {e}
        /\ Broker!IsInjective(Append(b.sent[x], e))
    BY <1>3, <2>1, AppendEntry
  <2> QED BY <2>1, <2>2 DEF Tells
<1> QED BY <1>4 DEF Once, d, e

\* 'preDeploy' and 'deploy' change nothing that the acceptor's map depends on.
LEMMA DeployFields ==
  ASSUME NEW b, NEW u, BrokerOK(b, u), Reaches(b), NEW c \in b.alive, NEW i,
         Once(b), \A x \in Clients : Tells(b, x) = {}
  PROVE  LET d == Broker!Deploy(b, c, i) IN
         /\ BrokerOK(d, u) /\ Reaches(d) /\ Once(d)
         /\ d.alive = b.alive /\ d.subs = b.subs /\ d.will = b.will
         /\ d.deviceObj = b.deviceObj /\ d.clientsById = b.clientsById /\ d.spoke = b.spoke
         /\ \A x \in Clients : Tells(d, x) \subseteq {<<"response", None>>}
<1> DEFINE n == b.deployMsg \cup {c}
           b1 == [b EXCEPT !.deployMsg = n]
           m == Broker!Response(i)
           d == Broker!Deliver(b1, m)
<1>1. /\ b1 \in BrokerStates
      /\ b1.alive = b.alive /\ b1.clients = b.clients /\ b1.subs = b.subs /\ b1.will = b.will
      /\ b1.deviceObj = b.deviceObj /\ b1.clientsById = b.clientsById /\ b1.spoke = b.spoke
      /\ b1.sent = b.sent /\ b1.given = b.given /\ b1.retainMap = b.retainMap
  <2>1. b \in BrokerStates /\ n \in SUBSET Clients
    BY DEF BrokerOK, BrokerStates
  <2> HIDE DEF n
  <2> QED BY <2>1 DEF BrokerStates
<1>2. Broker!Deploy(b, c, i) = d
  BY DEF Broker!Deploy
<1>3. IsMessage(m) /\ m.kind = "response" /\ m.from = None
  <2>1. m.kind = "response" /\ m.from = None /\ m.retain = FALSE
    BY DEF Broker!Response
  <2>2. "response" \in Kinds
    BY DEF Kinds
  <2> HIDE DEF m
  <2> QED BY <2>1, <2>2 DEF IsMessage
<1> HIDE DEF b1, m
<1>4. BrokerOK(b1, u) /\ Reaches(b1) /\ Once(b1)
  <2>1. BrokerOK(b1, u)
    BY <1>1 DEF BrokerOK
  <2>2. Reaches(b1) /\ Once(b1)
    BY <1>1 DEF Reaches, Once
  <2> QED BY <2>1, <2>2
<1>5. BrokerOK(d, u) /\ Reaches(d)
  BY Zenon, <1>3, <1>4, DeliverKeeps
<1>6. /\ d.alive = b1.alive /\ d.subs = b1.subs /\ d.will = b1.will
      /\ d.deviceObj = b1.deviceObj /\ d.clientsById = b1.clientsById /\ d.spoke = b1.spoke
  <2>1. b1 \in BrokerStates /\ IsMessage(m)
    BY <1>1, <1>3
  <2> QED BY Zenon, <2>1, DeliverSpares
<1>7. \A x \in Clients : Tells(b1, x) = {}
  BY <1>1 DEF Tells
<1>8. /\ Once(d)
      /\ \A x \in Clients :
           Tells(d, x) = IF Broker!Receives(b1, x, m.topic)
                         THEN Tells(b1, x) \cup {<<m.kind, m.from>>} ELSE Tells(b1, x)
  <2>1. b1 \in BrokerStates /\ IsMessage(m) /\ Once(b1)
        /\ \A x \in Clients : <<m.kind, m.from>> \notin Tells(b1, x)
    BY <1>1, <1>3, <1>4, <1>7
  <2> QED BY Zenon, <2>1, DeliverTells
<1> HIDE DEF d
<1>9. \A x \in Clients : Tells(d, x) \subseteq {<<"response", None>>}
  BY <1>3, <1>7, <1>8
<1>10. /\ d.alive = b.alive /\ d.subs = b.subs /\ d.will = b.will
       /\ d.deviceObj = b.deviceObj /\ d.clientsById = b.clientsById /\ d.spoke = b.spoke
  BY <1>1, <1>6
<1> QED BY Zenon, <1>2, <1>5, <1>8, <1>9, <1>10

-----------------------------------------------------------------------------
(* An event of a connection takes the broker from record b to record r.    *)

\* Where every event starts.
Ready(b, u) ==
  BrokerOK(b, u) /\ Reaches(b) /\ Once(b) /\ \A x \in Clients : Tells(b, x) = {}

\* Nobody but o ends, and its will is all that is heard of wills.
Leaves(b, r, o) ==
  /\ o \in b.alive \cup {None}
  /\ b.alive \ r.alive = b.alive \cap {o}
  /\ \A c, d \in Clients :
       <<"will", c>> \in Tells(r, d)
         <=> /\ c = o /\ b.will[c] # None /\ d \in b.alive \ {o}
             /\ Broker!Covered(b.subs[d], b.will[c].topic)

Takes(b, r, i, c) ==
  /\ b.spoke[c] = None /\ b.deviceObj[c] = None
  /\ b.clientsById[i] # None => /\ b.clientsById[i] \in Clients \ {c}
                                /\ b.deviceObj[b.clientsById[i]] = i
  /\ \A j \in BrokerIds : r.clientsById[j] = IF j = i THEN c ELSE b.clientsById[j]
  /\ \A x \in Clients :
       /\ r.deviceObj[x] = IF x = c THEN i
                           ELSE IF x = b.clientsById[i] THEN None ELSE b.deviceObj[x]
       /\ r.spoke[x] = IF x = c THEN i ELSE b.spoke[x]

Drops(b, r, c) ==
  /\ b.deviceObj[c] # None
  /\ \A i \in BrokerIds : /\ r.clientsById[i] = IF i = b.deviceObj[c] THEN None
                                                                     ELSE b.clientsById[i]
                          /\ b.clientsById[i] = c <=> i = b.deviceObj[c]
  /\ \A x \in Clients : r.deviceObj[x] = IF x = c THEN None ELSE b.deviceObj[x]
  /\ r.spoke = b.spoke

\* The acceptor's map and the objects of the clients are left alone, a connection
\* takes an appliance over, or one that speaks for an appliance ends.
RegStep(b, r) ==
  \/ r.clientsById = b.clientsById /\ r.deviceObj = b.deviceObj /\ r.spoke = b.spoke
  \/ \E i \in BrokerIds, c \in Clients : Takes(b, r, i, c)
  \/ \E c \in Clients : Drops(b, r, c)

Good(b, r, u) ==
  /\ BrokerOK(r, u) /\ Reaches(r) /\ Once(r)
  /\ \E o : Leaves(b, r, o)
  /\ RegStep(b, r)

LEMMA QuietStep ==
  ASSUME NEW b, NEW r, NEW u, BrokerOK(b, u), BrokerOK(r, u),
         r.clientsById = b.clientsById, r.deviceObj = b.deviceObj, r.spoke = b.spoke,
         b.alive \subseteq r.alive,
         \A c, d \in Clients : <<"will", c>> \notin Tells(r, d)
  PROVE  Leaves(b, r, None) /\ RegStep(b, r)
<1>1. b.alive \subseteq Clients
  BY DEF BrokerOK, BrokerStates
<1>2. Leaves(b, r, None)
  BY <1>1 DEF Leaves
<1>3. RegStep(b, r)
  BY DEF RegStep
<1> QED BY <1>2, <1>3

\* What is published at the end of an event.
LEMMA MessageGood ==
  ASSUME NEW b, NEW b1, NEW u, NEW o, NEW m, IsMessage(m), m.kind = "message",
         BrokerOK(b1, u), Reaches(b1), Once(b1), RegStep(b, b1), Leaves(b, b1, o),
         \A x \in Clients : <<m.kind, m.from>> \notin Tells(b1, x)
  PROVE  Good(b, Broker!Deliver(b1, m), u)
<1> DEFINE r == Broker!Deliver(b1, m)
<1>1. b1 \in BrokerStates /\ IsMessage(m)
  BY DEF BrokerOK
<1>2. BrokerOK(r, u) /\ Reaches(r)
  BY Zenon, DeliverKeeps
<1>3. /\ r.alive = b1.alive /\ r.subs = b1.subs /\ r.will = b1.will
      /\ r.deviceObj = b1.deviceObj /\ r.clientsById = b1.clientsById /\ r.spoke = b1.spoke
  BY Zenon, <1>1, DeliverSpares
<1>4. /\ Once(r)
      /\ \A x \in Clients :
           Tells(r, x) = IF Broker!Receives(b1, x, m.topic)
                         THEN Tells(b1, x) \cup {<<m.kind, m.from>>} ELSE Tells(b1, x)
  BY Zenon, <1>1, DeliverTells
<1> HIDE DEF r
<1>5. \A c, d \in Clients : <<"will", c>> \in Tells(r, d) <=> <<"will", c>> \in Tells(b1, d)
  <2> TAKE c, d \in Clients
  <2>1. <<"will", c>> # <<m.kind, m.from>>
    OBVIOUS
  <2> QED BY <1>4, <2>1
<1>6. Leaves(b, r, o)
  BY <1>3, <1>5 DEF Leaves
<1>7. RegStep(b, r)
  <2>1. CASE /\ b1.clientsById = b.clientsById /\ b1.deviceObj = b.deviceObj
             /\ b1.spoke = b.spoke
    BY <1>3, <2>1 DEF RegStep
  <2>2. CASE \E i \in BrokerIds, c \in Clients : Takes(b, b1, i, c)
    <3>1. PICK i \in BrokerIds, c \in Clients : Takes(b, b1, i, c)
      BY <2>2
    <3>2. Takes(b, r, i, c)
      BY <1>3, <3>1 DEF Takes
    <3> QED BY <3>2 DEF RegStep
  <2>3. CASE \E c \in Clients : Drops(b, b1, c)
    <3>1. PICK c \in Clients : Drops(b, b1, c)
      BY <2>3
    <3>2. Drops(b, r, c)
      BY <1>3, <3>1 DEF Drops
    <3> QED BY <3>2 DEF RegStep
  <2> QED BY <2>1, <2>2, <2>3 DEF RegStep
<1> QED BY <1>2, <1>4, <1>6, <1>7 DEF Good, r

LEMMA AcceptGood ==
  ASSUME NEW b, NEW u, Ready(b, u), NEW c \in Clients, c \notin u
  PROVE  Good(b, [b EXCEPT !.alive = @ \cup {c}, !.clients = @ \cup {c}], u \cup {c})
<1> DEFINE a == b.alive \cup {c}
           n == b.clients \cup {c}
           r1 == [b EXCEPT !.alive = a]
           r == [r1 EXCEPT !.clients = n]
<1>1. /\ b \in BrokerStates /\ a \in SUBSET Clients /\ n \in SUBSET Clients
      /\ a = n /\ b.alive \subseteq a /\ a \subseteq u \cup {c} /\ u \cup {c} \in SUBSET Clients
      /\ b.alive \subseteq Clients
  BY DEF Ready, BrokerOK, BrokerStates
<1>2. c \notin b.alive /\ b.subs[c] = {} /\ b.deviceObj[c] = None /\ b.spoke[c] = None
  BY DEF Ready, BrokerOK
<1>3. [b EXCEPT !.alive = @ \cup {c}, !.clients = @ \cup {c}] = r
  BY <1>1 DEF BrokerStates
<1> HIDE DEF n, r
<1>4. /\ r1 \in BrokerStates /\ r1.alive = a /\ r1.subs = b.subs
      /\ r1.deviceObj = b.deviceObj /\ r1.clientsById = b.clientsById /\ r1.spoke = b.spoke
      /\ r1.sent = b.sent /\ r1.given = b.given /\ r1.retainMap = b.retainMap
  <2> HIDE DEF a
  <2> QED BY <1>1 DEF BrokerStates
<1> HIDE DEF r1
<1>5. /\ r \in BrokerStates /\ r.alive = a /\ r.clients = n /\ r.subs = b.subs
      /\ r.deviceObj = b.deviceObj /\ r.clientsById = b.clientsById /\ r.spoke = b.spoke
      /\ r.sent = b.sent /\ r.given = b.given /\ r.retainMap = b.retainMap
  <2> HIDE DEF a
  <2> QED BY <1>1, <1>4 DEF BrokerStates, r
<1>6. BrokerOK(r, u \cup {c})
  <2>1. \A x \in r.alive : r.deviceObj[x] = None => r.spoke[x] = None
    BY <1>2, <1>5 DEF Ready, BrokerOK
  <2>2. \A x \in Clients : r.deviceObj[x] # None =>
          x \in r.alive /\ r.clientsById[r.deviceObj[x]] = x /\ r.spoke[x] = r.deviceObj[x]
    BY <1>1, <1>5 DEF Ready, BrokerOK
  <2>3. \A x \in Clients \ (u \cup {c}) :
          r.subs[x] = {} /\ r.deviceObj[x] = None /\ r.spoke[x] = None
    BY <1>1, <1>5 DEF Ready, BrokerOK
  <2>4. \A i \in BrokerIds : r.clientsById[i] # None => r.deviceObj[r.clientsById[i]] = i
    BY <1>5 DEF Ready, BrokerOK
  <2>5. /\ r \in BrokerStates /\ u \cup {c} \in SUBSET Clients
        /\ r.alive = r.clients /\ r.alive \subseteq u \cup {c}
    BY <1>1, <1>5
  <2> QED BY <2>1, <2>2, <2>3, <2>4, <2>5 DEF BrokerOK
<1>7. Reaches(r)
  BY <1>2, <1>5 DEF Ready, Reaches, Broker!Covered
<1>8. Once(r) /\ \A x \in Clients : Tells(r, x) = {}
  BY <1>5 DEF Ready, Once, Tells
<1>9. Leaves(b, r, None) /\ RegStep(b, r)
  BY <1>1, <1>5, <1>8 DEF Leaves, RegStep
<1> QED BY <1>3, <1>6, <1>7, <1>8, <1>9 DEF Good

LEMMA ConnectGood ==
  ASSUME NEW b, NEW u, Ready(b, u), NEW c \in Clients, NEW w \in Wills
  PROVE  Good(b, [b EXCEPT !.will[c] = w], u)
<1> DEFINE l == [b.will EXCEPT ![c] = w]
           r == [b EXCEPT !.will = l]
<1>1. b \in BrokerStates /\ l \in [Clients -> Wills \cup {None}]
  BY DEF Ready, BrokerOK, BrokerStates
<1>2. [b EXCEPT !.will[c] = w] = r
  BY <1>1 DEF BrokerStates
<1> HIDE DEF l
<1>3. /\ r \in BrokerStates /\ r.alive = b.alive /\ r.clients = b.clients /\ r.subs = b.subs
      /\ r.deviceObj = b.deviceObj /\ r.clientsById = b.clientsById /\ r.spoke = b.spoke
      /\ r.sent = b.sent /\ r.given = b.given /\ r.retainMap = b.retainMap
  BY <1>1 DEF BrokerStates
<1> HIDE DEF r
<1>4. BrokerOK(b, u) /\ BrokerOK(r, u)
  BY <1>3 DEF Ready, BrokerOK
<1>5. Reaches(r)
  BY <1>3 DEF Ready, Reaches
<1>6. Once(r) /\ \A x \in Clients : Tells(r, x) = {}
  BY <1>3 DEF Ready, Once, Tells
<1>7. Leaves(b, r, None) /\ RegStep(b, r)
  BY <1>3, <1>4, <1>6, QuietStep
<1> QED BY <1>2, <1>4, <1>5, <1>6, <1>7 DEF Good

\* A list of filters that match a topic has a first one.
LEMMA FirstMatch ==
  ASSUME NEW fs, NEW n \in Nat, DOMAIN fs = 1 .. n, NEW t,
         \E k \in 1 .. n : Broker!Matches(fs[k], t)
  PROVE  \E k \in 1 .. n : k \in Broker!Served(fs, t)
<1> DEFINE S == {k \in 1 .. n : Broker!Matches(fs[k], t)}
<1>1. S \subseteq Nat /\ S # {}
  OBVIOUS
<1>2. PICK m \in S : \A k \in S : ~(<<k, m>> \in OpToRel(<, Nat))
  <2> HIDE DEF S
  <2> QED BY Zenon, <1>1, WFMin, NatLessThanWellFounded
<1>3. \A k \in S : ~(k < m)
  <2>1. m \in Nat /\ \A k \in S : k \in Nat
    BY <1>1
  <2> HIDE DEF S
  <2> QED BY Zenon, <1>2, <2>1 DEF OpToRel
<1>4. \A l \in 1 .. m - 1 : ~Broker!Matches(fs[l], t)
  BY <1>3
<1> QED BY <1>4 DEF Broker!Served

\* No topic is served for two filters.
LEMMA ServedOnce ==
  ASSUME NEW fs, NEW n \in Nat, DOMAIN fs = 1 .. n, NEW t,
         NEW k \in Broker!Served(fs, t), NEW l \in Broker!Served(fs, t)
  PROVE  k = l
<1>1. /\ k \in 1 .. n /\ l \in 1 .. n
      /\ Broker!Matches(fs[k], t) /\ Broker!Matches(fs[l], t)
      /\ l \notin 1 .. k - 1 /\ k \notin 1 .. l - 1
  BY DEF Broker!Served
<1> QED BY <1>1

\* What a packet brings along, one message for each pair of D, repeats none and
\* announces no will.
LEMMA RetainedOnce ==
  ASSUME NEW n \in Nat, NEW D \in SUBSET (Topics \X (1 .. n)),
         \A x, y \in D : x[1] = y[1] => x = y
  PROVE  LET order == Broker!SetToSeq(D)
             q == [k \in DOMAIN order |-> <<"retained", order[k][1]>>]
         IN /\ q \in Seq(Entries)
            /\ Broker!IsInjective(q)
            /\ \A c \in Clients : <<"will", c>> \notin Broker!ToSet(q)
<1> DEFINE c == Cardinality(D)
           order == Broker!SetToSeq(D)
           q == [k \in DOMAIN order |-> <<"retained", order[k][1]>>]
<1>1. IsFiniteSet(D)
  <2>1. IsFiniteSet(Topics) /\ IsFiniteSet(1 .. n)
    BY FS_Interval
  <2> QED BY <2>1, FS_Product, FS_Subset
<1>2. c \in Nat /\ ExistsBijection(1 .. c, D)
  BY <1>1, FS_CardinalityType
<1>3. PICK g \in [1 .. c -> D] : Broker!IsInjective(g)
  BY <1>2 DEF ExistsBijection, Bijection, Injection, IsInjective, Broker!IsInjective
<1>4. Broker!Cardinality(D) = c
  BY DEF Broker!Cardinality, Cardinality
<1>5. order \in [1 .. c -> D] /\ Broker!IsInjective(order)
  BY <1>3, <1>4 DEF Broker!SetToSeq
<1> HIDE DEF order, c
<1>6. DOMAIN q = 1 .. c /\ \A k \in 1 .. c : q[k] = <<"retained", order[k][1]>>
  BY <1>5
<1>7. \A k \in 1 .. c : order[k] \in D /\ order[k][1] \in Topics
  BY <1>5
<1>8. \A k \in 1 .. c : q[k] \in Entries /\ \A x \in Clients : q[k] # <<"will", x>>
  BY <1>6, <1>7 DEF Entries, Kinds
<1>9. Broker!IsInjective(q)
  <2> SUFFICES ASSUME NEW k \in 1 .. c, NEW l \in 1 .. c, q[k] = q[l] PROVE k = l
    BY <1>6 DEF Broker!IsInjective
  <2>1. order[k][1] = order[l][1]
    BY <1>6
  <2>2. order[k] = order[l]
    BY <1>7, <2>1
  <2> QED BY <1>5, <2>2 DEF Broker!IsInjective
<1>10. q \in Seq(Entries)
  BY <1>2, <1>6, <1>8
<1>11. \A x \in Clients : <<"will", x>> \notin Broker!ToSet(q)
  BY <1>6, <1>8 DEF Broker!ToSet
<1> QED BY <1>9, <1>10, <1>11 DEF order

LEMMA SubscribeGood ==
  ASSUME NEW b, NEW u, Ready(b, u), NEW c \in Clients, c \in b.alive,
         NEW q \in Seq(Entries), Broker!IsInjective(q),
         \A x \in Clients : <<"will", x>> \notin Broker!ToSet(q),
         NEW F \in SUBSET Patterns, NEW T \in SUBSET Topics,
         \A t \in Topics, p \in F :
           b.retainMap[t] # Empty /\ ~Broker!Covered(b.subs[c], t) /\ Broker!Matches(p, t) => t \in T
  PROVE  Good(b, [b EXCEPT !.subs[c] = @ \cup F, !.sent[c] = q, !.given[c] = @ \cup T], u)
<1> DEFINE sb == [b.subs EXCEPT ![c] = b.subs[c] \cup F]
           st == [b.sent EXCEPT ![c] = q]
           gv == [b.given EXCEPT ![c] = b.given[c] \cup T]
           r1 == [b EXCEPT !.subs = sb]
           r2 == [r1 EXCEPT !.sent = st]
           r == [r2 EXCEPT !.given = gv]
<1>1. /\ b \in BrokerStates /\ b.alive \subseteq Clients /\ c \in u
      /\ b.subs \in [Clients -> SUBSET Patterns]
      /\ b.sent \in [Clients -> Seq(Entries)]
      /\ b.given \in [Clients -> SUBSET Topics]
  BY DEF Ready, BrokerOK, BrokerStates
<1>2. /\ sb \in [Clients -> SUBSET Patterns]
      /\ \A x \in Clients : sb[x] = IF x = c THEN b.subs[c] \cup F ELSE b.subs[x]
  BY <1>1
<1>3. /\ st \in [Clients -> Seq(Entries)]
      /\ \A x \in Clients : st[x] = IF x = c THEN q ELSE b.sent[x]
  BY <1>1
<1>4. /\ gv \in [Clients -> SUBSET Topics]
      /\ \A x \in Clients : gv[x] = IF x = c THEN b.given[c] \cup T ELSE b.given[x]
  BY <1>1
<1>5. [b EXCEPT !.subs[c] = @ \cup F, !.sent[c] = q, !.given[c] = @ \cup T] = r
  BY <1>1 DEF BrokerStates
<1> HIDE DEF sb, st, gv
<1>6. /\ r1 \in BrokerStates /\ r1.subs = sb
      /\ r1.alive = b.alive /\ r1.clients = b.clients /\ r1.retainMap = b.retainMap
      /\ r1.deviceObj = b.deviceObj /\ r1.clientsById = b.clientsById /\ r1.spoke = b.spoke
  BY <1>1, <1>2 DEF BrokerStates
<1> HIDE DEF r1
<1>7. /\ r2 \in BrokerStates /\ r2.subs = sb /\ r2.sent = st
      /\ r2.alive = b.alive /\ r2.clients = b.clients /\ r2.retainMap = b.retainMap
      /\ r2.deviceObj = b.deviceObj /\ r2.clientsById = b.clientsById /\ r2.spoke = b.spoke
  BY <1>3, <1>6 DEF BrokerStates
<1> HIDE DEF r2
<1>8. /\ r \in BrokerStates /\ r.subs = sb /\ r.sent = st /\ r.given = gv
      /\ r.alive = b.alive /\ r.clients = b.clients /\ r.retainMap = b.retainMap
      /\ r.deviceObj = b.deviceObj /\ r.clientsById = b.clientsById /\ r.spoke = b.spoke
  BY <1>4, <1>7 DEF BrokerStates
<1> HIDE DEF r
<1>9. BrokerOK(b, u) /\ BrokerOK(r, u)
  BY <1>1, <1>2, <1>8 DEF Ready, BrokerOK
<1>10. Reaches(r)
  <2> SUFFICES ASSUME NEW x \in b.alive, NEW t \in Topics,
                      b.retainMap[t] # Empty, Broker!Covered(sb[x], t)
               PROVE  t \in gv[x]
    BY <1>8 DEF Reaches
  <2>1. x \in Clients
    BY <1>1
  <2>2. CASE Broker!Covered(b.subs[x], t)
    <3>1. t \in b.given[x]
      BY <2>2 DEF Ready, Reaches
    <3> QED BY <1>4, <2>1, <3>1
  <2>3. CASE ~Broker!Covered(b.subs[x], t)
    <3>1. x = c
      BY <1>2, <2>1, <2>3
    <3>2. PICK p \in F : Broker!Matches(p, t)
      BY <1>2, <2>1, <2>3, <3>1 DEF Broker!Covered
    <3>3. t \in T
      BY <2>3, <3>1, <3>2
    <3> QED BY <1>4, <2>1, <3>1, <3>3
  <2> QED BY <2>2, <2>3
<1>11. /\ Once(r)
       /\ \A x, d \in Clients : <<"will", x>> \notin Tells(r, d)
  BY <1>3, <1>8 DEF Ready, Once, Tells
<1>12. Leaves(b, r, None) /\ RegStep(b, r)
  BY <1>8, <1>9, <1>11, QuietStep
<1> QED BY <1>5, <1>9, <1>10, <1>11, <1>12 DEF Good

LEMMA UnsubscribeGood ==
  ASSUME NEW b, NEW u, Ready(b, u), NEW c \in Clients, NEW ps, c \in b.alive
  PROVE  Good(b, [b EXCEPT !.subs[c] = @ \ ps], u)
<1> DEFINE sb == [b.subs EXCEPT ![c] = b.subs[c] \ ps]
           r == [b EXCEPT !.subs = sb]
<1>1. /\ b \in BrokerStates /\ b.alive \subseteq Clients
      /\ b.subs \in [Clients -> SUBSET Patterns]
  BY DEF Ready, BrokerOK, BrokerStates
<1>2. /\ sb \in [Clients -> SUBSET Patterns]
      /\ \A x \in Clients : sb[x] \subseteq b.subs[x]
  BY <1>1
<1>3. [b EXCEPT !.subs[c] = @ \ ps] = r
  BY <1>1 DEF BrokerStates
<1> HIDE DEF sb
<1>4. /\ r \in BrokerStates /\ r.subs = sb
      /\ r.alive = b.alive /\ r.clients = b.clients /\ r.retainMap = b.retainMap
      /\ r.deviceObj = b.deviceObj /\ r.clientsById = b.clientsById /\ r.spoke = b.spoke
      /\ r.sent = b.sent /\ r.given = b.given
  BY <1>1, <1>2 DEF BrokerStates
<1> HIDE DEF r
<1>5. BrokerOK(b, u) /\ BrokerOK(r, u)
  BY <1>1, <1>2, <1>4 DEF Ready, BrokerOK
<1>6. Reaches(r)
  BY <1>1, <1>2, <1>4 DEF Ready, Reaches, Broker!Covered
<1>7. Once(r) /\ \A x \in Clients : Tells(r, x) = {}
  BY <1>4 DEF Ready, Once, Tells
<1>8. Leaves(b, r, None) /\ RegStep(b, r)
  BY <1>4, <1>5, <1>7, QuietStep
<1> QED BY <1>3, <1>5, <1>6, <1>7, <1>8 DEF Good

LEMMA EndsGood ==
  ASSUME NEW b, NEW u, Ready(b, u), NEW c \in Clients
  PROVE  Good(b, Broker!Destroy(b, c), u)
<1>0. BrokerOK(b, u) /\ Reaches(b) /\ Once(b) /\ \A x \in Clients : Tells(b, x) = {}
  BY DEF Ready
<1>1. CASE c \notin b.alive
  <2>1. Broker!Destroy(b, c) = b
    BY <1>1 DEF Broker!Destroy, Broker!Destroyable
  <2>2. Leaves(b, b, None) /\ RegStep(b, b)
    BY <1>0, QuietStep
  <2> QED BY <1>0, <2>1, <2>2 DEF Good
<1>2. CASE c \in b.alive
  <2> DEFINE d == Broker!Destroy(b, c)
  <2>1. b \in BrokerStates /\ c \in b.alive
    BY <1>0, <1>2 DEF BrokerOK
  <2>2. /\ d \in BrokerStates
        /\ d.alive = b.alive \ {c} /\ d.clients = b.clients \ {c}
        /\ d.subs = b.subs /\ d.will = b.will /\ d.deployMsg = b.deployMsg /\ d.spoke = b.spoke
        /\ d.retainMap = b.retainMap
        /\ \A i \in BrokerIds : d.clientsById[i] = IF i = b.deviceObj[c] THEN None
                                                                     ELSE b.clientsById[i]
        /\ \A x \in Clients :
             /\ d.deviceObj[x] = IF x = c THEN None ELSE b.deviceObj[x]
             /\ d.given[x] = IF x = c THEN {} ELSE b.given[x]
             /\ d.sent[x] = IF /\ b.will[c] # None /\ x \in b.clients \cap b.alive /\ x # c
                               /\ Broker!Covered(b.subs[x], b.will[c].topic)
                            THEN Append(b.sent[x], <<"will", c>>) ELSE b.sent[x]
    BY <2>1, DestroyFields
  <2>3. BrokerOK(d, u) /\ Reaches(d)
    BY Zenon, <1>0, <1>2, DestroyKeeps
  <2> HIDE DEF d
  <2>4. /\ b.alive = b.clients /\ b.alive \subseteq Clients /\ c # None
        /\ b.deviceObj \in [Clients -> BrokerIds \cup {None}]
        /\ b.clientsById \in [BrokerIds -> Clients \cup {None}]
    BY <1>0 DEF BrokerOK, BrokerStates
  <2>5. ASSUME NEW x \in Clients
        PROVE  /\ Broker!IsInjective(d.sent[x])
               /\ Tells(d, x) = IF /\ b.will[c] # None /\ x \in b.alive \ {c}
                                   /\ Broker!Covered(b.subs[x], b.will[c].topic)
                                THEN {<<"will", c>>} ELSE {}
    <3>1. b.sent[x] \in Seq(Entries) /\ <<"will", c>> \in Entries
      BY <2>1 DEF BrokerStates, Entries, Kinds
    <3>2. Broker!ToSet(b.sent[x]) = {} /\ Broker!IsInjective(b.sent[x])
      BY <1>0 DEF Tells, Once
    <3>3. /\ Broker!ToSet(Append(b.sent[x], <<"will", c>>)) = Broker!ToSet(b.sent[x]) \cup {<<"will", c>>}
          /\ Broker!IsInjective(Append(b.sent[x], <<"will", c>>))
      BY <3>1, <3>2, AppendEntry
    <3> QED BY <2>2, <2>4, <3>2, <3>3 DEF Tells
  <2>6. Leaves(b, d, c)
    <3>1. \A y, x \in Clients : <<"will", y>> = <<"will", c>> <=> y = c
      OBVIOUS
    <3>2. \A y, x \in Clients :
            <<"will", y>> \in Tells(d, x)
              <=> /\ y = c /\ b.will[y] # None /\ x \in b.alive \ {c}
                  /\ Broker!Covered(b.subs[x], b.will[y].topic)
      BY <2>5, <3>1
    <3>3. b.alive \ d.alive = b.alive \cap {c}
      BY <2>2
    <3> QED BY <1>2, <3>2, <3>3 DEF Leaves
  <2>7. RegStep(b, d)
    <3>1. CASE b.deviceObj[c] = None
      <4>1. /\ d.deviceObj \in [Clients -> BrokerIds \cup {None}]
            /\ d.clientsById \in [BrokerIds -> Clients \cup {None}]
        BY <2>2 DEF BrokerStates
      <4>2. \A i \in BrokerIds : d.clientsById[i] = b.clientsById[i]
        BY <2>2, <3>1
      <4>3. \A x \in Clients : d.deviceObj[x] = b.deviceObj[x]
        BY <2>2, <3>1
      <4>4. d.clientsById = b.clientsById /\ d.deviceObj = b.deviceObj
        BY <2>4, <4>1, <4>2, <4>3
      <4> QED BY <2>2, <4>4 DEF RegStep
    <3>2. CASE b.deviceObj[c] # None
      <4>1. \A i \in BrokerIds : b.clientsById[i] = c <=> i = b.deviceObj[c]
        BY <1>0, <2>4, <3>2 DEF BrokerOK
      <4>2. Drops(b, d, c)
        BY <2>2, <3>2, <4>1 DEF Drops
      <4> QED BY <4>2 DEF RegStep
    <3> QED BY <3>1, <3>2
  <2>8. Once(d)
    BY <2>5 DEF Once
  <2> QED BY <2>3, <2>6, <2>7, <2>8 DEF Good, d
<1> QED BY <1>1, <1>2

\* A plain message, or a command of an appliance and what the acceptor makes of it.
LEMMA PlainGood ==
  ASSUME NEW b, NEW u, Ready(b, u), NEW m, IsMessage(m), m.kind = "message"
  PROVE  Good(b, Broker!Deliver(b, m), u)
<1>1. /\ BrokerOK(b, u) /\ Reaches(b) /\ Once(b)
      /\ \A x \in Clients : Tells(b, x) = {}
  BY DEF Ready
<1>2. Leaves(b, b, None) /\ RegStep(b, b)
  BY <1>1, QuietStep
<1>3. \A x \in Clients : <<m.kind, m.from>> \notin Tells(b, x)
  BY <1>1
<1> QED BY <1>1, <1>2, <1>3, MessageGood

LEMMA CommandGood ==
  ASSUME NEW b, NEW u, Ready(b, u), NEW c \in Clients, c \in b.alive, NEW i \in BrokerIds,
         NEW m, IsMessage(m), m.kind = "message",
         m.cmd \in {"deploy", "completeProvisioning_ack"}, m.topic[2] = i
  PROVE  Good(b, Broker!Deliver(Broker!Accepted(b, c, m), m), u)
<1>1. /\ BrokerOK(b, u) /\ Reaches(b) /\ Once(b)
      /\ \A x \in Clients : Tells(b, x) = {}
  BY DEF Ready
<1>2. Good(b, Broker!Deliver(b, m), u)
  BY Zenon, PlainGood
<1>3. CASE m.cmd = "deploy"
  <2> DEFINE d == Broker!Deploy(b, c, i)
  <2>1. Broker!Accepted(b, c, m) = d
    <3>1. Broker!Accepted(b, c, m) = Broker!Deploy(b, c, m.topic[2])
      BY <1>3 DEF Broker!Accepted
    <3> QED BY Zenon, <3>1
  <2>2. /\ BrokerOK(d, u) /\ Reaches(d) /\ Once(d)
        /\ d.alive = b.alive /\ d.subs = b.subs /\ d.will = b.will
        /\ d.deviceObj = b.deviceObj /\ d.clientsById = b.clientsById /\ d.spoke = b.spoke
        /\ \A x \in Clients : Tells(d, x) \subseteq {<<"response", None>>}
    BY <1>1, DeployFields
  <2> HIDE DEF d
  <2>3. /\ \A x, y \in Clients : <<"will", x>> \notin Tells(d, y)
        /\ \A x \in Clients : <<m.kind, m.from>> \notin Tells(d, x)
    BY <2>2
  <2>4. Leaves(b, d, None) /\ RegStep(b, d)
    BY <1>1, <2>2, <2>3, QuietStep
  <2> QED BY <2>1, <2>2, <2>3, <2>4, MessageGood
<1>4. CASE m.cmd = "completeProvisioning_ack"
  <2> DEFINE d == Broker!CompleteProvisioning(b, c, i)
             o == b.clientsById[i]
  <2>1. Broker!Accepted(b, c, m) = d
    <3>1. Broker!Accepted(b, c, m) = Broker!CompleteProvisioning(b, c, m.topic[2])
      BY <1>4 DEF Broker!Accepted
    <3> QED BY Zenon, <3>1
  <2>2. CASE c \notin b.deployMsg \/ b.deviceObj[c] # None
    <3>1. d = b
      BY <2>2 DEF Broker!CompleteProvisioning
    <3> HIDE DEF d
    <3> QED BY <1>2, <2>1, <3>1
  <2>3. CASE c \in b.deployMsg /\ b.deviceObj[c] = None
    <3>1. /\ BrokerOK(d, u) /\ Reaches(d)
          /\ o # None => o \in b.alive /\ o # c /\ b.deviceObj[o] = i
          /\ d.alive = b.alive \ {o} /\ d.subs = b.subs /\ d.will = b.will
          /\ \A j \in BrokerIds : d.clientsById[j] = IF j = i THEN c ELSE b.clientsById[j]
          /\ \A x \in Clients :
               /\ d.deviceObj[x] = IF x = c THEN i ELSE IF x = o THEN None ELSE b.deviceObj[x]
               /\ d.spoke[x] = IF x = c THEN i ELSE b.spoke[x]
               /\ d.sent[x] = IF /\ o # None /\ b.will[o] # None /\ x \in b.alive \ {o}
                                 /\ Broker!Covered(b.subs[x], b.will[o].topic)
                              THEN Append(b.sent[x], <<"will", o>>) ELSE b.sent[x]
      BY <1>1, <2>3, CompleteFields
    <3>2. /\ b \in BrokerStates /\ b.alive \subseteq Clients
          /\ b.clientsById \in [BrokerIds -> Clients \cup {None}]
      BY <1>1 DEF BrokerOK, BrokerStates
    <3>3. o \in Clients \cup {None} /\ (o # None => o \in b.alive)
      BY <3>1, <3>2
    <3>4. Takes(b, d, i, c)
      <4>1. b.spoke[c] = None
        BY <1>1, <2>3 DEF BrokerOK
      <4> HIDE DEF d
      <4> QED BY <2>3, <3>1, <3>3, <4>1 DEF Takes
    <3>5. RegStep(b, d)
      <4> HIDE DEF d
      <4> QED BY <3>4 DEF RegStep
    <3> HIDE DEF d, o
    <3>6. ASSUME NEW x \in Clients
          PROVE  /\ Broker!IsInjective(d.sent[x])
                 /\ Tells(d, x) = IF /\ o # None /\ b.will[o] # None /\ x \in b.alive \ {o}
                                     /\ Broker!Covered(b.subs[x], b.will[o].topic)
                                  THEN {<<"will", o>>} ELSE {}
      <4>1. b.sent[x] \in Seq(Entries) /\ <<"will", o>> \in Entries
        BY <3>2, <3>3 DEF BrokerStates, Entries, Kinds
      <4>2. Broker!ToSet(b.sent[x]) = {} /\ Broker!IsInjective(b.sent[x])
        BY <1>1 DEF Tells, Once
      <4>3. /\ Broker!ToSet(Append(b.sent[x], <<"will", o>>)) = Broker!ToSet(b.sent[x]) \cup {<<"will", o>>}
            /\ Broker!IsInjective(Append(b.sent[x], <<"will", o>>))
        BY <4>1, <4>2, AppendEntry
      <4> QED BY <3>1, <4>2, <4>3 DEF Tells
    <3>7. Leaves(b, d, o)
      <4>1. \A y \in Clients : <<"will", y>> = <<"will", o>> <=> y = o
        OBVIOUS
      <4>2. \A y, x \in Clients :
              <<"will", y>> \in Tells(d, x)
                <=> /\ y = o /\ b.will[y] # None /\ x \in b.alive \ {o}
                    /\ Broker!Covered(b.subs[x], b.will[y].topic)
        BY <3>6, <4>1
      <4>3. b.alive \ d.alive = b.alive \cap {o} /\ o \in b.alive \cup {None}
        BY <3>1, <3>3
      <4> QED BY <4>2, <4>3 DEF Leaves
    <3>8. Once(d) /\ \A x \in Clients : <<m.kind, m.from>> \notin Tells(d, x)
      BY <3>6 DEF Once
    <3> QED BY <2>1, <3>1, <3>5, <3>7, <3>8, MessageGood
  <2> QED BY <2>2, <2>3
<1> QED BY <1>3, <1>4

-----------------------------------------------------------------------------
(* The broker's own steps.                                                 *)

LEMMA BrokerFields ==
  /\ Broker!Broker.alive = alive /\ Broker!Broker.clients = clients
  /\ Broker!Broker.subs = subs /\ Broker!Broker.will = will
  /\ Broker!Broker.retainMap = retainMap /\ Broker!Broker.deployMsg = deployMsg
  /\ Broker!Broker.deviceObj = deviceObj /\ Broker!Broker.clientsById = clientsById
  /\ Broker!Broker.spoke = spoke /\ Broker!Broker.given = given
  /\ Broker!Broker.sent = [c \in Clients |-> <<>>]
  BY DEF Broker!Broker

LEMMA BrokerReady == BrokerInv => Ready(Broker!Broker, used)
<1>1. \A x \in Clients : Broker!Broker.sent[x] = <<>>
  BY BrokerFields
<1>2. Once(Broker!Broker) /\ \A x \in Clients : Tells(Broker!Broker, x) = {}
  BY <1>1, NothingSent DEF Once, Tells
<1> QED BY <1>2 DEF BrokerInv, Ready

\* What an event has left is what the next one starts from.
LEMMA BrokerReset ==
  ASSUME NEW r, BrokerOK(r, used'), Reaches(r), Once(r), Broker!SetBroker(r)
  PROVE  BrokerInv'
<1> DEFINE z == (Broker!Broker)'
<1>1. /\ z.alive = r.alive /\ z.clients = r.clients /\ z.subs = r.subs /\ z.will = r.will
      /\ z.retainMap = r.retainMap /\ z.deployMsg = r.deployMsg /\ z.deviceObj = r.deviceObj
      /\ z.clientsById = r.clientsById /\ z.spoke = r.spoke /\ z.given = r.given
  BY DEF Broker!Broker, Broker!SetBroker
<1>2. z \in BrokerStates
  <2> DEFINE e == [c \in Clients |-> <<>>]
  <2>1. z = [alive |-> r.alive, clients |-> r.clients, subs |-> r.subs, will |-> r.will,
             retainMap |-> r.retainMap, deployMsg |-> r.deployMsg, deviceObj |-> r.deviceObj,
             clientsById |-> r.clientsById, spoke |-> r.spoke, sent |-> e, given |-> r.given]
    BY DEF Broker!Broker, Broker!SetBroker
  <2>2. e \in [Clients -> Seq(Entries)]
    OBVIOUS
  <2> HIDE DEF z, e
  <2>3. r \in BrokerStates
    BY DEF BrokerOK
  <2> QED BY <2>1, <2>2, <2>3 DEF BrokerStates
<1>3. Broker!NoCopies'
  BY DEF Once, Broker!NoCopies, Broker!SetBroker
<1> HIDE DEF z
<1>4. BrokerOK(z, used') /\ Reaches(z)
  BY <1>1, <1>2 DEF BrokerOK, Reaches
<1> QED BY <1>3, <1>4 DEF BrokerInv, z

LEMMA BrokerEvent ==
  ASSUME BrokerInv, Broker!Next
  PROVE  \E r : Broker!SetBroker(r) /\ Good(Broker!Broker, r, used')
<1> DEFINE b == Broker!Broker
<1>1. Ready(b, used)
  BY BrokerReady
<1>2. b.alive = alive /\ b.subs = subs /\ b.retainMap = retainMap
  BY BrokerFields
<1>3. PICK c \in Clients : \/ Broker!Accept(c) \/ Broker!ConnectPacket(c) \/ Broker!Publish(c)
                           \/ Broker!Subscribe(c) \/ Broker!Unsubscribe(c) \/ Broker!Ends(c)
  BY DEF Broker!Next
<1> HIDE DEF b
<1>4. CASE Broker!Accept(c)
  <2>1. /\ c \notin used /\ used' = used \cup {c}
        /\ Broker!SetBroker([b EXCEPT !.alive = @ \cup {c}, !.clients = @ \cup {c}])
    BY <1>4 DEF Broker!Accept, b
  <2>2. Good(b, [b EXCEPT !.alive = @ \cup {c}, !.clients = @ \cup {c}], used \cup {c})
    BY <1>1, <2>1, AcceptGood
  <2> QED BY <2>1, <2>2 DEF b
<1>5. CASE Broker!ConnectPacket(c)
  <2>1. PICK w \in Wills : Broker!SetBroker([b EXCEPT !.will[c] = w])
    BY <1>5 DEF Broker!ConnectPacket, b
  <2>2. Good(b, [b EXCEPT !.will[c] = w], used)
    BY <1>1, ConnectGood
  <2>3. used' = used
    BY <1>5 DEF Broker!ConnectPacket
  <2> QED BY <2>1, <2>2, <2>3 DEF b
<1>6. CASE Broker!Publish(c)
  <2>0. c \in b.alive /\ used' = used /\ "message" \in Kinds /\ FALSE \in BOOLEAN
    BY <1>2, <1>6 DEF Broker!Publish, Kinds
  <2>1. CASE \E t \in Topics, p \in Payloads \cup {Empty}, k \in BOOLEAN :
               /\ p = Empty => k
               /\ Broker!SetBroker(Broker!Deliver(b, [topic |-> t, payload |-> p, retain |-> k,
                                                   from |-> None, kind |-> "message"]))
    <3>1. PICK t \in Topics, p \in Payloads \cup {Empty}, k \in BOOLEAN :
               Broker!SetBroker(Broker!Deliver(b, [topic |-> t, payload |-> p, retain |-> k,
                                                   from |-> None, kind |-> "message"]))
      BY <2>1
    <3> DEFINE m == [topic |-> t, payload |-> p, retain |-> k, from |-> None, kind |-> "message"]
    <3>2. IsMessage(m) /\ m.kind = "message"
      BY <2>0 DEF IsMessage
    <3>3. Broker!SetBroker(Broker!Deliver(b, m))
      BY Zenon, <3>1
    <3> HIDE DEF m
    <3>4. Good(b, Broker!Deliver(b, m), used)
      BY <1>1, <3>2, PlainGood
    <3> QED BY <2>0, <3>3, <3>4 DEF b
  <2>2. CASE \E i \in BrokerIds, cmd \in {"deploy", "completeProvisioning_ack"} :
               LET m == [topic |-> <<"clip", i>>, payload |-> cmd, retain |-> FALSE,
                         from |-> None, kind |-> "message", cmd |-> cmd]
               IN Broker!SetBroker(Broker!Deliver(Broker!Accepted(b, c, m), m))
    <3>1. PICK i \in BrokerIds, cmd \in {"deploy", "completeProvisioning_ack"} :
               LET m == [topic |-> <<"clip", i>>, payload |-> cmd, retain |-> FALSE,
                         from |-> None, kind |-> "message", cmd |-> cmd]
               IN Broker!SetBroker(Broker!Deliver(Broker!Accepted(b, c, m), m))
      BY <2>2
    <3> DEFINE m == [topic |-> <<"clip", i>>, payload |-> cmd, retain |-> FALSE,
                     from |-> None, kind |-> "message", cmd |-> cmd]
    <3>2. /\ IsMessage(m) /\ m.kind = "message" /\ m.topic[2] = i
          /\ m.cmd \in {"deploy", "completeProvisioning_ack"}
      BY <2>0 DEF IsMessage
    <3>3. Broker!SetBroker(Broker!Deliver(Broker!Accepted(b, c, m), m))
      BY Zenon, <3>1
    <3> HIDE DEF m
    <3>4. Good(b, Broker!Deliver(Broker!Accepted(b, c, m), m), used)
      BY <1>1, <2>0, <3>2, CommandGood
    <3> QED BY <2>0, <3>3, <3>4 DEF b
  <2> QED BY <1>6, <2>1, <2>2 DEF Broker!Publish, b
<1>7. CASE Broker!Subscribe(c)
  <2>1. PICK fs \in Broker!Filters :
          LET due == {tk \in Broker!Unseen(c) \X DOMAIN fs : tk[2] \in Broker!Served(fs, tk[1])}
              order == Broker!SetToSeq(due)
          IN Broker!SetBroker([b EXCEPT
               !.subs[c] = @ \cup Broker!Range(fs),
               !.sent[c] = [k \in DOMAIN order |-> <<"retained", order[k][1]>>],
               !.given[c] = @ \cup {tk[1] : tk \in due}])
    BY <1>7 DEF Broker!Subscribe, b
  <2> DEFINE F == Broker!Range(fs)
             due == {tk \in Broker!Unseen(c) \X DOMAIN fs : tk[2] \in Broker!Served(fs, tk[1])}
             order == Broker!SetToSeq(due)
             q == [k \in DOMAIN order |-> <<"retained", order[k][1]>>]
             T == {tk[1] : tk \in due}
  <2>2. PICK n \in Nat : fs \in [1 .. n -> Patterns]
    BY <2>1 DEF Broker!Filters
  <2>3. DOMAIN fs = 1 .. n /\ F \in SUBSET Patterns
    BY <2>2 DEF Broker!Range
  <2>4. c \in b.alive /\ used' = used
    BY <1>2, <1>7 DEF Broker!Subscribe
  <2>5. Broker!SetBroker([b EXCEPT !.subs[c] = @ \cup F, !.sent[c] = q, !.given[c] = @ \cup T])
    BY Zenon, <2>1
  <2>6. Broker!Unseen(c) \in SUBSET Topics
    BY DEF Broker!Unseen
  <2>7. due \in SUBSET (Topics \X (1 .. n)) /\ T \in SUBSET Topics
    BY <2>3, <2>6
  <2>8. \A x, y \in due : x[1] = y[1] => x = y
    <3> SUFFICES ASSUME NEW x \in due, NEW y \in due, x[1] = y[1] PROVE x = y
      OBVIOUS
    <3>1. x[2] = y[2]
      BY <2>3, ServedOnce
    <3> QED BY <3>1
  <2>9. ASSUME NEW t \in Topics, NEW p \in F, b.retainMap[t] # Empty,
               ~Broker!Covered(b.subs[c], t), Broker!Matches(p, t)
        PROVE  t \in T
    <3>1. \E k \in 1 .. n : Broker!Matches(fs[k], t)
      BY <2>3, <2>9 DEF Broker!Range
    <3>2. PICK k \in 1 .. n : k \in Broker!Served(fs, t)
      BY <2>3, <3>1, FirstMatch
    <3>3. t \in Broker!Unseen(c)
      BY <1>2, <2>9 DEF Broker!Unseen
    <3>4. <<t, k>> \in due
      BY <2>3, <3>2, <3>3
    <3> QED BY <3>4
  <2> HIDE DEF F, due, order, T
  <2>10. /\ q \in Seq(Entries)
         /\ Broker!IsInjective(q)
         /\ \A x \in Clients : <<"will", x>> \notin Broker!ToSet(q)
    BY <2>7, <2>8, RetainedOnce DEF order
  <2> HIDE DEF q
  <2>11. Good(b, [b EXCEPT !.subs[c] = @ \cup F, !.sent[c] = q, !.given[c] = @ \cup T], used)
    BY <1>1, <2>3, <2>4, <2>7, <2>9, <2>10, SubscribeGood
  <2> QED BY <2>4, <2>5, <2>11 DEF b
<1>8. CASE Broker!Unsubscribe(c)
  <2>1. PICK ps \in SUBSET subs[c] : Broker!SetBroker([b EXCEPT !.subs[c] = @ \ ps])
    BY <1>8 DEF Broker!Unsubscribe, b
  <2>2. c \in b.alive /\ used' = used
    BY <1>2, <1>8 DEF Broker!Unsubscribe
  <2>3. Good(b, [b EXCEPT !.subs[c] = @ \ ps], used)
    BY <1>1, <2>2, UnsubscribeGood
  <2> QED BY <2>1, <2>2, <2>3 DEF b
<1>9. CASE Broker!Ends(c)
  <2>1. Broker!SetBroker(Broker!Destroy(b, c)) /\ used' = used
    BY <1>9 DEF Broker!Ends, b
  <2>2. Good(b, Broker!Destroy(b, c), used)
    BY <1>1, EndsGood
  <2> QED BY <2>1, <2>2 DEF b
<1> QED BY <1>3, <1>4, <1>5, <1>6, <1>7, <1>8, <1>9

LEMMA BrokerInit == Broker!Init => BrokerInv
<1> SUFFICES ASSUME Broker!Init PROVE BrokerInv
  OBVIOUS
<1> DEFINE b == Broker!Broker
<1>1. /\ b.alive = {} /\ b.clients = {} /\ b.deployMsg = {} /\ used = {}
      /\ b.subs = [c \in Clients |-> {}] /\ b.will = [c \in Clients |-> None]
      /\ b.retainMap = [t \in Topics |-> Empty]
      /\ b.deviceObj = [c \in Clients |-> None] /\ b.spoke = [c \in Clients |-> None]
      /\ b.clientsById = [i \in BrokerIds |-> None]
      /\ b.given = [c \in Clients |-> {}]
  BY BrokerFields DEF Broker!Init
<1>2. b \in BrokerStates
  <2>1. b = [alive |-> {}, clients |-> {}, subs |-> [c \in Clients |-> {}],
             will |-> [c \in Clients |-> None], retainMap |-> [t \in Topics |-> Empty],
             deployMsg |-> {}, deviceObj |-> [c \in Clients |-> None],
             clientsById |-> [i \in BrokerIds |-> None], spoke |-> [c \in Clients |-> None],
             sent |-> [c \in Clients |-> <<>>], given |-> [c \in Clients |-> {}]]
    BY DEF Broker!Init, Broker!Broker
  <2> HIDE DEF b
  <2> QED BY <2>1 DEF BrokerStates
<1> HIDE DEF b
<1>3. BrokerOK(b, used) /\ Reaches(b)
  BY <1>1, <1>2 DEF BrokerOK, Reaches
<1>4. Broker!NoCopies
  BY NothingSent DEF Broker!NoCopies, Broker!Init
<1> QED BY <1>3, <1>4 DEF BrokerInv, b

LEMMA BrokerNext == BrokerInv /\ [Broker!Next]_(Broker!vars) => BrokerInv'
<1>1. ASSUME BrokerInv, Broker!Next PROVE BrokerInv'
  <2>1. PICK r : Broker!SetBroker(r) /\ Good(Broker!Broker, r, used')
    BY <1>1, BrokerEvent
  <2> QED BY <2>1, BrokerReset DEF Good
<1>2. ASSUME BrokerInv, UNCHANGED Broker!vars PROVE BrokerInv'
  <2>1. (Broker!Broker)' = Broker!Broker /\ used' = used /\ sent' = sent
    BY <1>2 DEF Broker!vars, Broker!Broker
  <2>2. Broker!NoCopies'
    BY <1>2, <2>1 DEF BrokerInv, Broker!NoCopies
  <2> QED BY <1>2, <2>1, <2>2 DEF BrokerInv
<1> QED BY <1>1, <1>2

LEMMA BrokerInvariant == Broker!Spec => []BrokerInv
<1> QED BY BrokerInit, BrokerNext, PTL DEF Broker!Spec

\* Every subscriber has the present message of each retained topic it asked for, and
\* no event sends anybody the same message twice (Broker.publish, 'subscribe').
THEOREM SubscribersAreServed == Broker!Spec => []DeliveredOnce
<1>1. BrokerInv => DeliveredOnce
  BY BrokerFields DEF BrokerInv, Reaches, DeliveredOnce, Broker!DeliveredOnce,
                      Broker!RetainedReachesAll
<1>2. QED
  BY <1>1, BrokerInvariant, PTL

\* The will of a client is published in the very event that destroys it, once, to the
\* subscribers that live on, also when a successor's completeProvisioning destroys it
\* in the middle of a publication (Client.destroy, DeviceAcceptor.accept).
THEOREM WillsComeOnce == Broker!Spec => WillAtTheEnd
<1> DEFINE Told == \A c, d \in Clients :
                     <<"will", c>> \in Broker!ToSet(sent'[d])
                       <=> /\ c \in alive \ alive' /\ will[c] # None
                           /\ d \in alive \ {c} /\ d \in alive' /\ Broker!Covered(subs[d], will[c].topic)
<1>1. ASSUME BrokerInv, Broker!Next PROVE Told
  <2>1. PICK r : Broker!SetBroker(r) /\ Good(Broker!Broker, r, used')
    BY <1>1, BrokerEvent
  <2>2. PICK o : Leaves(Broker!Broker, r, o)
    BY <2>1 DEF Good
  <2>3. /\ o \in alive \cup {None} /\ alive \ alive' = alive \cap {o}
        /\ \A c, d \in Clients :
             <<"will", c>> \in Broker!ToSet(sent'[d])
               <=> /\ c = o /\ will[c] # None /\ d \in alive \ {o}
                   /\ Broker!Covered(subs[d], will[c].topic)
    BY <2>1, <2>2, BrokerFields DEF Leaves, Tells, Broker!SetBroker
  <2> QED BY <2>3
<1>2. BrokerInv /\ [Broker!Next]_(Broker!vars) => [Told]_(Broker!vars)
  BY <1>1
<1>3. Broker!Spec => [][Told]_(Broker!vars)
  <2> HIDE DEF Told
  <2> QED BY <1>2, BrokerInvariant, PTL DEF Broker!Spec
<1> QED BY <1>3, PTL DEF WillAtTheEnd, Broker!WillAtTheEnd

-----------------------------------------------------------------------------
(* The connections and the acceptor's map are a registry of devices.       *)

LEMMA RegistryStart == Broker!Init => Broker!Registry!RegistryInit
  BY DEF Broker!Init, Broker!Registry!RegistryInit

Life(s, o) == [c \in Clients |-> IF s[c] = None THEN "unborn"
                                 ELSE IF o[c] = None THEN "closed" ELSE "open"]

LEMMA RegistryTakes ==
  ASSUME BrokerInv, NEW r, Broker!SetBroker(r), BrokerOK(r, used'),
         NEW i \in BrokerIds, NEW c \in Clients, Takes(Broker!Broker, r, i, c)
  PROVE  Broker!Registry!RegistryNext
<1> DEFINE o == clientsById[i]
           st == Life(spoke, deviceObj)
           st1 == Life(spoke', deviceObj')
<1>1. /\ clientsById \in [BrokerIds -> Clients \cup {None}]
      /\ deviceObj \in [Clients -> BrokerIds \cup {None}]
      /\ spoke \in [Clients -> BrokerIds \cup {None}]
      /\ \A x \in Clients : deviceObj[x] # None => spoke[x] = deviceObj[x]
  BY BrokerFields DEF BrokerInv, BrokerOK, BrokerStates
<1>2. /\ clientsById' \in [BrokerIds -> Clients \cup {None}]
      /\ deviceObj' \in [Clients -> BrokerIds \cup {None}]
      /\ spoke' \in [Clients -> BrokerIds \cup {None}]
  BY DEF BrokerOK, BrokerStates, Broker!SetBroker
<1>3. /\ spoke[c] = None /\ deviceObj[c] = None
      /\ o # None => o \in Clients \ {c} /\ deviceObj[o] = i
      /\ \A j \in BrokerIds : clientsById'[j] = IF j = i THEN c ELSE clientsById[j]
      /\ \A x \in Clients :
           /\ deviceObj'[x] = IF x = c THEN i ELSE IF x = o THEN None ELSE deviceObj[x]
           /\ spoke'[x] = IF x = c THEN i ELSE spoke[x]
  BY BrokerFields DEF Takes, Broker!SetBroker
<1>4. clientsById' = [clientsById EXCEPT ![i] = c] /\ spoke' = [spoke EXCEPT ![c] = i]
  BY <1>1, <1>2, <1>3
<1>5. st[c] = "unborn"
  BY <1>3 DEF Life
<1>6. CASE o = None
  <2>1. \A x \in Clients : st1[x] = IF x = c THEN "open" ELSE st[x]
    BY <1>1, <1>3, <1>6 DEF Life
  <2>2. st1 = [st EXCEPT ![c] = "open"]
    BY <2>1 DEF Life
  <2> QED BY <1>4, <1>5, <2>2 DEF Broker!Registry!RegistryNext, Broker!Registry!Announce, Life
<1>7. CASE o # None
  <2>1. \A x \in Clients : st1[x] = IF x = c THEN "open" ELSE IF x = o THEN "closed" ELSE st[x]
    BY <1>1, <1>3, <1>7 DEF Life
  <2>2. st1 = [st EXCEPT ![c] = "open", ![o] = "closed"]
    BY <1>3, <1>7, <2>1 DEF Life
  <2> QED BY <1>4, <1>5, <1>7, <2>2
          DEF Broker!Registry!RegistryNext, Broker!Registry!Announce, Life
<1> QED BY <1>6, <1>7

LEMMA RegistryDrops ==
  ASSUME BrokerInv, NEW r, Broker!SetBroker(r), BrokerOK(r, used'),
         NEW c \in Clients, Drops(Broker!Broker, r, c)
  PROVE  Broker!Registry!RegistryNext
<1> DEFINE st == Life(spoke, deviceObj)
           st1 == Life(spoke', deviceObj')
<1>1. /\ clientsById \in [BrokerIds -> Clients \cup {None}]
      /\ deviceObj \in [Clients -> BrokerIds \cup {None}]
      /\ \A x \in Clients : deviceObj[x] # None => spoke[x] = deviceObj[x]
      /\ clientsById' \in [BrokerIds -> Clients \cup {None}]
  BY BrokerFields DEF BrokerInv, BrokerOK, BrokerStates, Broker!SetBroker
<1>2. /\ deviceObj[c] # None /\ spoke' = spoke
      /\ \A i \in BrokerIds : /\ clientsById'[i] = IF i = deviceObj[c] THEN None
                                                                     ELSE clientsById[i]
                              /\ clientsById[i] = c <=> i = deviceObj[c]
      /\ \A x \in Clients : deviceObj'[x] = IF x = c THEN None ELSE deviceObj[x]
  BY BrokerFields DEF Drops, Broker!SetBroker
<1>3. clientsById' = [i \in BrokerIds |-> IF clientsById[i] = c THEN None ELSE clientsById[i]]
  BY <1>1, <1>2
<1>4. st[c] = "open"
  BY <1>1, <1>2 DEF Life
<1>5. \A x \in Clients : st1[x] = IF x = c THEN "closed" ELSE st[x]
  BY <1>1, <1>2 DEF Life
<1>6. st1 = [st EXCEPT ![c] = "closed"]
  BY <1>5 DEF Life
<1> QED BY <1>2, <1>3, <1>4, <1>6 DEF Broker!Registry!RegistryNext, Broker!Registry!Close, Life

LEMMA RegistryStep ==
  BrokerInv /\ [Broker!Next]_(Broker!vars)
    => [Broker!Registry!RegistryNext]_(Broker!Registry!registryVars)
<1>1. ASSUME clientsById' = clientsById, deviceObj' = deviceObj, spoke' = spoke
      PROVE  UNCHANGED Broker!Registry!registryVars
  BY <1>1 DEF Broker!Registry!registryVars
<1>2. ASSUME BrokerInv, Broker!Next
      PROVE  [Broker!Registry!RegistryNext]_(Broker!Registry!registryVars)
  <2>1. PICK r : Broker!SetBroker(r) /\ Good(Broker!Broker, r, used')
    BY <1>2, BrokerEvent
  <2>2. BrokerOK(r, used') /\ RegStep(Broker!Broker, r)
    BY <2>1 DEF Good
  <2>3. CASE /\ r.clientsById = Broker!Broker.clientsById
             /\ r.deviceObj = Broker!Broker.deviceObj /\ r.spoke = Broker!Broker.spoke
    <3>1. clientsById' = clientsById /\ deviceObj' = deviceObj /\ spoke' = spoke
      BY <2>1, <2>3, BrokerFields DEF Broker!SetBroker
    <3> QED BY <1>1, <3>1
  <2>4. CASE \E i \in BrokerIds, c \in Clients : Takes(Broker!Broker, r, i, c)
    BY <1>2, <2>1, <2>2, <2>4, RegistryTakes
  <2>5. CASE \E c \in Clients : Drops(Broker!Broker, r, c)
    BY <1>2, <2>1, <2>2, <2>5, RegistryDrops
  <2> QED BY <2>2, <2>3, <2>4, <2>5 DEF RegStep
<1>3. ASSUME UNCHANGED Broker!vars PROVE UNCHANGED Broker!Registry!registryVars
  BY <1>1, <1>3 DEF Broker!vars
<1> QED BY <1>2, <1>3

\* The connections of the broker, the objects of the appliances they speak for and
\* the acceptor's clientsById keep what DeviceRegistry promises.
THEOREM BrokerImplementsRegistry == Broker!Spec => ImplementsRegistry
<1> QED BY RegistryStart, RegistryStep, BrokerInvariant, PTL
        DEF Broker!Spec, ImplementsRegistry, Broker!ImplementsRegistry,
            Broker!Registry!RegistrySpec
=============================================================================
