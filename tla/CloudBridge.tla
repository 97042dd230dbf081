---------------------------- MODULE CloudBridge ----------------------------
(***************************************************************************)
(* The bridge to the LG cloud (bridge/) of one appliance: the files that   *)
(* remember the registration and the suspension, the BridgedDevice objects *)
(* that tie a Device to an upstream connection and reconnect it, and the   *)
(* two ways a user operates it, the management page (login, logout,        *)
(* enable, disable) and the switch of the dryer in Home Assistant.         *)
(*                                                                         *)
(* An action is the whole callback of one event.  Only enable() waits      *)
(* between its start and its end, and everything else may happen while it  *)
(* waits; start() of a ThinQ1 connection waits for an HTTP answer before   *)
(* there is a socket that destroy() could close.                           *)
(***************************************************************************)
EXTENDS Naturals, FiniteSets

CONSTANTS
  Platform,      \* "thinq1" or "thinq2"
  Devs,          \* Device objects; the pool bounds how many exist at once
  Bs,            \* BridgedDevice objects, a pool as well
  Us,            \* upstream connections, a pool as well
  Calls,         \* calls of enable() that may be under way at once
  PowerLoss,     \* power may fail while a file is being written
  NoDev, NoB, NoUp

ASSUME CloudBridgeAssumption ==
  /\ Platform \in {"thinq1", "thinq2"}
  /\ PowerLoss \in BOOLEAN
  /\ NoDev \notin Devs /\ NoB \notin Bs /\ NoUp \notin Us

\* Only the handler of the RC90U2 dryer, a ThinQ2 appliance, has the switch.
HasSwitch == Platform = "thinq2"

Lives == {"free", "starting", "open", "closing", "abandoned", "stray"}

VARIABLES
  open,            \* the Device objects whose 'close' has not been emitted
  current,         \* DeviceManager.allDevices[id]
  credentials,     \* oauth2.json holds a refresh token
  deviceState,     \* device_<id>.json holds the registration
  suspended,       \* the appliance is listed in suspended.json
  bridgedDevices,  \* Bridge.bridgedDevices.get(id)
  alive,           \* the BridgedDevices that were not destroyed
  downstream,      \* the Device each of them listens to
  connection,      \* BridgedDevice.connection
  timer,           \* the BridgedDevices whose reconnectTimeout is armed
  upstream,        \* the life of each upstream connection
  owner,           \* the BridgedDevice that listens to each connection
  outrun,          \* history: the BridgedDevices that an enable() misplaced,
                   \* for what it saw before it waited was no longer so
  enabling,        \* the Device captured by each waiting call of enable()
  switch           \* the last retained payload on bridge_active

diskVars == <<credentials, deviceState, suspended>>
poolVars == <<bridgedDevices, alive, downstream, connection, timer, upstream, owner, outrun>>
vars == <<open, current, diskVars, poolVars, enabling, switch>>

TypeOK ==
  /\ open \subseteq Devs
  /\ current \in open \cup {NoDev}
  /\ credentials \in BOOLEAN /\ deviceState \in BOOLEAN /\ suspended \in BOOLEAN
  /\ bridgedDevices \in Bs \cup {NoB}
  /\ alive \subseteq Bs
  /\ downstream \in [Bs -> Devs \cup {NoDev}]
  /\ connection \in [Bs -> Us \cup {NoUp}]
  /\ timer \subseteq Bs
  /\ upstream \in [Us -> Lives]
  /\ owner \in [Us -> Bs \cup {NoB}]
  /\ outrun \subseteq Bs
  /\ enabling \in [Calls -> Devs \cup {NoDev}]
  /\ switch \in {"ON", "OFF"}

-----------------------------------------------------------------------------
(* A definition whose name ends in _X and a word is a faulty variant of the  *)
(* definition that follows it.  No specification uses it: the variants     *)
(* are substituted one at a time to show that the properties can fail.     *)

(* The BridgedDevices and their connections, as one value that the         *)
(* handlers pass from one call to the next.                                *)

Pool == [bridged |-> bridgedDevices, alive |-> alive, downstream |-> downstream,
         connection |-> connection, timer |-> timer, upstream |-> upstream,
         owner |-> owner, outrun |-> outrun]

SetPool(q) ==
  /\ bridgedDevices' = q.bridged /\ alive' = q.alive
  /\ downstream' = q.downstream /\ connection' = q.connection
  /\ timer' = q.timer /\ upstream' = q.upstream /\ owner' = q.owner
  /\ outrun' = q.outrun

EmptyPool == [bridged |-> NoB, alive |-> {}, downstream |-> [b \in Bs |-> NoDev],
              connection |-> [b \in Bs |-> NoUp], timer |-> {},
              upstream |-> [u \in Us |-> "free"], owner |-> [u \in Us |-> NoB],
              outrun |-> {}]

\* Objects nothing refers to any more stand for new ones.
SpareBs(q) == {b \in Bs : b \notin q.alive /\ b # q.bridged /\ \A u \in Us : q.owner[u] # b}
SpareUs(q) == {u \in Us : q.upstream[u] = "free"}
Room(q) == SpareBs(q) # {} /\ SpareUs(q) # {}

\* BridgedDevice.reconnectNow: a new connection, which starts by itself.
Connect(q, b) ==
  LET u == CHOOSE u \in SpareUs(q) : TRUE IN
  [q EXCEPT !.connection[b] = u, !.upstream[u] = "starting", !.owner[u] = b]

DestroyUpstream_XNothing(life) == life

(* Connection.destroy: mqtt.end() for ThinQ2; for ThinQ1 the socket, which *)
(* does not exist before start() has had its HTTP answer: the connection   *)
(* is abandoned, and its socket will be a stray one.                       *)
DestroyUpstream(life) ==
  IF Platform = "thinq1" /\ life = "starting" THEN "abandoned" ELSE "closing"

\* What destroy() and disconnect() do to the connections of a set of them.
Detach(q, S) ==
  [q EXCEPT !.connection = [b \in Bs |-> IF b \in S THEN NoUp ELSE q.connection[b]],
            !.upstream = [u \in Us |-> IF \E b \in S : q.connection[b] = u
                                       THEN DestroyUpstream(q.upstream[u])
                                       ELSE q.upstream[u]]]

Destroy_XTimerKept(q, S) ==
  [Detach(q, S) EXCEPT !.alive = q.alive \ S,
                       !.downstream = [b \in Bs |-> IF b \in S THEN NoDev ELSE q.downstream[b]]]

\* BridgedDevice.destroy, of every member of S.
Destroy(q, S) ==
  [Detach(q, S) EXCEPT !.alive = q.alive \ S,
                       !.timer = q.timer \ S,
                       !.downstream = [b \in Bs |-> IF b \in S THEN NoDev ELSE q.downstream[b]]]

Disconnect_XNoTimer(q, b) ==
  IF q.connection[b] = NoUp THEN q ELSE Detach(q, {b})

(* BridgedDevice.disconnect, the 'close' listener of every connection the  *)
(* object ever had: it does not look at which of them has closed.          *)
Disconnect(q, b) ==
  IF q.connection[b] = NoUp THEN q
  ELSE [Detach(q, {b}) EXCEPT !.timer = q.timer \cup {b}]

\* new BridgedDevice(...) and bridgedDevices.set: an older entry is not destroyed.
Create(q, d) ==
  LET b == CHOOSE b \in SpareBs(q) : TRUE IN
  Connect([q EXCEPT !.alive = q.alive \cup {b}, !.downstream[b] = d, !.bridged = b,
                    !.outrun = q.outrun \ {b}], b)

\* The same by an enable() that has waited: it may overwrite an entry that was
\* made meanwhile, and its Device may be present no longer.
CreateLate(q, d) ==
  LET c == Create(q, d) IN
  [c EXCEPT !.outrun = @ \cup ({q.bridged} \ {NoB})
                         \cup (IF d = current THEN {} ELSE {c.bridged})]

Start_XIgnoresSuspension(q, d, isSuspended) ==
  IF ~deviceState THEN q ELSE Create(q, d)

\* Bridge.#start with the state of the disk.
Start(q, d, isSuspended) ==
  IF isSuspended \/ ~deviceState THEN q ELSE Create(q, d)

\* Bridge.#stop.
Stop(q) ==
  IF q.bridged = NoB THEN q ELSE Destroy([q EXCEPT !.bridged = NoB], {q.bridged})

DeviceClose_XNoIdentity(q, d) ==
  LET q1 == Stop(q) IN Destroy(q1, {b \in q1.alive : q1.downstream[b] = d})

\* Device 'close': the manager's listener, then those of the BridgedDevices.
DeviceClose(q, d) ==
  LET q1 == IF current = d THEN Stop(q) ELSE q IN
  Destroy(q1, {b \in q1.alive : q1.downstream[b] = d})

\* publishBridgeState, for an appliance that is in allDevices.
SwitchFor(q) == IF q.bridged # NoB THEN "ON" ELSE "OFF"

-----------------------------------------------------------------------------
(* The appliance.                                                          *)

(***************************************************************************)
(* DeviceManager.accept.  ThinQ2 closes the old device in the same         *)
(* callback, ThinQ1 leaves its 'close' for later.  The handler of the      *)
(* appliance is created, and publishes the switch, before #start runs.     *)
(***************************************************************************)
NewDevice(d) ==
  LET replaces == Platform = "thinq2" /\ current # NoDev
      q == IF replaces THEN DeviceClose(Pool, current) ELSE Pool
  IN
  /\ d \notin open
  /\ \A b \in alive : downstream[b] # d
  /\ \A k \in Calls : enabling[k] # d
  /\ Room(q)
  /\ open' = (IF replaces THEN open \ {current} ELSE open) \cup {d}
  /\ current' = d
  /\ SetPool(Start(q, d, suspended))
  /\ switch' = IF HasSwitch THEN SwitchFor(q) ELSE switch
  /\ UNCHANGED <<diskVars, enabling>>

\* 'close' of a device that was not replaced, or of a replaced ThinQ1 device.
DeviceCloses(d) ==
  /\ d \in open
  /\ open' = open \ {d}
  /\ current' = IF current = d THEN NoDev ELSE current
  /\ SetPool(DeviceClose(Pool, d))
  /\ UNCHANGED <<diskVars, enabling, switch>>

-----------------------------------------------------------------------------
(* The upstream connections.                                               *)

\* ThinQ1: the HTTP answer has come and the socket exists, whether anybody still
\* wants it or not; ThinQ2: connected.
UpstreamOpens(u) ==
  /\ upstream[u] \in {"starting", "abandoned"}
  /\ upstream' = [upstream EXCEPT ![u] = IF @ = "starting" THEN "open" ELSE "stray"]
  /\ UNCHANGED <<open, current, diskVars, bridgedDevices, alive, downstream, connection,
                 timer, owner, outrun, enabling, switch>>

\* 'close': refused, lost, closed by the cloud, or the end of destroy().
UpstreamCloses(u) ==
  LET q == Disconnect(Pool, owner[u]) IN
  /\ upstream[u] \in (IF Platform = "thinq1" THEN {"open", "stray", "closing"}
                                             ELSE {"starting", "open", "closing"})
  /\ SetPool([q EXCEPT !.upstream[u] = "free", !.owner[u] = NoB])
  /\ UNCHANGED <<open, current, diskVars, enabling, switch>>

ReconnectNow_XKeepsTimer(b) ==
  /\ b \in timer
  /\ SpareUs(Pool) # {}
  /\ SetPool(Connect(Pool, b))
  /\ UNCHANGED <<open, current, diskVars, enabling, switch>>

\* RECONNECT_PERIOD after disconnect().
ReconnectNow(b) ==
  /\ b \in timer
  /\ SpareUs(Pool) # {}
  /\ SetPool(Connect([Pool EXCEPT !.timer = timer \ {b}], b))
  /\ UNCHANGED <<open, current, diskVars, enabling, switch>>

-----------------------------------------------------------------------------
(* The process.                                                            *)

\* Nothing but the files and the retained topic outlives the process.
Reset ==
  /\ open' = {} /\ current' = NoDev
  /\ SetPool(EmptyPool)
  /\ enabling' = [k \in Calls |-> NoDev]
  /\ UNCHANGED switch

\* The add-on is restarted.
Restart == Reset /\ UNCHANGED diskVars

\* fetch of a ThinQ1 start() is rejected; nobody awaits start().
FetchRejected(u) ==
  /\ Platform = "thinq1"
  /\ upstream[u] \in {"starting", "abandoned"}
  /\ Reset /\ UNCHANGED diskVars

(* writeFileSync truncates before it writes.  The file of the suspensions  *)
(* is shared: any appliance's switch rewrites it.                          *)
PowerFailsInSuspended ==
  /\ PowerLoss /\ HasSwitch
  /\ Reset
  /\ suspended' = FALSE
  /\ UNCHANGED <<credentials, deviceState>>

PowerFailsInRegister(k) ==
  /\ PowerLoss
  /\ enabling[k] # NoDev
  /\ Reset
  /\ deviceState' = FALSE
  /\ UNCHANGED <<credentials, suspended>>

-----------------------------------------------------------------------------
(* The switch in Home Assistant.                                           *)

\* bridge_active OFF: Bridge.suspend, then publishBridgeState.
Suspend ==
  /\ HasSwitch /\ current # NoDev
  /\ suspended' = TRUE
  /\ SetPool(Stop(Pool))
  /\ switch' = SwitchFor(Stop(Pool))
  /\ UNCHANGED <<open, current, credentials, deviceState, enabling>>

\* What resume() does with the flag cleared: start unless there is an entry.
Resumed(q) == IF q.bridged # NoB THEN q ELSE Start(q, current, FALSE)

\* bridge_active ON; an appliance that is not registered stays as it is.
Resume ==
  /\ HasSwitch /\ current # NoDev
  /\ Room(Pool)
  /\ IF deviceState
     THEN suspended' = FALSE /\ SetPool(Resumed(Pool)) /\ switch' = SwitchFor(Resumed(Pool))
     ELSE switch' = SwitchFor(Pool) /\ UNCHANGED <<suspended, poolVars>>
  /\ UNCHANGED <<open, current, credentials, deviceState, enabling>>

\* A selection made in HA or on the panel publishes the switch as well.
PublishSelection ==
  /\ HasSwitch /\ current # NoDev
  /\ switch' = SwitchFor(Pool)
  /\ UNCHANGED <<open, current, diskVars, poolVars, enabling>>

-----------------------------------------------------------------------------
(* The management page.                                                    *)

Login ==
  /\ credentials' = TRUE
  /\ UNCHANGED <<open, current, deviceState, suspended, poolVars, enabling, switch>>

\* unlinkSync throws when there is no file.
Logout ==
  /\ credentials
  /\ credentials' = FALSE
  /\ UNCHANGED <<open, current, deviceState, suspended, poolVars, enabling, switch>>

\* Bridge.enable up to the await of register().
EnableBegins(k) ==
  /\ enabling[k] = NoDev
  /\ credentials /\ bridgedDevices = NoB /\ current # NoDev
  /\ enabling' = [enabling EXCEPT ![k] = current]
  /\ UNCHANGED <<open, current, diskVars, poolVars, switch>>

\* register() has saved the registration.  The Device is the one of the start,
\* and nothing that was checked there is checked again.
EnableEnds(k) ==
  /\ enabling[k] # NoDev
  /\ Room(Pool)
  /\ deviceState' = TRUE
  /\ SetPool(CreateLate(Pool, enabling[k]))
  /\ enabling' = [enabling EXCEPT ![k] = NoDev]
  /\ UNCHANGED <<open, current, credentials, suspended, switch>>

\* register() throws: the cloud refuses, a time-out, the pairing fails.
EnableFails(k) ==
  /\ enabling[k] # NoDev
  /\ enabling' = [enabling EXCEPT ![k] = NoDev]
  /\ UNCHANGED <<open, current, diskVars, poolVars, switch>>

Disable_XKeepsEntry ==
  /\ deviceState
  /\ deviceState' = FALSE
  /\ UNCHANGED <<open, current, credentials, suspended, poolVars, enabling, switch>>

\* Bridge.disable; without a file unlinkSync throws before #stop.
Disable ==
  /\ deviceState
  /\ deviceState' = FALSE
  /\ SetPool(Stop(Pool))
  /\ UNCHANGED <<open, current, credentials, suspended, enabling, switch>>

-----------------------------------------------------------------------------
\* Whatever an earlier process has left on disk and in the broker of HA.
Init ==
  /\ open = {} /\ current = NoDev
  /\ credentials \in BOOLEAN /\ deviceState \in BOOLEAN
  /\ suspended \in (IF HasSwitch THEN BOOLEAN ELSE {FALSE})
  /\ bridgedDevices = NoB /\ alive = {} /\ timer = {}
  /\ downstream = [b \in Bs |-> NoDev]
  /\ connection = [b \in Bs |-> NoUp]
  /\ upstream = [u \in Us |-> "free"]
  /\ owner = [u \in Us |-> NoB]
  /\ outrun = {}
  /\ enabling = [k \in Calls |-> NoDev]
  /\ switch \in (IF HasSwitch THEN {"ON", "OFF"} ELSE {"OFF"})

Next ==
  \/ \E d \in Devs : NewDevice(d) \/ DeviceCloses(d)
  \/ \E u \in Us : UpstreamOpens(u) \/ UpstreamCloses(u) \/ FetchRejected(u)
  \/ \E b \in Bs : ReconnectNow(b)
  \/ Suspend \/ Resume \/ PublishSelection
  \/ Login \/ Logout \/ Disable
  \/ Restart \/ PowerFailsInSuspended
  \/ \E k \in Calls :
       EnableBegins(k) \/ EnableEnds(k) \/ EnableFails(k) \/ PowerFailsInRegister(k)

Spec == Init /\ [][Next]_vars

(***************************************************************************)
(* The timers of Node fire, a socket that is being closed closes, and the  *)
(* cloud accepts a connection if it is tried again and again.              *)
(***************************************************************************)
Fairness ==
  /\ \A b \in Bs : WF_vars(ReconnectNow(b))
  /\ \A u \in Us : WF_vars(upstream[u] = "closing" /\ UpstreamCloses(u))
  /\ \A u \in Us : SF_vars(UpstreamOpens(u))

FairSpec == Spec /\ Fairness

-----------------------------------------------------------------------------
(* Safety.                                                                 *)

(* An appliance that is online, registered and not suspended has a live    *)
(* BridgedDevice, in the map, that listens to its present Device: however  *)
(* sessions, switch, page, restarts, the cloud's disconnections and calls  *)
(* of enable() under way follow one another (bridge/index.ts, #start,      *)
(* #stop, resume, enable).  The one exception is an entry that enable()    *)
(* itself made for a Device that had gone while it waited.                 *)
OnlineIsBridged ==
  current # NoDev /\ deviceState /\ ~suspended /\ bridgedDevices \notin outrun =>
    /\ bridgedDevices \in alive
    /\ downstream[bridgedDevices] = current

(* While the switch has the bridge suspended, nothing is or gets attached  *)
(* to the cloud: no live BridgedDevice and no connection that is not being *)
(* closed, whatever timer or 'close' was pending (suspend, #start).        *)
SuspendedIsDetached ==
  suspended => alive = {} /\ \A u \in Us : upstream[u] \in {"free", "closing"}

(* A live BridgedDevice is the entry of the map, or listens to a replaced  *)
(* Device that is still to close: #start overwrites an entry and relies on *)
(* the old Device's 'close' to destroy it.  What enable() misplaced after  *)
(* its wait is the only thing that nobody looks after (#start, #stop,      *)
(* enable).                                                                *)
NoneIsLeaked ==
  \A b \in alive \ outrun : b = bridgedDevices \/ downstream[b] \in open \ {current}

(* A BridgedDevice never has two connections to the cloud at once, though  *)
(* its 'close' listener does not look at which connection has closed.      *)
OneUpstreamEach ==
  \A b \in alive : \A u \in Us :
    owner[u] = b /\ upstream[u] # "closing" => connection[b] = u

(* An appliance is attached to the cloud once: by the entry of the map,    *)
(* through one connection (BridgedDevice, bridge/index.ts).                *)
AttachedOnce == NoneIsLeaked /\ OneUpstreamEach

(* What is not registered is not attached: without a registration on disk  *)
(* the map has no entry, and what lives waits for the 'close' of a         *)
(* replaced Device, or was misplaced by enable() after its wait.  So a     *)
(* restart loses no bridge, and disable() leaves none but those behind     *)
(* (enable, disable, #stop).                                               *)
BridgedIsRegistered ==
  ~deviceState =>
    /\ bridgedDevices = NoB
    /\ \A b \in alive \ outrun : downstream[b] \in open \ {current}

(* A live BridgedDevice has either a connection or an armed timer, never   *)
(* both and never neither: it neither stays detached for good nor connects *)
(* twice (reconnectNow, disconnect).                                       *)
ConnectedOrWaiting == \A b \in alive : (connection[b] # NoUp) # (b \in timer)

(* A destroyed BridgedDevice is quiet: no timer that would reconnect it,   *)
(* and no connection but what is being closed or, for ThinQ1, was still    *)
(* waiting for its HTTP answer when it was destroyed: destroy() found no   *)
(* socket then, and the one that opens later stays (destroy).              *)
DestroyedIsQuiet ==
  /\ timer \subseteq alive
  /\ \A u \in Us : upstream[u] \in {"starting", "open"} => owner[u] \in alive

(* Both, misplaced BridgedDevices and calls of enable() included           *)
(* (BridgedDevice, bridge/index.ts).                                       *)
PoolsAreKept == ConnectedOrWaiting /\ DestroyedIsQuiet

(* Switching the bridge off detaches the appliance from the cloud: at the  *)
(* end of suspend() no connection is left that is not being closed.        *)
SuspendDetaches ==
  [][Suspend => \A u \in Us : upstream'[u] \in {"free", "closing"}]_vars

(* Towards BridgePolicy: the bridge does what its documentation promises.  *)
Policy == INSTANCE BridgePolicy WITH
  registered <- deviceState, suspended <- suspended,
  online <- current # NoDev,
  attached <- bridgedDevices \in alive

ImplementsPolicy == Policy!Spec

-----------------------------------------------------------------------------
(* Liveness.                                                               *)

(* As long as the bridge stays up, its connection is restored again and    *)
(* again: no order of 'close', timer and connect leaves it detached.       *)
CloudReattaches ==
  \A b \in Bs : <>[](bridgedDevices = b /\ b \in alive)
                => []<>(\E u \in Us : connection[b] = u /\ upstream[u] = "open")

(* What was attached is detached once its BridgedDevice is gone: the       *)
(* connections of a destroyed one close (ThinQ2).                          *)
DetachedIsReleased ==
  \A u \in Us : (upstream[u] # "free" /\ owner[u] \notin alive) ~> (upstream[u] = "free")
=============================================================================
