------------------------------ MODULE Monitors ------------------------------
(***************************************************************************)
(* The monitors of one appliance: the route /device of management/index.ts *)
(* and the page html/monitor.js.  A monitor shows whether the appliance is *)
(* there and every packet of its Device object, and can inject packets.    *)
(* A new session of the appliance makes a new Device object, and the one   *)
(* it replaces can still report for a while.                               *)
(*                                                                         *)
(* There is one page; it uses a new connection of the pool after a loss,   *)
(* and the server may notice the loss of the old one much later.           *)
(***************************************************************************)
EXTENDS Naturals, Sequences

CONSTANTS
  Objects,   \* Device objects of the appliance, each created once
  Sockets,   \* connections of the page, each opened once
  None,
  MaxFlight  \* messages under way beyond which nothing is sent

VARIABLES
  registered,  \* manager.allDevices[id]
  live,        \* Device objects whose connection still delivers packets
  unborn,      \* Device objects not created yet
  onManager,   \* connections whose checkDevicePresence listens to the manager
  watched,     \* the variable device of each connection
  listeners,   \* times onDeviceRx of a connection is on a Device object
  socket,      \* the connection of the page, if it has one
  unused,      \* connections not opened yet
  flight,      \* messages on the page's connection
  shown        \* device_status

vars == <<registered, live, unborn, onManager, watched, listeners, socket, unused, flight, shown>>

Init ==
  /\ registered = None /\ live = {} /\ unborn = Objects
  /\ onManager = {} /\ watched = [s \in Sockets |-> None]
  /\ listeners = [o \in Objects |-> [s \in Sockets |-> 0]]
  /\ socket = None /\ unused = Sockets /\ flight = <<>>
  /\ shown = "waiting"

-----------------------------------------------------------------------------
Presence(o) == [kind |-> "status", online |-> o # None]

\* A packet, with injectFlag: the finally of every injection takes it back before the
\* next callback.
Packet(injected) == [kind |-> "rx", injected |-> injected]

\* removeListener takes one registration away, on adds one.
Removed_XNever(ls, o, s) == ls
Removed(ls, o, s) ==
  IF o # None /\ ls[o][s] > 0 THEN [ls EXCEPT ![o][s] = @ - 1] ELSE ls

Added(ls, o, s) == IF o # None THEN [ls EXCEPT ![o][s] = @ + 1] ELSE ls

(***************************************************************************)
(* checkDevicePresence of the connections ss, when the manager holds o.    *)
(***************************************************************************)
Changed(ss, o) == {s \in ss : watched[s] # o}

Check(ss, o) ==
  /\ watched' = [s \in Sockets |-> IF s \in ss THEN o ELSE watched[s]]
  /\ listeners' =
       [x \in Objects |-> [s \in Sockets |->
          IF s \in Changed(ss, o)
          THEN Added(Removed(listeners, watched[s], s), o, s)[x][s] ELSE listeners[x][s]]]

\* Messages reach the page on its present connection only.
Told(ss, o) == IF socket \in Changed(ss, o) THEN Append(flight, Presence(o)) ELSE flight

Calm == Len(flight) < MaxFlight

\* DeviceManager.accept: the object before it is replaced without an event.
NewDevice(o) ==
  /\ Calm /\ o \in unborn
  /\ registered' = o /\ unborn' = unborn \ {o} /\ live' = live \cup {o}
  /\ Check(onManager, o)
  /\ flight' = Told(onManager, o)
  /\ UNCHANGED <<onManager, socket, unused, shown>>

\* The 'close' of a Device object, which may have been replaced.
CloseDevice(o) ==
  /\ Calm /\ o \in live
  /\ live' = live \ {o}
  /\ IF registered = o
     THEN /\ registered' = None
          /\ Check(onManager, None)
          /\ flight' = Told(onManager, None)
     ELSE UNCHANGED <<registered, watched, listeners, flight>>
  /\ UNCHANGED <<unborn, onManager, socket, unused, shown>>

\* The handler of /device, and the page's onopen, which precedes every message.
Open(s) ==
  /\ socket = None /\ s \in unused
  /\ socket' = s /\ unused' = unused \ {s}
  /\ shown' = "offline"
  /\ onManager' = onManager \cup {s}
  /\ Check({s}, registered)
  /\ flight' = IF registered # None THEN <<Presence(registered)>> ELSE <<>>
  /\ UNCHANGED <<registered, live, unborn>>

\* The page loses its connection; the server's end lives on.
Lost ==
  /\ socket # None
  /\ socket' = None /\ flight' = <<>> /\ shown' = "waiting"
  /\ UNCHANGED <<registered, live, unborn, onManager, watched, listeners, unused>>

\* The 'close' of the server's end: the listeners on the Device object stay.
Closed(s) ==
  /\ s \in onManager \ {socket}
  /\ onManager' = onManager \ {s}
  /\ UNCHANGED <<registered, live, unborn, watched, listeners, socket, unused, flight, shown>>

\* onDeviceRx, once for each registration of the page's connection on object o.
Heard(o, injected) ==
  IF socket # None
  THEN flight \o [n \in 1 .. listeners[o][socket] |-> Packet(injected)]
  ELSE flight

\* A packet of the appliance, on its present or on a replaced connection.
Data(o) ==
  /\ Calm /\ o \in live
  /\ flight' = Heard(o, FALSE)
  /\ UNCHANGED <<registered, live, unborn, onManager, watched, listeners, socket, unused, shown>>

\* sendFromDevice: the packet goes to the listeners of the object that is registered
\* now; a handler among them may throw, which is logged.
Inject ==
  /\ Calm /\ socket # None /\ registered # None
  /\ flight' = Heard(registered, TRUE)
  /\ UNCHANGED <<registered, live, unborn, onManager, watched, listeners, socket, unused, shown>>

\* The page's onmessage; a packet is added to its list.
Receive ==
  /\ flight # <<>>
  /\ flight' = Tail(flight)
  /\ shown' = IF Head(flight).kind = "status"
              THEN IF Head(flight).online THEN "online" ELSE "offline" ELSE shown
  /\ UNCHANGED <<registered, live, unborn, onManager, watched, listeners, socket, unused>>

Next ==
  \/ \E o \in Objects : NewDevice(o) \/ CloseDevice(o) \/ Data(o)
  \/ \E s \in Sockets : Open(s) \/ Closed(s)
  \/ Lost \/ Receive \/ Inject

Spec == Init /\ [][Next]_vars

-----------------------------------------------------------------------------
(* Properties.                                                             *)

\* However sessions replace each other and pages come and go, an open monitor is
\* registered once on the Device object the manager holds and on no other, and a
\* page that has handled what was sent shows whether the appliance is there
\* (checkDevicePresence, management/index.ts).
MonitorFollows ==
  /\ \A s \in onManager, o \in Objects : listeners[o][s] = IF o = registered THEN 1 ELSE 0
  /\ socket # None /\ flight = <<>> =>
       shown = IF registered = None THEN "offline" ELSE "online"
=============================================================================
