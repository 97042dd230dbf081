------------------------------ MODULE Sessions ------------------------------
(***************************************************************************)
(* The way of an appliance into the program: a ThinQ1 TLS connection       *)
(* (cloud/thinq1) or a client of the internal MQTT broker (cloud/thinq2),  *)
(* the acceptor that turns it into a Device object, the DeviceManager      *)
(* (cloud/devmgr.ts) that registers the object under the appliance's id,   *)
(* and the Home Assistant bridge (cloud/ha_bridge.ts) that creates, drops  *)
(* and replaces the handler of the appliance.                              *)
(*                                                                         *)
(* The program is a single-threaded event loop, so an action is the whole  *)
(* callback of one event, with every listener it runs synchronously.  The  *)
(* two protocols differ in one essential way: Client.destroy of the broker *)
(* runs the whole tear-down before it returns, while destroy() of a ThinQ1 *)
(* socket only schedules its 'close' event.                                *)
(*                                                                         *)
(* A Device object and its handler are named by the connection they were   *)
(* created for: a connection creates at most one of each.                  *)
(***************************************************************************)
EXTENDS Naturals, FiniteSets

CONSTANTS
  T1Ids, T2Ids,       \* the appliances of either protocol
  T1Conns, T2Conns,   \* connections; each one of this pool is used once
  ModelsOf,           \* the models an appliance may report over its life
  NoConn, NoId        \* null values

Ids == T1Ids \cup T2Ids
Conns == T1Conns \cup T2Conns
NoModel == "none"
\* A model is "handled" when the tables of ha_bridge.ts have a class for it.
Models == {"handled", "unhandled"}

ASSUME SessionsAssumption ==
  /\ T1Ids \cap T2Ids = {}
  /\ T1Conns \cap T2Conns = {}
  /\ NoConn \notin Conns
  /\ NoId \notin Ids
  /\ ModelsOf \in [Ids -> SUBSET Models]

VARIABLES
  sock,        \* the stream of each connection
  gone,        \* connections whose appliance vanished without closing them
  deviceMeta,  \* thinq1/http.ts: the model each ThinQ1 appliance posted
  deployMsg,   \* client.deployMsg of each broker client, by its model
  did,         \* the appliance a connection has identified itself as
  device,      \* the Device object of a connection: none, open, closed
  byId,        \* connectionsById and clientsById of the two acceptors
  allDevices,  \* DeviceManager.allDevices
  haDevices,   \* the HA bridge's handler registered for each appliance
  handlers,    \* the life of each handler: none, live, dropped
  config,      \* the handlers whose discovery config has been set
  avail        \* the last retained payload on <prefix>/<id>/availability

haVars == <<haDevices, handlers, config, avail>>
vars == <<sock, gone, deviceMeta, deployMsg, did, device, byId, allDevices, haVars>>

TypeOK ==
  /\ sock \in [Conns -> {"idle", "open", "closing", "closed"}]
  /\ gone \subseteq Conns
  /\ deviceMeta \in [T1Ids -> Models \cup {NoModel}]
  /\ deployMsg \in [T2Conns -> Models \cup {NoModel}]
  /\ did \in [Conns -> Ids \cup {NoId}]
  /\ device \in [Conns -> {"none", "open", "closed"}]
  /\ byId \in [Ids -> Conns \cup {NoConn}]
  /\ allDevices \in [Ids -> Conns \cup {NoConn}]
  /\ haDevices \in [Ids -> Conns \cup {NoConn}]
  /\ handlers \in [Conns -> {"none", "live", "dropped"}]
  /\ config \subseteq Conns
  /\ avail \in [Ids -> {"none", "online", "offline"}]

Init ==
  /\ sock = [c \in Conns |-> "idle"]
  /\ gone = {}
  /\ deviceMeta = [i \in T1Ids |-> NoModel]
  /\ deployMsg = [c \in T2Conns |-> NoModel]
  /\ did = [c \in Conns |-> NoId]
  /\ device = [c \in Conns |-> "none"]
  /\ byId = [i \in Ids |-> NoConn]
  /\ allDevices = [i \in Ids |-> NoConn]
  /\ haDevices = [i \in Ids |-> NoConn]
  /\ handlers = [c \in Conns |-> "none"]
  /\ config = {}
  /\ avail = [i \in Ids |-> "none"]

-----------------------------------------------------------------------------
(* The listeners of the DeviceManager and of the HA bridge.                *)

(* A definition whose name ends in _X and a word is a faulty variant of the  *)
(* definition that follows it.  No specification uses it: the variants     *)
(* are substituted one at a time to show that the properties can fail.     *)

Offline_XStaysOnline(av, i) == av

Offline_XPayload(av, i) == [av EXCEPT ![i] = "unavailable"]

\* HADevice.drop shows the appliance as offline.
Offline(av, i) == [av EXCEPT ![i] = "offline"]

\* HADevice.drop, and the subclasses' clearing of their timers.
Drop(hs, c) == [hs EXCEPT ![c] = "dropped"]

\* HADevice.publishConfig, once the handler has a config.
PublishConfig(av, i) == [av EXCEPT ![i] = "online"]

ServesStill_XNoIdentity(c, i) == TRUE

\* The identity check of Bridge.dropDevice of ha_bridge.ts.
ServesStill(c, i) == haDevices[i] = c

(***************************************************************************)
(* Bridge.dropDevice of ha_bridge.ts, run by the 'close' of the device of  *)
(* connection c: the map, the handlers and the topics it leaves.           *)
(***************************************************************************)
DevicesAfterClose(c, i) ==
  IF ServesStill(c, i) THEN [haDevices EXCEPT ![i] = NoConn] ELSE haDevices

HandlersAfterClose(c, i) ==
  IF ServesStill(c, i) THEN Drop(handlers, c) ELSE handlers

AvailAfterClose(c, i) ==
  IF ServesStill(c, i) THEN Offline(avail, i) ELSE avail

HandlersAfterReplace_XKept(hs, old) == hs

\* newDevice drops the handler registered before, if there is one.
HandlersAfterReplace(hs, old) == IF old # NoConn THEN Drop(hs, old) ELSE hs

(***************************************************************************)
(* Bridge.newDevice of ha_bridge.ts for the device of connection c, from   *)
(* the map hd, the handlers hs and the topics av.  For a model without a   *)
(* class the function returns early and leaves the dropped handler in the  *)
(* map.  Most classes set their config in the constructor, the others once *)
(* the appliance has answered.                                             *)
(***************************************************************************)
HaNewDevice(hd, hs, av, c, i, model) ==
  LET old == hd[i]
      hs1 == HandlersAfterReplace(hs, old)
      av1 == IF old # NoConn THEN Offline(av, i) ELSE av
  IN
  \/ /\ model = "unhandled"
     /\ haDevices' = hd
     /\ handlers' = hs1
     /\ avail' = av1
     /\ UNCHANGED config
  \/ /\ model # "unhandled"
     /\ haDevices' = [hd EXCEPT ![i] = c]
     /\ handlers' = [hs1 EXCEPT ![c] = "live"]
     /\ \/ config' = config \cup {c} /\ avail' = PublishConfig(av1, i)
        \/ UNCHANGED config /\ avail' = av1

ManagerClose_XNoIdentity(all, c, i) == [all EXCEPT ![i] = NoConn]

\* The 'close' listener of DeviceManager.accept: only the current object.
ManagerClose(all, c, i) ==
  IF all[i] = c THEN [all EXCEPT ![i] = NoConn] ELSE all

-----------------------------------------------------------------------------
(* ThinQ1.                                                                 *)

\* A stream is accepted by the TLS server or by the broker.
Connect(c) ==
  /\ sock[c] = "idle"
  /\ sock' = [sock EXCEPT ![c] = "open"]
  /\ UNCHANGED <<gone, deviceMeta, deployMsg, did, device, byId, allDevices, haVars>>

\* The appliance announces its model over HTTP before it connects.
PostMeta(i, model) ==
  /\ model \in ModelsOf[i]
  /\ deviceMeta' = [deviceMeta EXCEPT ![i] = model]
  /\ UNCHANGED <<sock, gone, deployMsg, did, device, byId, allDevices, haVars>>

\* The first frame of a connection, the model of the appliance unknown.
T1Refuse(c, i) ==
  /\ sock[c] = "open" /\ c \notin gone
  /\ did[c] = NoId
  /\ deviceMeta[i] = NoModel
  /\ did' = [did EXCEPT ![c] = i]
  /\ sock' = [sock EXCEPT ![c] = "closing"]
  /\ UNCHANGED <<gone, deviceMeta, deployMsg, device, byId, allDevices, haVars>>

(***************************************************************************)
(* The first frame of a connection.  destroy() of the connection it        *)
(* replaces leaves the 'close' event of that one pending: its Device stays *)
(* open until T1SocketClosed.                                              *)
(***************************************************************************)
T1Accept(c, i) ==
  LET old == byId[i] IN
  /\ sock[c] = "open" /\ c \notin gone
  /\ did[c] = NoId
  /\ deviceMeta[i] # NoModel
  /\ did' = [did EXCEPT ![c] = i]
  /\ sock' = IF old # NoConn THEN [sock EXCEPT ![old] = "closing"] ELSE sock
  /\ byId' = [byId EXCEPT ![i] = c]
  /\ device' = [device EXCEPT ![c] = "open"]
  /\ allDevices' = [allDevices EXCEPT ![i] = c]
  /\ HaNewDevice(haDevices, handlers, avail, c, i, deviceMeta[i])
  /\ UNCHANGED <<gone, deviceMeta, deployMsg>>

T1IdleTimeout_XHandshakeOnly(c) ==
  /\ sock[c] = "open" /\ did[c] = NoId
  /\ sock' = [sock EXCEPT ![c] = "closing"]
  /\ UNCHANGED <<gone, deviceMeta, deployMsg, did, device, byId, allDevices, haVars>>

\* Nothing was read from the connection for IDLE_TIMEOUT.
T1IdleTimeout(c) ==
  /\ sock[c] = "open"
  /\ sock' = [sock EXCEPT ![c] = "closing"]
  /\ UNCHANGED <<gone, deviceMeta, deployMsg, did, device, byId, allDevices, haVars>>

\* The 'close' listener of the ThinQ1 acceptor: only the current connection.
T1Forget(by, c, i) == IF by[i] = c THEN [by EXCEPT ![i] = NoConn] ELSE by

(***************************************************************************)
(* 'close' of the socket: the listener of the acceptor, then the one of    *)
(* the Device, whose own 'close' runs the manager and the HA bridge.       *)
(***************************************************************************)
T1SocketClosed(c) ==
  LET i == did[c] IN
  /\ sock[c] \in {"open", "closing"}
  /\ sock' = [sock EXCEPT ![c] = "closed"]
  /\ IF device[c] = "open"
     THEN /\ byId' = T1Forget(byId, c, i)
          /\ device' = [device EXCEPT ![c] = "closed"]
          /\ allDevices' = ManagerClose(allDevices, c, i)
          /\ haDevices' = DevicesAfterClose(c, i)
          /\ handlers' = HandlersAfterClose(c, i)
          /\ avail' = AvailAfterClose(c, i)
     ELSE UNCHANGED <<byId, device, allDevices, haDevices, handlers, avail>>
  /\ UNCHANGED <<gone, deviceMeta, deployMsg, did, config>>

-----------------------------------------------------------------------------
(* ThinQ2.                                                                 *)

\* preDeploy or deploy: the client remembers the message and is answered.
T2Deploy(c, model) ==
  /\ sock[c] = "open" /\ c \notin gone
  /\ deployMsg' = [deployMsg EXCEPT ![c] = model]
  /\ UNCHANGED <<sock, gone, deviceMeta, did, device, byId, allDevices, haVars>>

\* DeviceAcceptor.disconnected deletes the entry of the id, whoever holds it.
T2Forget(by, i) == [by EXCEPT ![i] = NoConn]

T2Register_XSwapped(by, c, i) ==
  IF by[i] # NoConn THEN T2Forget([by EXCEPT ![i] = c], i)
                    ELSE [by EXCEPT ![i] = c]

\* The client that holds the id is destroyed before the new one is entered.
T2Register(by, c, i) ==
  IF by[i] # NoConn THEN [T2Forget(by, i) EXCEPT ![i] = c]
                    ELSE [by EXCEPT ![i] = c]

\* The early returns of completeProvisioning.
CanComplete(c, i) ==
  /\ deployMsg[c] \in ModelsOf[i]
  /\ device[c] = "none"

(***************************************************************************)
(* completeProvisioning_ack.  The client that held the id is destroyed     *)
(* first; that runs DeviceAcceptor.disconnected, the manager and the HA    *)
(* bridge for the old device before the new one is announced.              *)
(***************************************************************************)
T2CompleteProvisioning(c, i) ==
  LET old == byId[i]
      replaces == old # NoConn
      all1 == IF replaces THEN ManagerClose(allDevices, old, i) ELSE allDevices
  IN
  /\ sock[c] = "open" /\ c \notin gone
  /\ CanComplete(c, i)
  /\ sock' = IF replaces THEN [sock EXCEPT ![old] = "closed"] ELSE sock
  /\ device' = IF replaces THEN [device EXCEPT ![old] = "closed", ![c] = "open"]
                           ELSE [device EXCEPT ![c] = "open"]
  /\ did' = [did EXCEPT ![c] = i]
  /\ byId' = T2Register(byId, c, i)
  /\ allDevices' = [all1 EXCEPT ![i] = c]
  /\ IF replaces
     THEN HaNewDevice(DevicesAfterClose(old, i), HandlersAfterClose(old, i),
                      AvailAfterClose(old, i), c, i, deployMsg[c])
     ELSE HaNewDevice(haDevices, handlers, avail, c, i, deployMsg[c])
  /\ UNCHANGED <<gone, deviceMeta, deployMsg>>

(***************************************************************************)
(* Client.destroy after 'close', 'error', 'disconnect' or the time-out of  *)
(* the stream; a client that has no device is only forgotten by the broker.*)
(***************************************************************************)
T2Destroy(c) ==
  LET i == did[c] IN
  /\ sock[c] = "open"
  /\ sock' = [sock EXCEPT ![c] = "closed"]
  /\ IF device[c] = "open"
     THEN /\ byId' = T2Forget(byId, i)
          /\ device' = [device EXCEPT ![c] = "closed"]
          /\ allDevices' = ManagerClose(allDevices, c, i)
          /\ haDevices' = DevicesAfterClose(c, i)
          /\ handlers' = HandlersAfterClose(c, i)
          /\ avail' = AvailAfterClose(c, i)
     ELSE UNCHANGED <<byId, device, allDevices, haDevices, handlers, avail>>
  /\ UNCHANGED <<gone, deviceMeta, deployMsg, did, config>>

-----------------------------------------------------------------------------
(* Both protocols.                                                         *)

\* A status frame after which a handler has all it needs to set its config.
Configure(c) ==
  /\ sock[c] = "open" /\ c \notin gone
  /\ handlers[c] = "live"
  /\ c \notin config
  /\ config' = config \cup {c}
  /\ avail' = PublishConfig(avail, did[c])
  /\ UNCHANGED <<sock, gone, deviceMeta, deployMsg, did, device, byId, allDevices,
                 haDevices, handlers>>

\* HA came back: every handler of the map that has a config republishes it.
Discovery ==
  /\ avail' = [i \in Ids |-> IF haDevices[i] \in config
                             THEN PublishConfig(avail, i)[i] ELSE avail[i]]
  /\ UNCHANGED <<sock, gone, deviceMeta, deployMsg, did, device, byId, allDevices,
                 haDevices, handlers, config>>

\* The appliance loses power or its network: no FIN, no further frame.
Vanish(c) ==
  /\ sock[c] = "open"
  /\ gone' = gone \cup {c}
  /\ UNCHANGED <<sock, deviceMeta, deployMsg, did, device, byId, allDevices, haVars>>

Next ==
  \/ \E c \in Conns : Connect(c) \/ Configure(c) \/ Vanish(c)
  \/ \E i \in T1Ids, model \in Models : PostMeta(i, model)
  \/ \E c \in T1Conns, i \in T1Ids : T1Refuse(c, i) \/ T1Accept(c, i)
  \/ \E c \in T1Conns : T1IdleTimeout(c) \/ T1SocketClosed(c)
  \/ \E c \in T2Conns, model \in Models : T2Deploy(c, model)
  \/ \E c \in T2Conns, i \in T2Ids : T2CompleteProvisioning(c, i)
  \/ \E c \in T2Conns : T2Destroy(c)
  \/ Discovery

(***************************************************************************)
(* Fairness.  A destroyed socket always emits 'close'; the idle timers are *)
(* armed when the stream is accepted and only frames push them back, so    *)
(* they fire for a peer that is gone.                                      *)
(***************************************************************************)
Fairness ==
  /\ \A c \in T1Conns : WF_vars(sock[c] = "closing" /\ T1SocketClosed(c))
  /\ \A c \in T1Conns : WF_vars(c \in gone /\ T1IdleTimeout(c))
  /\ \A c \in T2Conns : WF_vars(c \in gone /\ T2Destroy(c))

Spec == Init /\ [][Next]_vars
FairSpec == Spec /\ Fairness

-----------------------------------------------------------------------------
(* Safety.                                                                 *)

(***************************************************************************)
(* The maps of the acceptors and the map of the manager are kept by        *)
(* different listeners, with an identity check in some of them and none in *)
(* others (thinq2/device.ts:168): they never disagree.                     *)
(***************************************************************************)
AcceptorAgreesWithManager == byId = allDevices

(***************************************************************************)
(* An appliance is registered under the object of a connection that spoke  *)
(* for it and has not closed, and a connection that is open and has been   *)
(* announced is the registered one: the late 'close' of a replaced         *)
(* connection never unregisters its successor.                             *)
(***************************************************************************)
RegisteredIsConnected ==
  /\ \A i \in Ids : LET c == allDevices[i] IN
       c # NoConn => /\ device[c] = "open" /\ did[c] = i
                     /\ sock[c] \in {"open", "closing"}
  /\ \A c \in Conns : device[c] = "open" /\ sock[c] = "open" =>
       allDevices[did[c]] = c

\* Together: whatever closes late, who is registered is who is connected.
RegistriesAgree == AcceptorAgreesWithManager /\ RegisteredIsConnected

(***************************************************************************)
(* A handler that has not been dropped serves the registered device of its *)
(* appliance and is the one HA commands are routed to, so an appliance     *)
(* never has two; and the registered device's handler is never a dropped   *)
(* one.                                                                    *)
(***************************************************************************)
OneLiveHandler ==
  \A c \in Conns :
    /\ handlers[c] = "live" =>
         allDevices[did[c]] = c /\ haDevices[did[c]] = c
    /\ handlers[c] = "dropped" =>
         \A i \in Ids : allDevices[i] # c

(***************************************************************************)
(* While a configured handler serves an appliance, HA is told it is        *)
(* online: whatever the order in which the old connection's events come,   *)
(* its 'offline' is never the last word.                                   *)
(***************************************************************************)
ServedIsOnline ==
  \A c \in config : handlers[c] = "live" => avail[did[c]] = "online"

\* A handler that has not been dropped is registered for the appliance.
HasLiveHandler(i) ==
  haDevices[i] # NoConn /\ handlers[haDevices[i]] = "live"

(***************************************************************************)
(* An appliance shown online has a live handler, provided it only ever     *)
(* reports models the program has a class for: the early return of         *)
(* newDevice for another model leaves the dropped handler of a ThinQ1      *)
(* appliance in haDevices, and 'discovery' shows it online again.          *)
(***************************************************************************)
OnlineIsServed ==
  \A i \in Ids : "unhandled" \notin ModelsOf[i] /\ avail[i] = "online" =>
    HasLiveHandler(i)

-----------------------------------------------------------------------------
(* Liveness and refinement.                                                *)

(***************************************************************************)
(* A handler whose appliance vanished without a FIN is eventually dropped, *)
(* by the idle time-out or by the connection that replaces it.             *)
(***************************************************************************)
GoneIsDropped(c) ==
  (c \in gone /\ handlers[c] = "live") ~> handlers[c] = "dropped"

(***************************************************************************)
(* The acceptors and the manager implement the abstract registry.          *)
(***************************************************************************)
DeviceState(c) ==
  CASE device[c] = "none" -> "unborn"
    [] device[c] = "open" -> "open"
    [] OTHER -> "closed"

Registry == INSTANCE DeviceRegistry WITH
  Devs <- Conns,
  NoDev <- NoConn,
  current <- allDevices,
  state <- [c \in Conns |-> DeviceState(c)],
  owner <- [c \in Conns |-> IF device[c] = "none" THEN NoId ELSE did[c]]

\* Every step is an Announce, a Close, or invisible to the registry.
ImplementsRegistry == Registry!RegistrySpec
=============================================================================
