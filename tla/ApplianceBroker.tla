--------------------------- MODULE ApplianceBroker ---------------------------
(***************************************************************************)
(* The MQTT broker inside the program, cloud/mqtt-broker.ts, and the       *)
(* acceptor of ThinQ2 appliances that listens to it, cloud/thinq2/device.ts.*)
(*                                                                         *)
(* An action is one event of a client's connection.  Everything the broker *)
(* does for it happens before the event's handler returns: publishing runs *)
(* the acceptor first, which may answer, or destroy another client, whose  *)
(* will is then published in the middle of the first publication.  The     *)
(* functions below follow these calls; each takes the state of the broker  *)
(* as a record and returns the one it leaves.                              *)
(***************************************************************************)
EXTENDS Naturals, Sequences, SequencesExt, FiniteSets

CONSTANTS
  Clients,   \* connections; each one of this pool is used once
  Appliances,   \* those that speak for an appliance and may have a will
  Subscribers,  \* those that subscribe
  Ids,       \* the appliances
  Topics,    \* topics, as sequences of levels
  Patterns,  \* topic filters, the same with "+" and "#"
  Payloads,
  Wills,     \* wills that clients may have, each a topic and a payload
  MaxFilters,   \* filters in one SUBSCRIBE packet
  Empty,     \* the empty payload
  None       \* no client, no appliance, no will

VARIABLES
  alive,        \* clients whose Client.mqtt is set
  clients,      \* Broker.clients
  subs,         \* Client.subscriptions
  will,         \* Client.will
  retainMap,    \* Broker.retainMap: the payload of each topic
  deployMsg,    \* clients with a deployMsg
  deviceObj,    \* the appliance of each client's deviceObj
  clientsById,  \* DeviceAcceptor.clientsById
  used,         \* connections that have been accepted
  spoke,        \* the appliance each client has ever had a deviceObj for
  sent,         \* what each client is sent during the present event; whose will, if it is one
  given         \* retained topics whose present message a client was sent

vars == <<alive, clients, subs, will, retainMap, deployMsg, deviceObj, clientsById,
          used, spoke, sent, given>>

Init ==
  /\ alive = {} /\ clients = {} /\ used = {} /\ deployMsg = {}
  /\ subs = [c \in Clients |-> {}]
  /\ will = [c \in Clients |-> None]
  /\ retainMap = [t \in Topics |-> Empty]
  /\ deviceObj = [c \in Clients |-> None]
  /\ spoke = [c \in Clients |-> None]
  /\ clientsById = [i \in Ids |-> None]
  /\ sent = [c \in Clients |-> <<>>]
  /\ given = [c \in Clients |-> {}]

\* The record the handlers pass on; what was sent in earlier events is done with.
Broker == [alive |-> alive, clients |-> clients, subs |-> subs, will |-> will,
           retainMap |-> retainMap, deployMsg |-> deployMsg, deviceObj |-> deviceObj,
           clientsById |-> clientsById, spoke |-> spoke,
           sent |-> [c \in Clients |-> <<>>], given |-> given]

SetBroker(b) ==
  /\ alive' = b.alive /\ clients' = b.clients /\ subs' = b.subs /\ will' = b.will
  /\ retainMap' = b.retainMap /\ deployMsg' = b.deployMsg /\ deviceObj' = b.deviceObj
  /\ clientsById' = b.clientsById /\ spoke' = b.spoke /\ sent' = b.sent /\ given' = b.given

-----------------------------------------------------------------------------
(* Subscriptions.                                                          *)

\* Subscription.match: "+" stands for one level, a final "#" for any rest, of at
\* least one level.
Matches(p, t) ==
  LET open == p[Len(p)] = "#"
      n == IF open THEN Len(p) - 1 ELSE Len(p)
  IN /\ IF open THEN Len(t) > n ELSE Len(t) = n
     /\ \A k \in 1 .. n : p[k] \in {"+", t[k]}

Covered(ps, t) == \E p \in ps : Matches(p, t)

\* Client.try_publish: one copy, whichever of its subscriptions match first.
Receives(b, c, t) == c \in b.clients \cap b.alive /\ Covered(b.subs[c], t)

\* Broker.publish after its event: the clients, then the map.
Deliver(b, m) ==
  LET to == {c \in Clients : Receives(b, c, m.topic)} IN
  [b EXCEPT !.sent = [c \in Clients |-> IF c \in to THEN Append(@[c], <<m.kind, m.from>>) ELSE @[c]],
            !.retainMap = IF m.retain THEN [@ EXCEPT ![m.topic] = m.payload] ELSE @,
            !.given = IF ~m.retain THEN @
                      ELSE [c \in Clients |-> IF c \in to /\ m.payload # Empty
                                              THEN @[c] \cup {m.topic} ELSE @[c] \ {m.topic}]]

-----------------------------------------------------------------------------
(* The acceptor, and the end of a client.                                  *)

Disconnected_XKeepsEntry(b, c) == [b EXCEPT !.deviceObj[c] = None]

\* DeviceAcceptor.disconnected.
Disconnected(b, c) ==
  IF b.deviceObj[c] = None THEN b
  ELSE [b EXCEPT !.clientsById[b.deviceObj[c]] = None, !.deviceObj[c] = None]

WillOf(b, c) == [topic |-> b.will[c].topic, payload |-> b.will[c].payload, retain |-> FALSE,
                 from |-> c, kind |-> "will"]

\* The guard of Client.destroy, which 'disconnect', 'error', 'close' and the
\* idle time-out all call.
Destroyable_XAlways(b, c) == TRUE
Destroyable(b, c) == c \in b.alive

\* Client.destroy and the broker's listener: the will, the event 'disconnect', and
\* only then the set of clients.  A will is taken to hold no command of an appliance.
Destroy(b, c) ==
  IF ~Destroyable(b, c) THEN b
  ELSE LET gone == [b EXCEPT !.alive = @ \ {c}, !.given[c] = {}]
           willed == IF b.will[c] = None THEN gone ELSE Deliver(gone, WillOf(b, c))
       IN [Disconnected(willed, c) EXCEPT !.clients = @ \ {c}]

Response(i) == [topic |-> <<"lime", i>>, payload |-> "response", retain |-> FALSE,
                from |-> None, kind |-> "response"]

\* 'preDeploy' and 'deploy' are answered at once.
Deploy(b, c, i) == Deliver([b EXCEPT !.deployMsg = @ \cup {c}], Response(i))

\* completeProvisioning, with its early returns.
CompleteProvisioning(b, c, i) ==
  IF c \notin b.deployMsg \/ b.deviceObj[c] # None THEN b
  ELSE LET b1 == IF b.clientsById[i] = None THEN b ELSE Destroy(b, b.clientsById[i]) IN
       [b1 EXCEPT !.clientsById[i] = c, !.deviceObj[c] = i, !.spoke[c] = i]

\* What the acceptor does with a message of an appliance.
Accepted(b, c, m) ==
  CASE m.cmd = "deploy" -> Deploy(b, c, m.topic[2])
    [] m.cmd = "completeProvisioning_ack" -> CompleteProvisioning(b, c, m.topic[2])
    [] OTHER -> b

-----------------------------------------------------------------------------
(* The events of a connection.                                             *)

Accept(c) ==
  /\ c \notin used
  /\ used' = used \cup {c}
  /\ SetBroker([Broker EXCEPT !.alive = @ \cup {c}, !.clients = @ \cup {c}])

ConnectPacket(c) ==
  /\ c \in alive \cap Appliances
  /\ \E w \in Wills : SetBroker([Broker EXCEPT !.will[c] = w])
  /\ UNCHANGED used

\* A plain message of a client, whose payload matters if it is to be retained, or one
\* of an appliance's commands.
Publish(c) ==
  /\ c \in alive
  /\ \/ \E t \in Topics, p \in Payloads \cup {Empty}, r \in BOOLEAN :
          /\ p = Empty => r
          /\ SetBroker(Deliver(Broker, [topic |-> t, payload |-> p, retain |-> r,
                                        from |-> None, kind |-> "message"]))
     \/ /\ c \in Appliances
        /\ \E i \in Ids, cmd \in {"deploy", "completeProvisioning_ack"} :
             LET m == [topic |-> <<"clip", i>>, payload |-> cmd, retain |-> FALSE,
                       from |-> None, kind |-> "message", cmd |-> cmd]
             IN SetBroker(Deliver(Accepted(Broker, c, m), m))
  /\ UNCHANGED used

\* Retained topics that the subscriptions so far do not cover.
Unseen(c) == {t \in Topics : retainMap[t] # Empty /\ ~Covered(subs[c], t)}

\* The filters of a SUBSCRIBE packet, in its order.
Filters == UNION {[1 .. n -> Patterns] : n \in 1 .. MaxFilters}

Served_XEach(fs, t) == {k \in DOMAIN fs : Matches(fs[k], t)}

\* Those for which an unseen topic is sent: the first that matches, where the loop ends.
Served(fs, t) ==
  {k \in DOMAIN fs : Matches(fs[k], t) /\ \A l \in 1 .. k - 1 : ~Matches(fs[l], t)}

Subscribe(c) ==
  /\ c \in alive \cap Subscribers
  /\ \E fs \in Filters :
       LET due == {tk \in Unseen(c) \X DOMAIN fs : tk[2] \in Served(fs, tk[1])}
           order == SetToSeq(due)
       IN SetBroker([Broker EXCEPT
            !.subs[c] = @ \cup Range(fs),
            !.sent[c] = [n \in DOMAIN order |-> <<"retained", order[n][1]>>],
            !.given[c] = @ \cup {tk[1] : tk \in due}])
  /\ UNCHANGED used

\* Filters that the client does not hold are passed over.
Unsubscribe(c) ==
  /\ c \in alive
  /\ \E ps \in SUBSET subs[c] : SetBroker([Broker EXCEPT !.subs[c] = @ \ ps])
  /\ UNCHANGED used

\* A DISCONNECT packet, an error, the hour of silence, or the end of the stream,
\* which follows each of the others.
Ends(c) ==
  /\ c \in used
  /\ SetBroker(Destroy(Broker, c))
  /\ UNCHANGED used

Next == \E c \in Clients : \/ Accept(c) \/ ConnectPacket(c) \/ Publish(c)
                           \/ Subscribe(c) \/ Unsubscribe(c) \/ Ends(c)

Spec == Init /\ [][Next]_vars

-----------------------------------------------------------------------------
(* Properties.                                                             *)

\* Each client has been sent the present message of every retained topic that one
\* of its subscriptions matches, however it subscribed and unsubscribed meanwhile,
\* and no event sends a client the same message twice, although the filters of one
\* packet and of several may overlap, wills are published inside publications, and a
\* client destroyed on the way is destroyed again (the handler of 'subscribe',
\* try_publish, Client.destroy).
RetainedReachesAll ==
  \A c \in alive, t \in Topics :
    retainMap[t] # Empty /\ Covered(subs[c], t) => t \in given[c]

NoCopies == \A c \in Clients : IsInjective(sent[c])

DeliveredOnce == RetainedReachesAll /\ NoCopies

\* A will is published in the event that destroys its client, once, to the clients
\* subscribed to it that live on, and in no other event (Client.destroy, accept).
WillAtTheEnd ==
  [][\A c, d \in Clients :
       <<"will", c>> \in ToSet(sent'[d])
         <=> /\ c \in alive \ alive' /\ will[c] # None
             /\ d \in alive \ {c} /\ d \in alive' /\ Covered(subs[d], will[c].topic)]_vars

\* The clients and the acceptor's map keep what DeviceRegistry promises.
Registry == INSTANCE DeviceRegistry WITH
  Devs <- Clients, NoDev <- None, NoId <- None,
  current <- clientsById,
  state <- [c \in Clients |-> IF spoke[c] = None THEN "unborn"
                              ELSE IF deviceObj[c] = None THEN "closed" ELSE "open"],
  owner <- spoke

ImplementsRegistry == Registry!RegistrySpec
=============================================================================
