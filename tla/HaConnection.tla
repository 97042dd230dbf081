---------------------------- MODULE HaConnection ----------------------------
(***************************************************************************)
(* The connection to Home Assistant's MQTT broker, cloud/homeassistant.ts, *)
(* with the handlers that publish through it: the last will on the global  *)
(* availability topic, the retained availability topic of each appliance,  *)
(* and the clean-up of what an earlier connection or an earlier run of the *)
(* program has left retained.  Sessions says when an appliance has a       *)
(* handler; here handlers come and go at any time.                         *)
(*                                                                         *)
(* An action is one callback of the client, one step of the broker, or one *)
(* fault: a connection that breaks, a process that dies.  What the client  *)
(* has written but the broker has not taken is lost with the connection;   *)
(* what is published while the client knows that it is not connected is    *)
(* kept and sent first, as the mqtt package does.                          *)
(***************************************************************************)
EXTENDS Naturals, Sequences, SequencesExt, FiniteSets

CONSTANTS
  Ids,         \* the appliances
  Reporting,   \* those that report the property that is modelled
  Values,      \* its values
  None,        \* no value
  CloudStyle,  \* the option cloud_style_availability
  MaxFaults,   \* connections that break and processes that die
  MaxOut       \* messages under way beyond which no appliance does anything

ASSUME HaAssumption == None \notin Values /\ CloudStyle \in BOOLEAN /\ IsFiniteSet(Ids)

VARIABLES
  \* the process
  running,                \* the process lives
  isConnected,            \* Connection.isConnected
  publishedAvailability,  \* Connection.publishedAvailability
  handler,                \* each appliance's handler: none, new, configured
  publishCache,           \* the handler's publishCache: the value last reported
  out,                    \* published and not yet taken by the broker
  inbox,                  \* retained 'online' deliveries under way to it
  \* the broker
  link,                   \* the two are in touch
  session,                \* the broker holds a connection, and so a will
  rethink,                \* retained on <prefix>/availability
  avail,                  \* retained on <prefix>/<id>/availability
  config,                 \* appliances with a retained discovery config
  value,                  \* retained on the property's topic
  \* history
  lost,                   \* appliances whose value was lost on the way
  faults

process == <<running, isConnected, publishedAvailability, handler, publishCache>>
topics == <<rethink, avail, config, value>>
vars == <<process, out, inbox, link, session, topics, lost, faults>>

Msgs == {<<"subscribe">>, <<"rethink">>} \cup ({"config"} \X Ids)
          \cup ({"avail"} \X Ids \X {"online", "offline"}) \cup ({"value"} \X Ids \X Values)

TypeOK ==
  /\ {running, isConnected, link, session} \subseteq BOOLEAN
  /\ publishedAvailability \cup inbox \cup config \cup lost \subseteq Ids
  /\ handler \in [Ids -> {"none", "new", "configured"}]
  /\ {publishCache, value} \subseteq [Ids -> Values \cup {None}]
  /\ out \in Seq(Msgs)
  /\ rethink \in {"none", "online", "offline"}
  /\ avail \in [Ids -> {"none", "online", "offline"}]
  /\ faults \in 0 .. MaxFaults

Configured == {i \in Ids : handler[i] = "configured"}

Nobody == /\ handler = [i \in Ids |-> "none"]
          /\ publishCache = [i \in Ids |-> None]

\* An earlier run may have left any of these behind.
Init ==
  /\ running = TRUE
  /\ isConnected = FALSE
  /\ publishedAvailability = {}
  /\ Nobody
  /\ out = <<>> /\ inbox = {}
  /\ link = FALSE /\ session = FALSE
  /\ rethink \in {"none", "offline"}
  /\ avail \in [Ids -> {"none", "online"}]
  /\ config = {i \in Ids : avail[i] # "none"}
  /\ value = [i \in Ids |-> None]
  /\ lost = {} /\ faults = 0

-----------------------------------------------------------------------------
(* What the handlers publish.                                              *)

Online(i) == <<<<"avail", i, "online">>, <<"config", i>>>>
Offline(i) == <<<<"avail", i, "offline">>>>

\* publishConfig of every handler in turn, run by the event 'discovery'.
Discovery ==
  LET order == SetToSeq(Configured) IN
  [n \in 1 .. 2 * Len(order) |-> Online(order[(n + 1) \div 2])[2 - (n % 2)]]

Awake == running /\ Len(out) <= MaxOut

\* Bridge.newDevice: the old handler is dropped; most classes set their
\* configuration in the constructor, the others once the appliance answers.
NewDevice(i) ==
  /\ Awake
  /\ \E s \in {"new", "configured"} :
       LET old == IF handler[i] # "none" THEN Offline(i) ELSE <<>>
           new == IF s = "configured" THEN Online(i) ELSE <<>>
       IN /\ handler' = [handler EXCEPT ![i] = s]
          /\ out' = out \o old \o new
          /\ publishedAvailability' = publishedAvailability \cup (IF old \o new # <<>> THEN {i} ELSE {})
  /\ publishCache' = [publishCache EXCEPT ![i] = None]
  /\ UNCHANGED <<running, isConnected, inbox, link, session, topics, lost, faults>>

SetConfig(i) ==
  /\ Awake /\ handler[i] = "new"
  /\ handler' = [handler EXCEPT ![i] = "configured"]
  /\ out' = out \o Online(i)
  /\ publishedAvailability' = publishedAvailability \cup {i}
  /\ UNCHANGED <<running, isConnected, publishCache, inbox, link, session, topics,
                 lost, faults>>

DropDevice(i) ==
  /\ Awake /\ handler[i] # "none"
  /\ handler' = [handler EXCEPT ![i] = "none"]
  /\ out' = out \o Offline(i)
  /\ publishedAvailability' = publishedAvailability \cup {i}
  /\ UNCHANGED <<running, isConnected, publishCache, inbox, link, session, topics,
                 lost, faults>>

Published_XWhenConnected(i, v) ==
  IF publishCache[i] = v \/ ~isConnected THEN <<>> ELSE <<<<"value", i, v>>>>

\* AABBDevice.publishProperty: only a value that differs from the last one.
Published(i, v) == IF publishCache[i] = v THEN <<>> ELSE <<<<"value", i, v>>>>

Report(i) ==
  /\ Awake /\ handler[i] = "configured" /\ i \in Reporting
  /\ \E v \in Values :
       /\ publishCache' = [publishCache EXCEPT ![i] = v]
       /\ out' = out \o Published(i, v)
       /\ lost' = IF publishCache[i] = v THEN lost ELSE lost \ {i}
  /\ UNCHANGED <<running, isConnected, publishedAvailability, handler, inbox, link, session,
                 topics, faults>>

-----------------------------------------------------------------------------
(* The client's events.                                                    *)

Connected_XNotSubscribed == out \o <<<<"rethink">>>> \o Discovery

\* What is under way after connected(): first what was kept meanwhile.
Connected == out \o <<<<"subscribe">>, <<"rethink">>>> \o Discovery

\* The broker ends a session of the same client that it still holds, which
\* publishes its will, before it accepts the new one.
Connect ==
  /\ running /\ ~isConnected
  /\ isConnected' = TRUE
  /\ link' = TRUE /\ session' = TRUE
  /\ publishedAvailability' = Configured
  /\ out' = Connected
  /\ rethink' = IF session THEN "offline" ELSE rethink
  /\ UNCHANGED <<running, handler, publishCache, inbox, avail, config, value,
                 lost, faults>>

ValuesIn(s) == {m[2] : m \in {n \in ToSet(s) : n[1] = "value"}}

\* disconnected(): what had been written is lost.
Disconnected ==
  /\ running /\ isConnected /\ ~link
  /\ isConnected' = FALSE
  /\ out' = <<>> /\ inbox' = {}
  /\ lost' = lost \cup ValuesIn(out)
  /\ UNCHANGED <<running, publishedAvailability, handler, publishCache, link,
                 session, topics, faults>>

CleansUp_XAlways(i) == TRUE

\* A retained 'online' that this connection has not published.
CleansUp(i) == i \notin publishedAvailability

ReceiveRetained(i) ==
  /\ running /\ link /\ i \in inbox
  /\ inbox' = inbox \ {i}
  /\ out' = IF CleansUp(i) THEN out \o Offline(i) ELSE out
  /\ UNCHANGED <<process, link, session, topics, lost, faults>>

\* <discovery prefix>/status says that Home Assistant has started.
ReceiveBirth ==
  /\ Awake /\ link
  /\ out' = out \o Discovery
  /\ publishedAvailability' = publishedAvailability \cup Configured
  /\ UNCHANGED <<running, isConnected, handler, publishCache, inbox, link, session,
                 topics, lost, faults>>

-----------------------------------------------------------------------------
(* The broker and the faults.                                              *)

\* The broker takes the next message; a subscription is answered with what
\* is retained on the topics.
Take ==
  /\ link /\ out # <<>>
  /\ out' = Tail(out)
  /\ LET m == Head(out) IN
       /\ rethink' = IF m[1] = "rethink" THEN "online" ELSE rethink
       /\ avail' = IF m[1] = "avail" THEN [avail EXCEPT ![m[2]] = m[3]] ELSE avail
       /\ config' = IF m[1] = "config" THEN config \cup {m[2]} ELSE config
       /\ value' = IF m[1] = "value" THEN [value EXCEPT ![m[2]] = m[3]] ELSE value
       /\ inbox' = IF m[1] = "subscribe" THEN inbox \cup {i \in Ids : avail[i] = "online"}
                   ELSE inbox
  /\ UNCHANGED <<process, link, session, lost, faults>>

Will_XNone == rethink

Will == "offline"

\* The broker notices that the client is gone.
PublishWill ==
  /\ session /\ ~link
  /\ session' = FALSE
  /\ rethink' = Will
  /\ UNCHANGED <<process, out, inbox, link, avail, config, value, lost, faults>>

Break ==
  /\ link /\ faults < MaxFaults
  /\ link' = FALSE
  /\ faults' = faults + 1
  /\ UNCHANGED <<process, out, inbox, session, topics, lost>>

\* The process dies; its sockets close, and the broker notices later.
Crash ==
  /\ running /\ faults < MaxFaults
  /\ running' = FALSE /\ isConnected' = FALSE /\ link' = FALSE
  /\ handler' = [i \in Ids |-> "none"]
  /\ publishCache' = [i \in Ids |-> None]
  /\ publishedAvailability' = {}
  /\ out' = <<>> /\ inbox' = {}
  /\ faults' = faults + 1
  /\ UNCHANGED <<session, topics, lost>>

\* A new process; the broker has published the will of the old one, whose
\* socket was closed with it.
Start ==
  /\ ~running /\ ~session
  /\ running' = TRUE
  /\ UNCHANGED <<isConnected, publishedAvailability, handler, publishCache, out,
                 inbox, link, session, topics, lost, faults>>

Next ==
  \/ \E i \in Ids : \/ NewDevice(i) \/ SetConfig(i) \/ DropDevice(i) \/ Report(i)
                    \/ ReceiveRetained(i)
  \/ Connect \/ Disconnected \/ ReceiveBirth
  \/ Take \/ PublishWill \/ Break \/ Crash \/ Start

\* A client tries to connect for ever, a broken connection is noticed on both
\* sides, what arrives is handled, and a supervisor starts the add-on again.
Fairness ==
  /\ WF_vars(Connect) /\ WF_vars(Disconnected) /\ WF_vars(Take)
  /\ WF_vars(PublishWill) /\ WF_vars(Start)
  /\ \A i \in Ids : WF_vars(ReceiveRetained(i))

Spec == Init /\ [][Next]_vars
FairSpec == Spec /\ Fairness

-----------------------------------------------------------------------------
(* Properties.                                                             *)

\* Everything published has been taken and everything delivered handled.
Settled == link /\ isConnected /\ out = <<>> /\ inbox = {}

\* What Home Assistant shows: all the topics of the configuration are online.
Shown(i) == i \in config /\ rethink = "online" /\ (CloudStyle \/ avail[i] = "online")

\* An appliance without a handler is not shown online by its own topic, whatever an
\* earlier run, an earlier connection or a lost 'offline' has left retained (notes
\* 6 and 7 at the head of homeassistant.ts).
GoneIsOffline == Settled => \A i \in Ids : avail[i] = "online" => i \in Configured

\* An appliance with a configured handler is shown as available: no clean-up of
\* the connection undoes what a handler has published on it.
ServedIsShown == Settled => \A i \in Configured : Shown(i)

\* Together: an appliance is available if and only if it is served.
AvailabilityIsTrue == GoneIsOffline /\ ServedIsShown

\* Once the broker knows that the program is gone no appliance is shown, in either
\* style of availability (note 2).
StoppedIsNotShown == ~session => \A i \in Ids : ~Shown(i)

\* What Home Assistant has is what the appliance last reported, unless the message
\* was lost with a connection: the cache of published values hides nothing else,
\* and forgets with its handler.
ShownIsReported ==
  Settled => \A i \in Configured \ lost : publishCache[i] \in {None, value[i]}

\* A retained 'online' of an appliance that is gone is cleaned up in the end, and a
\* configured appliance is shown in the end, whatever breaks in between.
TopicsCatchUp ==
  \A i \in Ids :
    /\ (avail[i] = "online" /\ i \notin Configured) ~> (avail[i] # "online" \/ i \in Configured)
    /\ (i \in Configured) ~> (Shown(i) \/ i \notin Configured)
=============================================================================
