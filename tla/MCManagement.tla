---------------------------- MODULE MCManagement ----------------------------
(* An instance of Panel, one of Monitors and one of ApplianceBroker (the   *)
(* topics of two appliances, filters that overlap).  None changes what     *)
(* another one reads, so a behaviour is one of the page of the bridges, of *)
(* a monitor or of the broker, as "focus" says.  Requests of the page are  *)
(* interchangeable.                                                        *)
EXTENDS Panel, TLC
CONSTANTS Objects, Sockets, MaxFlight, Clients, Appliances, Subscribers,
          BrokerIds, Topics, Patterns, Payloads, Wills, MaxFilters, Empty
VARIABLES focus,
          registered, live, unborn, onManager, watched, listeners,
          socket, unused, flight, shown,
          alive, clients, subs, will, retainMap, deployMsg, deviceObj, clientsById,
          used, spoke, sent, given

ASSUME MonitorsAssumption == None \notin Objects \cup Sockets
ASSUME BrokerAssumption ==
  None \notin Clients \cup BrokerIds /\ IsFiniteSet(Topics) /\ MaxFilters \in Nat

Mon == INSTANCE Monitors
Broker == INSTANCE ApplianceBroker WITH Ids <- BrokerIds

\* The topics of one appliance, and filters that overlap.
TwoTopics == {<<"lime", "w">>, <<"clip", "w">>}
TwoPatterns == {<<"lime", "+">>, <<"#">>}
OneWill == {[topic |-> <<"lime", "w">>, payload |-> p] : p \in Payloads}

monitorVars == <<registered, live, unborn, onManager, watched, listeners,
                 socket, unused, flight, shown>>
brokerVars == <<alive, clients, subs, will, retainMap, deployMsg, deviceObj, clientsById,
                used, spoke, sent, given>>

MCInit ==
  /\ Init /\ Mon!Init /\ Broker!Init
  /\ focus \in {"panel", "monitor", "broker"}
  /\ focus # "panel" => ~loggedIn
MCNext ==
  /\ \/ focus = "panel" /\ Next /\ UNCHANGED <<monitorVars, brokerVars>>
     \/ focus = "monitor" /\ Mon!Next /\ UNCHANGED <<vars, brokerVars>>
     \/ focus = "broker" /\ Broker!Next /\ UNCHANGED <<vars, monitorVars>>
  /\ UNCHANGED focus
MCSpec == MCInit /\ [][MCNext]_<<focus, vars, monitorVars, brokerVars>>

SymCalls == Permutations(Calls)

\* A monitor watches the appliance's registered device and hears no other.
MonitorFollows == Mon!MonitorFollows

\* Every retained message reaches every matching subscriber, and no event
\* sends a client the same message twice.
DeliveredOnce == Broker!DeliveredOnce

\* A will is published once, when its client ends.
WillAtTheEnd == Broker!WillAtTheEnd

\* The connections and the acceptor's map implement DeviceRegistry.
ImplementsRegistry == Broker!ImplementsRegistry
=============================================================================
