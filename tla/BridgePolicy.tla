---------------------------- MODULE BridgePolicy ----------------------------
(***************************************************************************)
(* What the user is promised of the LG cloud bridge of one appliance       *)
(* (DOCS.en.md, "enable_lg_cloud_bridge"): a registered appliance is       *)
(* attached to the cloud exactly while it is online and not suspended; the *)
(* switch suspends and resumes it without discarding the registration, and *)
(* both survive a restart.                                                 *)
(***************************************************************************)
VARIABLES
  registered,  \* the certificate is on disk
  suspended,   \* the switch is off, on disk as well
  online,      \* the appliance is connected to the program
  attached     \* the program relays between the appliance and the cloud

policyVars == <<registered, suspended, online, attached>>

Init ==
  /\ registered \in BOOLEAN
  /\ suspended \in BOOLEAN
  /\ online = FALSE
  /\ attached = FALSE

\* The appliance connects, for the first time or in place of an older session.
ComesOnline ==
  /\ online' = TRUE
  /\ attached' = (registered /\ ~suspended)
  /\ UNCHANGED <<registered, suspended>>

GoesOffline ==
  /\ online' = FALSE
  /\ attached' = FALSE
  /\ UNCHANGED <<registered, suspended>>

SwitchedOff ==
  /\ online
  /\ suspended' = TRUE
  /\ attached' = FALSE
  /\ UNCHANGED <<registered, online>>

SwitchedOn ==
  /\ online /\ registered
  /\ suspended' = FALSE
  /\ attached' = TRUE
  /\ UNCHANGED <<registered, online>>

\* The appliance is registered from the management page.
Registers ==
  /\ online
  /\ registered' = TRUE
  /\ attached' = TRUE
  /\ UNCHANGED <<suspended, online>>

\* The registration is deleted from the management page.
Unregistered ==
  /\ registered' = FALSE
  /\ attached' = FALSE
  /\ UNCHANGED <<suspended, online>>

Next == ComesOnline \/ GoesOffline \/ SwitchedOff \/ SwitchedOn \/ Registers \/ Unregistered

Spec == Init /\ [][Next]_policyVars
=============================================================================
