-------------------------- MODULE MCBridgeProgress --------------------------
(* What must happen in the bridge to the cloud: an instance of Registration *)
(* and one of CloudBridge, side by side, as "focus" says.  The dryer's      *)
(* switch is operated, and the registration is one of an earlier process.   *)
(* What is fair is asked of the part a behaviour is about.                  *)
EXTENDS Registration

CONSTANTS Devs, Bs, Us, NoDev, NoB, NoUp
VARIABLES focus, open, current, credentials, deviceState, suspended, bridgedDevices, alive,
          downstream, connection, timer, upstream, listener, outrun, enabling, switch

ASSUME BridgeAssumption == NoDev \notin Devs /\ NoB \notin Bs /\ NoUp \notin Us

Bridge == INSTANCE CloudBridge WITH
  Platform <- "thinq2", Calls <- {}, PowerLoss <- FALSE, owner <- listener

bridgeVars == <<open, current, credentials, deviceState, suspended, bridgedDevices, alive,
                downstream, connection, timer, upstream, listener, outrun, enabling,
                switch>>

NoBridge == Bridge!Init /\ ~credentials /\ ~deviceState /\ ~suspended /\ switch = "OFF"
NoRegistration == Init /\ platform = "thinq1" /\ owner = "none"

MCInit == \/ focus = "registration" /\ Init /\ NoBridge
          \/ focus = "bridge" /\ Bridge!Init /\ NoRegistration
MCNext ==
  /\ \/ focus = "registration" /\ Next /\ UNCHANGED bridgeVars
     \/ focus = "bridge" /\ Bridge!Next /\ UNCHANGED vars
  /\ UNCHANGED focus

RegistrationGoesOn ==
  /\ WF_vars(focus = "registration" /\ RouteTimeout)
  /\ WF_vars(focus = "registration" /\ Spawn)
  /\ WF_vars(focus = "registration" /\ SubprocessFails)
  /\ WF_vars(focus = "registration" /\ KilledCloses)

BridgeGoesOn ==
  /\ \A b \in Bs : WF_bridgeVars(focus = "bridge" /\ Bridge!ReconnectNow(b))
  /\ \A u \in Us :
       /\ WF_bridgeVars(focus = "bridge" /\ upstream[u] = "closing" /\ Bridge!UpstreamCloses(u))
       /\ SF_bridgeVars(focus = "bridge" /\ Bridge!UpstreamOpens(u))

MCSpec == MCInit /\ [][MCNext]_<<focus, vars, bridgeVars>> /\ RegistrationGoesOn /\ BridgeGoesOn

\* While the switch has the bridge suspended nothing gets attached to the cloud.
SuspendedIsDetached == Bridge!SuspendedIsDetached

\* The bridge does what its documentation promises (BridgePolicy).
ImplementsPolicy == Bridge!ImplementsPolicy

\* A bridge that stays up is attached again and again.
CloudReattaches == Bridge!CloudReattaches

\* What a bridge gives up is released by the cloud.
DetachedIsReleased == Bridge!DetachedIsReleased
=============================================================================
