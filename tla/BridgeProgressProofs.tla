----------------------- MODULE BridgeProgressProofs -----------------------
(***************************************************************************)
(* What is proved of the two parts of MCBridgeProgress: of Registration,   *)
(* for any number of attempts of a request and both kinds of appliances,   *)
(* and of the bridge of a dryer that is operated by its switch, for any    *)
(* pools of Devices, BridgedDevices and connections.                       *)
(***************************************************************************)
EXTENDS MCBridgeProgress, TLAPS

StepsOf(p) ==
  {"gateway", "refresh", "profile", "client", "homes", "delete", "add"}
  \cup IF p = "thinq1" THEN {} ELSE {"otp", "route", "ca", "key", "pub", "csr", "cert"}

TypeInv ==
  /\ platform \in {"thinq1", "thinq2"}
  /\ step \in StepsOf(platform) \cup {"idle"}
  /\ owner \in {"none", "ours", "other"}

\* The last step of a ThinQ2 registration has a certificate of this call.
CertifiedForAdd == step = "add" /\ platform = "thinq2" => cert = "call"

\* addDevice repeats its request only for an appliance that is in a home, and
\* nobody but the world outside takes it out again.
AddAgainHasHome ==
  /\ step = "add" /\ init => owner # "none" \/ cause # {}
  /\ step \notin {"idle", "add"} => ~init

\* A run of openssl belongs to the step that has started it.
ChildHasStep == child # "none" => step \in Openssl

\* A registration that is intact has no call under way that changes it.
IntactIsIdle == intact => step = "idle"

IInv ==
  /\ TypeInv /\ CertifiedForAdd /\ AddAgainHasHome /\ ChildHasStep /\ IntactIsIdle
  /\ FailsForACause /\ SavedIsRegistered

-----------------------------------------------------------------------------
\* A step leads to another of the same kind of registration, and to the last
\* one from the certificate alone if it is that of a ThinQ2 appliance.
LEMMA AfterType ==
  ASSUME TypeInv, step \notin {"idle", "add"}
  PROVE  /\ After(step) \in StepsOf(platform)
         /\ After(step) = "add" /\ platform = "thinq2" => step = "cert"
  BY DEF TypeInv, StepsOf, After, AfterAuth, AfterPair

-----------------------------------------------------------------------------
(* The ways a step can end.                                                *)

\* A call that fails with a cause of its own, or with one already noted.
LEMMA FailKeeps ==
  ASSUME IInv, NEW why, Fail(why), why # {} \/ cause # {}, step # "idle",
         child' = "none", platform' = platform,
         owner' \in {"none", "ours", "other"}
  PROVE  IInv'
  BY DEF IInv, TypeInv, CertifiedForAdd, AddAgainHasHome, ChildHasStep, IntactIsIdle,
         FailsForACause, SavedIsRegistered, Fail

\* A call that goes on to a step that is not the last, or to the last with what
\* that one needs.
LEMMA ProceedKeeps ==
  ASSUME IInv, Proceed(step), step \notin {"idle", "add"},
         child' = "none", platform' = platform,
         owner' \in {"none", "ours", "other"},
         step = "cert" => cert' = "call"
  PROVE  IInv'
<1>1. /\ step' = After(step) /\ step' \in StepsOf(platform)
      /\ step' = "add" /\ platform = "thinq2" => step = "cert"
  BY AfterType DEF Proceed, IInv
<1>2. step' # "idle" /\ ~init'
  BY <1>1 DEF StepsOf, Proceed, IInv, AddAgainHasHome
<1>3. UNCHANGED <<outcome, cause, intact, saved>> /\ ~intact
  BY DEF Proceed, ghosts, IInv, IntactIsIdle
<1>4. TypeInv'
  BY <1>1 DEF IInv, TypeInv
<1>5. CertifiedForAdd'
  BY <1>1 DEF CertifiedForAdd
<1>6. AddAgainHasHome' /\ ChildHasStep' /\ IntactIsIdle'
  BY <1>2, <1>3 DEF AddAgainHasHome, ChildHasStep, IntactIsIdle
<1>7. FailsForACause' /\ SavedIsRegistered'
  BY <1>3 DEF FailsForACause, SavedIsRegistered, IInv
<1> QED BY <1>4, <1>5, <1>6, <1>7 DEF IInv

\* A request that is repeated, the appliance being in the home it was in or ours.
LEMMA RetryKeeps ==
  ASSUME IInv, NEW last, Retry(last), step # "idle", child' = "none", platform' = platform,
         owner' \in {"none", "ours", "other"},
         step = "add" => cert' = cert /\ (owner' = owner \/ owner' = "ours")
  PROVE  IInv'
<1>1. CASE Fail({"network"})
  BY <1>1, FailKeeps
<1>2. CASE UNCHANGED <<step, init, saved, ghosts>>
  BY <1>2 DEF IInv, TypeInv, CertifiedForAdd, AddAgainHasHome, ChildHasStep, IntactIsIdle,
              FailsForACause, SavedIsRegistered, ghosts
<1> QED BY <1>1, <1>2 DEF Retry

-----------------------------------------------------------------------------
(* The steps that say something.                                           *)

LEMMA InitHolds == Init => IInv
  BY DEF Init, IInv, TypeInv, CertifiedForAdd, AddAgainHasHome, ChildHasStep, IntactIsIdle,
         FailsForACause, SavedIsRegistered

LEMMA RequestStep ==
  ASSUME IInv, Request
  PROVE  IInv'
<1>1. step \in Requests /\ step # "idle" /\ platform' = platform
  BY DEF Request, Requests
<1>2. child = "none" /\ child' = "none"
  BY <1>1 DEF Request, IInv, ChildHasStep, Openssl, Requests
<1>3. CASE Retry(Attempts) /\ UNCHANGED cloud
  BY <1>1, <1>2, <1>3, RetryKeeps DEF cloud, IInv, TypeInv
<1>4. ASSUME NEW result \in Results, Served(step, result), Answered(step, result) \/ Retry(Attempts)
      PROVE  IInv'
  <2>1. owner \in {"none", "ours", "other"} /\ owner' \in {"none", "ours", "other"}
    BY <1>4 DEF Served, cloud, IInv, TypeInv
  <2>2. CASE Retry(Attempts)
    <3>1. step = "add" => cert' = cert /\ (owner' = owner \/ owner' = "ours")
      BY <1>4 DEF Served
    <3> QED BY <1>1, <1>2, <2>1, <2>2, <3>1, RetryKeeps
  <2>3. CASE Answered(step, result) /\ step = "delete"
    <3>1. Proceed(step)
      BY <1>4, <2>3 DEF Answered, Served, DeleteIsDone
    <3> QED BY <1>1, <1>2, <2>1, <2>3, <3>1, ProceedKeeps
  <2>4. CASE Answered(step, result) /\ step = "add" /\ result = "0000"
    \* The appliance is in the user's home and the state is written.
    <3>1. owner' = "ours" /\ cert' = cert
      BY <1>4, <2>4 DEF Served
    <3>2. Save
      BY <2>4 DEF Answered, AddIsDone
    <3> QED BY <1>1, <1>2, <3>1, <3>2, <2>4
            DEF Save, IInv, TypeInv, CertifiedForAdd, AddAgainHasHome, ChildHasStep,
                IntactIsIdle, FailsForACause, SavedIsRegistered
  <2>5. CASE Answered(step, result) /\ step = "add" /\ result # "0000" /\ ~init
    \* It is in a home already, and the request is repeated.
    <3>1. result = "0125" /\ owner # "none" /\ owner' = owner /\ cert' = cert
      BY <1>4, <2>5 DEF Served
    <3>2. init' = TRUE /\ UNCHANGED <<step, saved, ghosts>>
      BY <2>5, <3>1 DEF Answered, AddIsDone, AddAgain
    <3> QED BY <1>1, <1>2, <2>5, <3>1, <3>2
            DEF IInv, TypeInv, CertifiedForAdd, AddAgainHasHome, ChildHasStep,
                IntactIsIdle, FailsForACause, SavedIsRegistered, ghosts
  <2>6. CASE Answered(step, result) /\ step = "add" /\ result # "0000" /\ init
    \* It has left that home since: somebody has been at it.
    <3>1. owner = "none"
      BY <1>4, <2>6 DEF Served
    <3>2. cause # {}
      BY <2>6, <3>1 DEF IInv, AddAgainHasHome
    <3>3. Fail({})
      BY <2>6 DEF Answered, AddIsDone, AddAgain
    <3> QED BY <1>1, <1>2, <2>1, <3>2, <3>3, FailKeeps
  <2>7. CASE Answered(step, result) /\ step = "cert"
    <3>1. CASE result = "0000"
      <4>1. Proceed(step) /\ cert' = "call"
        BY <1>4, <2>7, <3>1 DEF Answered, Served
      <4> QED BY <1>1, <1>2, <2>1, <2>7, <4>1, ProceedKeeps
    <3>2. CASE result # "0000"
      <4>1. Fail({"password"})
        BY <2>7, <3>2 DEF Answered
      <4> QED BY <1>1, <1>2, <2>1, <4>1, FailKeeps
    <3> QED BY <3>1, <3>2
  <2>8. CASE Answered(step, result) /\ step \notin {"delete", "add", "cert"}
    <3>1. result = "0000"
      BY <1>4, <2>8 DEF Served
    <3>2. Proceed(step) \/ Fail({"no home"})
      BY <2>8, <3>1 DEF Answered
    <3>3. CASE Proceed(step)
      BY <1>1, <1>2, <2>1, <2>8, <3>3, ProceedKeeps
    <3>4. CASE Fail({"no home"})
      BY <1>1, <1>2, <2>1, <3>4, FailKeeps
    <3> QED BY <3>2, <3>3, <3>4
  <2> QED BY <1>4, <2>2, <2>3, <2>4, <2>5, <2>6, <2>7, <2>8
<1> QED BY <1>3, <1>4 DEF Request

\* Awaiting the gateway, a signed request, the route: the cloud is as it was.
LEMMA CallStepKeeps ==
  ASSUME IInv, AwaitGateway \/ SignedRequest \/ RouteTimeout
  PROVE  IInv'
<1>1. /\ step \in {"gateway", "refresh", "profile", "route"}
      /\ platform' = platform /\ child' = child /\ owner' = owner
  BY DEF AwaitGateway, SignedRequest, RouteTimeout, Signed, cloud
<1>2. child' = "none" /\ owner' \in {"none", "ours", "other"}
  BY <1>1 DEF IInv, TypeInv, ChildHasStep, Openssl
<1>3. Proceed(step) \/ Fail({"gateway"}) \/ Fail({"network"}) \/ Fail({"refused"}) \/ Fail({"route"})
  BY DEF AwaitGateway, SignedRequest, RouteTimeout
<1>4. CASE Proceed(step)
  BY <1>1, <1>2, <1>4, ProceedKeeps
<1>5. CASE Fail({"gateway"}) \/ Fail({"network"}) \/ Fail({"refused"}) \/ Fail({"route"})
  BY <1>1, <1>2, <1>5, FailKeeps
<1> QED BY <1>3, <1>4, <1>5

\* The end of a run of openssl.
LEMMA CloseStep ==
  ASSUME IInv, NEW ok \in BOOLEAN, Close(ok)
  PROVE  IInv'
<1>1. step \in Openssl /\ child' = "none" /\ platform' = platform /\ owner' = owner
  BY DEF Close, IInv, ChildHasStep, cloud
<1>2. step \notin {"idle", "add", "cert"} /\ owner' \in {"none", "ours", "other"}
  BY <1>1 DEF Openssl, IInv, TypeInv
<1>3. CASE ok
  BY <1>1, <1>2, <1>3, ProceedKeeps DEF Close
<1>4. CASE ~ok
  BY <1>1, <1>2, <1>4, FailKeeps DEF Close
<1> QED BY <1>3, <1>4

\* What the invariant speaks of.
seen == <<platform, step, init, child, saved, owner, cert, outcome, cause, intact>>

LEMMA AsideKeeps ==
  ASSUME IInv, UNCHANGED seen
  PROVE  IInv'
<1>1. /\ platform' = platform /\ step' = step /\ init' = init /\ child' = child /\ saved' = saved
      /\ owner' = owner /\ cert' = cert /\ outcome' = outcome /\ cause' = cause /\ intact' = intact
  BY DEF seen
<1>2. TypeInv' /\ CertifiedForAdd' /\ AddAgainHasHome' /\ ChildHasStep' /\ IntactIsIdle'
  BY <1>1 DEF IInv, TypeInv, CertifiedForAdd, AddAgainHasHome, ChildHasStep, IntactIsIdle
<1>3. FailsForACause' /\ SavedIsRegistered'
  BY <1>1 DEF IInv, FailsForACause, SavedIsRegistered
<1> QED BY <1>2, <1>3 DEF IInv

\* The sign-in and the gateway are beside the call.
LEMMA SignInStep ==
  ASSUME IInv, GatewayRequest \/ BeginLogin \/ LoginStep \/ Logout \/ UNCHANGED vars
  PROVE  IInv'
<1>1. CASE GatewayRequest
  BY <1>1, AsideKeeps DEF GatewayRequest, cloud, ghosts, seen
<1>2. CASE BeginLogin
  BY <1>2, AsideKeeps DEF BeginLogin, cloud, ghosts, seen
<1>3. CASE LoginStep
  BY <1>3, AsideKeeps DEF LoginStep, LoginGateway, LoginToken, cloud, ghosts, seen
<1>4. CASE Logout
  BY <1>4, AsideKeeps DEF Logout, cloud, ghosts, seen
<1>5. CASE UNCHANGED vars
  BY <1>5, AsideKeeps DEF vars, client, cloud, ghosts, seen
<1> QED BY <1>1, <1>2, <1>3, <1>4, <1>5

\* A call starts, runs openssl or is cut off; the appliance is taken elsewhere.
LEMMA OtherStep ==
  ASSUME IInv, Register \/ Spawn \/ SubprocessFails \/ Elsewhere \/ Crash
  PROVE  IInv'
<1> USE DEF IInv, TypeInv, CertifiedForAdd, AddAgainHasHome, ChildHasStep, IntactIsIdle,
            FailsForACause, SavedIsRegistered, cloud, ghosts
<1>1. CASE Register
  BY <1>1 DEF Register, StepsOf, Openssl
<1>2. CASE Spawn
  BY <1>2 DEF Spawn
<1>3. CASE SubprocessFails
  BY <1>3 DEF SubprocessFails, Killed
<1>4. CASE Elsewhere
  <2>1. /\ platform' = platform /\ step' = step /\ init' = init /\ child' = child /\ cert' = cert
        /\ owner' \in {"none", "other"} /\ intact' = FALSE /\ cause' # {}
    BY <1>4 DEF Elsewhere, client
  <2> QED BY <2>1
<1>5. CASE Crash
  BY <1>5 DEF Crash
<1> QED BY <1>1, <1>2, <1>3, <1>4, <1>5

-----------------------------------------------------------------------------
THEOREM Invariance == Spec => []IInv
<1>1. IInv /\ [Next]_vars => IInv'
  <2> SUFFICES ASSUME IInv, [Next]_vars PROVE IInv'
    OBVIOUS
  <2>1. CASE Request
    BY <2>1, RequestStep
  <2>2. CASE AwaitGateway \/ SignedRequest \/ RouteTimeout
    BY <2>2, CallStepKeeps
  <2>3. CASE KilledCloses \/ OrphanCloses \/ ChildCloses
    BY <2>3, CloseStep DEF KilledCloses, OrphanCloses, ChildCloses
  <2>4. CASE GatewayRequest \/ BeginLogin \/ LoginStep \/ Logout \/ UNCHANGED vars
    BY <2>4, SignInStep
  <2>5. CASE Register \/ Spawn \/ SubprocessFails \/ Elsewhere \/ Crash
    BY <2>5, OtherStep
  <2> QED BY <2>1, <2>2, <2>3, <2>4, <2>5 DEF Next, CallStep
<1> QED BY <1>1, InitHolds, PTL DEF Spec

\* Whatever answers are lost and however often a request is repeated, within a
\* call or by a call after one that was cut off, a registration that fails has
\* a cause outside, or has asked for a certificate again with a password that was
\* used up (removeDevice and addDevice, bridge/thinqApi.ts).
THEOREM AlwaysFailsForACause == Spec => []FailsForACause
<1>1. IInv => FailsForACause
  BY DEF IInv
<1> QED BY <1>1, Invariance, PTL

\* A state on disk is of an appliance that the cloud has in the user's home, with
\* the certificate that was issued last, until somebody touches the registration
\* (Bridge.register, bridge/index.ts).
THEOREM SavedAlwaysRegistered == Spec => []SavedIsRegistered
<1>1. IInv => SavedIsRegistered
  BY DEF IInv
<1> QED BY <1>1, Invariance, PTL

-----------------------------------------------------------------------------
(* The bridge to the cloud.  What CloudBridgeProofs says for any constants *)
(* is said here of the instance of CloudBridge that the run checks: the    *)
(* two instances have the same operations, and so the same steps.          *)
Proved == INSTANCE CloudBridgeProofs WITH
  Platform <- "thinq2", Calls <- {}, PowerLoss <- FALSE, owner <- listener

LEMMA SamePools ==
  /\ Proved!Pool = Bridge!Pool /\ Proved!EmptyPool = Bridge!EmptyPool
  /\ \A q : Proved!SetPool(q) <=> Bridge!SetPool(q)
  /\ \A q : Proved!Room(q) <=> Bridge!Room(q)
  /\ \A q : Proved!SpareUs(q) = Bridge!SpareUs(q)
  /\ \A q, b : Proved!Connect(q, b) = Bridge!Connect(q, b)
  /\ \A q, b : Proved!Disconnect(q, b) = Bridge!Disconnect(q, b)
  /\ \A q, d, off : Proved!Start(q, d, off) = Bridge!Start(q, d, off)
  /\ \A q : Proved!Stop(q) = Bridge!Stop(q)
  /\ \A q, d : Proved!DeviceClose(q, d) = Bridge!DeviceClose(q, d)
  /\ \A q : Proved!SwitchFor(q) = Bridge!SwitchFor(q)
<1>1. Proved!Pool = Bridge!Pool /\ Proved!EmptyPool = Bridge!EmptyPool
  BY DEF Proved!Pool, Bridge!Pool, Proved!EmptyPool, Bridge!EmptyPool
<1>2. \A q : Proved!SetPool(q) <=> Bridge!SetPool(q)
  BY DEF Proved!SetPool, Bridge!SetPool
<1>3. ASSUME NEW q PROVE Proved!SpareBs(q) = Bridge!SpareBs(q) /\ Proved!SpareUs(q) = Bridge!SpareUs(q)
  BY DEF Proved!SpareBs, Bridge!SpareBs, Proved!SpareUs, Bridge!SpareUs
<1>4. \A q : Proved!Room(q) <=> Bridge!Room(q)
  BY <1>3 DEF Proved!Room, Bridge!Room
<1>5. ASSUME NEW q, NEW b PROVE Proved!Connect(q, b) = Bridge!Connect(q, b)
  BY DEF Proved!Connect, Bridge!Connect, Proved!SpareUs, Bridge!SpareUs
<1>6. ASSUME NEW q, NEW S PROVE Proved!Detach(q, S) = Bridge!Detach(q, S)
  BY DEF Proved!Detach, Bridge!Detach, Proved!DestroyUpstream, Bridge!DestroyUpstream
<1>7. ASSUME NEW q, NEW S PROVE Proved!Destroy(q, S) = Bridge!Destroy(q, S)
  BY <1>6 DEF Proved!Destroy, Bridge!Destroy
<1>8. ASSUME NEW q, NEW b PROVE Proved!Disconnect(q, b) = Bridge!Disconnect(q, b)
  BY <1>6 DEF Proved!Disconnect, Bridge!Disconnect
<1>9. ASSUME NEW q, NEW d PROVE Proved!Create(q, d) = Bridge!Create(q, d)
  BY DEF Proved!Create, Bridge!Create, Proved!Connect, Bridge!Connect, Proved!SpareBs,
         Bridge!SpareBs, Proved!SpareUs, Bridge!SpareUs
<1>10. ASSUME NEW q, NEW d, NEW off PROVE Proved!Start(q, d, off) = Bridge!Start(q, d, off)
  BY <1>9 DEF Proved!Start, Bridge!Start
<1>11. ASSUME NEW q PROVE Proved!Stop(q) = Bridge!Stop(q)
  BY <1>7 DEF Proved!Stop, Bridge!Stop
<1>12. ASSUME NEW q, NEW d PROVE Proved!DeviceClose(q, d) = Bridge!DeviceClose(q, d)
  BY <1>7, <1>11 DEF Proved!DeviceClose, Bridge!DeviceClose
<1>13. \A q : Proved!SwitchFor(q) = Bridge!SwitchFor(q)
  BY DEF Proved!SwitchFor, Bridge!SwitchFor
<1> QED BY <1>1, <1>2, <1>3, <1>4, <1>5, <1>8, <1>10, <1>11, <1>12, <1>13

LEMMA SameSteps == Bridge!Next => Proved!Next
<1>1. ASSUME NEW d, Bridge!NewDevice(d) \/ Bridge!DeviceCloses(d)
      PROVE  Proved!NewDevice(d) \/ Proved!DeviceCloses(d)
  BY <1>1, SamePools DEF Proved!NewDevice, Bridge!NewDevice, Proved!DeviceCloses,
         Bridge!DeviceCloses, Proved!HasSwitch, Bridge!HasSwitch, Proved!diskVars,
         Bridge!diskVars
<1>2. ASSUME NEW u, Bridge!UpstreamOpens(u) \/ Bridge!UpstreamCloses(u)
      PROVE  Proved!UpstreamOpens(u) \/ Proved!UpstreamCloses(u)
  BY <1>2, SamePools DEF Proved!UpstreamOpens, Bridge!UpstreamOpens,
         Proved!UpstreamCloses, Bridge!UpstreamCloses, Proved!diskVars, Bridge!diskVars
<1>3. ASSUME NEW b, Bridge!ReconnectNow(b) PROVE Proved!ReconnectNow(b)
  BY <1>3, SamePools DEF Proved!ReconnectNow, Bridge!ReconnectNow, Proved!diskVars,
         Bridge!diskVars
<1>4. Bridge!Suspend => Proved!Suspend
  BY SamePools DEF Proved!Suspend, Bridge!Suspend, Proved!HasSwitch, Bridge!HasSwitch
<1>5. Bridge!Resume => Proved!Resume
  BY SamePools DEF Proved!Resume, Bridge!Resume, Proved!Resumed, Bridge!Resumed,
         Proved!HasSwitch, Bridge!HasSwitch, Proved!poolVars, Bridge!poolVars
<1>6. Bridge!PublishSelection => Proved!PublishSelection
  BY SamePools DEF Proved!PublishSelection, Bridge!PublishSelection, Proved!HasSwitch,
         Bridge!HasSwitch, Proved!diskVars, Bridge!diskVars, Proved!poolVars,
         Bridge!poolVars
<1>7. Bridge!Login \/ Bridge!Logout => Proved!Login \/ Proved!Logout
  BY DEF Proved!Login, Bridge!Login, Proved!Logout, Bridge!Logout, Proved!poolVars,
         Bridge!poolVars
<1>8. Bridge!Disable => Proved!Disable
  BY SamePools DEF Proved!Disable, Bridge!Disable
<1>9. Bridge!Restart => Proved!Restart
  BY SamePools DEF Proved!Restart, Bridge!Restart, Proved!Reset, Bridge!Reset,
         Proved!diskVars, Bridge!diskVars
<1>10. ~Bridge!PowerFailsInSuspended /\ \A u : ~Bridge!FetchRejected(u)
  BY DEF Bridge!PowerFailsInSuspended, Bridge!FetchRejected
<1> QED BY <1>1, <1>2, <1>3, <1>4, <1>5, <1>6, <1>7, <1>8, <1>9, <1>10
        DEF Bridge!Next, Proved!Next

LEMMA SameBehaviours == Bridge!Spec => Proved!Spec
<1>1. Bridge!Init => Proved!Init
  BY DEF Proved!Init, Bridge!Init, Proved!HasSwitch, Bridge!HasSwitch
<1>2. UNCHANGED Bridge!vars => UNCHANGED Proved!vars
  BY DEF Proved!vars, Bridge!vars, Proved!diskVars, Bridge!diskVars, Proved!poolVars,
         Bridge!poolVars
<1> QED BY <1>1, <1>2, SameSteps, PTL DEF Bridge!Spec, Proved!Spec

\* While the switch of the dryer has the bridge suspended, nothing of it lives and
\* no connection is left that is not being closed, for any pools of Devices,
\* BridgedDevices and connections (suspend and #start, bridge/index.ts).
THEOREM SwitchedOffIsDetached == Bridge!Spec => []SuspendedIsDetached
<1>1. Proved!Spec => []Proved!SuspendedIsDetached
  BY BridgeAssumption, Proved!SuspendedAlwaysDetached
<1>2. Proved!SuspendedIsDetached => SuspendedIsDetached
  BY DEF SuspendedIsDetached, Bridge!SuspendedIsDetached, Proved!SuspendedIsDetached
<1> QED BY <1>1, <1>2, SameBehaviours, PTL

\* And the bridge does what its documentation promises (DOCS.en.md,
\* "enable_lg_cloud_bridge").
THEOREM BridgeImplementsPolicy == Bridge!Spec => ImplementsPolicy
<1>1. Proved!Spec => Proved!ImplementsPolicy
  BY BridgeAssumption, Proved!PolicyImplemented
<1>2. Proved!Policy!Init => Bridge!Policy!Init
  BY DEF Proved!Policy!Init, Bridge!Policy!Init
<1>3. [Proved!Policy!Next]_(Proved!Policy!policyVars) => [Bridge!Policy!Next]_(Bridge!Policy!policyVars)
  BY DEF Proved!Policy!Next, Bridge!Policy!Next, Proved!Policy!ComesOnline,
         Bridge!Policy!ComesOnline, Proved!Policy!GoesOffline, Bridge!Policy!GoesOffline,
         Proved!Policy!SwitchedOff, Bridge!Policy!SwitchedOff, Proved!Policy!SwitchedOn,
         Bridge!Policy!SwitchedOn, Proved!Policy!Registers, Bridge!Policy!Registers,
         Proved!Policy!Unregistered, Bridge!Policy!Unregistered,
         Proved!Policy!policyVars, Bridge!Policy!policyVars
<1>4. Proved!ImplementsPolicy => Bridge!ImplementsPolicy
  BY <1>2, <1>3, PTL DEF Proved!ImplementsPolicy, Bridge!ImplementsPolicy, Proved!Policy!Spec, Bridge!Policy!Spec
<1> QED BY <1>1, <1>4, SameBehaviours DEF ImplementsPolicy
=============================================================================
