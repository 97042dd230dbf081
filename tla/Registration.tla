---------------------------- MODULE Registration ----------------------------
(***************************************************************************)
(* Signing in to LG and registering an appliance there: beginLogin,        *)
(* completeLogin and register of bridge/index.ts, over the API client of   *)
(* bridge/thinqApi.ts, bridge/oauth2.ts and bridge/util.ts.                *)
(*                                                                         *)
(* A registration is a list of steps that await each other: requests with  *)
(* up to four attempts, signed requests with one, and three runs of        *)
(* openssl.  An attempt can fail before the cloud has acted or after it,   *)
(* so that the next one repeats what is done already; the process can die  *)
(* between any two steps.  One registration is under way at a time         *)
(* (CloudBridge has two), and beside it a sign-in, which uses the same     *)
(* cached gateway.                                                         *)
(*                                                                         *)
(* The cloud is external.  It is modelled from the error codes the client  *)
(* handles and from its comment on initDevice.                             *)
(***************************************************************************)
EXTENDS Naturals, Sequences

CONSTANT Attempts   \* attempts of apiFetch

ASSUME RegistrationAssumption == Attempts \in Nat \ {0}

VARIABLES
  platform,  \* of the appliance: thinq1 or thinq2
  gateway,   \* gatewayCache: none, pending, ok, rejected
  gwTries,   \* failed attempts of its request
  login,     \* the sign-in: idle, gateway, token
  creds,     \* credentials are on disk
  step,      \* the step register() is at
  tries,     \* failed attempts of its request
  init,      \* initDevice of the next attempt of addDevice
  child,     \* openssl: none, running, killed: doomed until it closes, or running on
             \* as an orphan, its shell alone having been killed
  saved,     \* a state of the appliance is on disk
  owner,     \* the cloud: whose home has the appliance: none, ours, other
  cert,      \* the cloud: the key its certificate is for: none, call (the last one), old
  otpUsed,   \* the cloud: the one-time password of this call has been used
  outcome,   \* of the last call: none while it is under way, saved, failed
  cause,     \* what has gone wrong in it, apart from answers that were lost
  intact     \* nobody has touched the registration since it was saved

client == <<gateway, gwTries, login, creds, step, tries, init, child, saved>>
cloud == <<owner, cert, otpUsed>>
ghosts == <<outcome, cause, intact>>
vars == <<platform, client, cloud, ghosts>>

\* What follows each step of auth, removeDevice, prepareNewT2Device and pair.
AfterAuth == [gateway |-> "refresh", refresh |-> "profile", profile |-> "client",
              client |-> "homes", homes |-> "delete"]
AfterPair == [otp |-> "route", route |-> "ca", ca |-> "key", key |-> "pub", pub |-> "csr",
              csr |-> "cert", cert |-> "add"]

\* Only a ThinQ2 appliance is paired before addDevice.
After(s) ==
  IF s \in DOMAIN AfterAuth THEN AfterAuth[s]
  ELSE IF s \in DOMAIN AfterPair THEN AfterPair[s]
  ELSE IF platform = "thinq1" THEN "add" ELSE "otp"

Signed == {"refresh", "profile"}
Openssl == {"key", "pub", "csr"}
Requests == {"client", "homes", "delete", "otp", "route", "ca", "cert", "add"}

Init ==
  /\ platform \in {"thinq1", "thinq2"}
  /\ gateway = "none" /\ gwTries = 0 /\ login = "idle" /\ creds = FALSE
  /\ step = "idle" /\ tries = 0 /\ init = FALSE /\ child = "none" /\ saved = FALSE
  /\ owner \in {"none", "ours", "other"} /\ cert = "none" /\ otpUsed = FALSE
  /\ outcome = "none" /\ cause = {} /\ intact = FALSE

-----------------------------------------------------------------------------
(* The gateway, whose promise is kept for good, also when it is rejected.  *)

\* The constructor of Client.
GatewayAsked == IF gateway = "none" THEN "pending" ELSE gateway

\* apiFetch of the gateway: an answer, or one attempt less.
GatewayRequest ==
  /\ gateway = "pending"
  /\ \/ gateway' = "ok" /\ gwTries' = 0
     \/ /\ gwTries < Attempts - 1
        /\ gwTries' = gwTries + 1 /\ gateway' = gateway
     \/ /\ gwTries = Attempts - 1
        /\ gateway' = "rejected" /\ gwTries' = 0
  /\ UNCHANGED <<platform, login, creds, step, tries, init, child, saved, cloud, ghosts>>

-----------------------------------------------------------------------------
(* The sign-in.                                                            *)

BeginLogin ==
  /\ login = "idle"
  /\ login' = "gateway"
  /\ gateway' = GatewayAsked
  /\ UNCHANGED <<platform, gwTries, creds, step, tries, init, child, saved, cloud, ghosts>>

\* getUrls; beginLogin ends here, completeLogin exchanges its code.
LoginGateway ==
  /\ login = "gateway" /\ gateway \in {"ok", "rejected"}
  /\ login' \in IF gateway = "ok" THEN {"idle", "token"} ELSE {"idle"}
  /\ UNCHANGED <<platform, gateway, gwTries, creds, step, tries, init, child, saved, cloud, ghosts>>

\* fromCode: the credentials are written, or nothing is.
LoginToken ==
  /\ login = "token"
  /\ login' = "idle"
  /\ creds' \in {creds, TRUE}
  /\ UNCHANGED <<platform, gateway, gwTries, step, tries, init, child, saved, cloud, ghosts>>

Logout ==
  /\ creds
  /\ creds' = FALSE
  /\ UNCHANGED <<platform, gateway, gwTries, login, step, tries, init, child, saved, cloud, ghosts>>

-----------------------------------------------------------------------------
(* The registration.                                                       *)

\* register(), for a signed-in user and a known device type.
Register ==
  /\ step = "idle" /\ creds
  /\ step' = "gateway" /\ tries' = 0 /\ init' = FALSE /\ otpUsed' = FALSE
  /\ outcome' = "none" /\ cause' = {} /\ intact' = FALSE
  /\ gateway' = GatewayAsked
  /\ cert' = IF cert = "call" THEN "old" ELSE cert
  /\ UNCHANGED <<platform, gwTries, login, creds, child, saved, owner>>

\* The call is rejected: whatever has been done at the cloud stays.
Fail(why) ==
  /\ step' = "idle" /\ tries' = 0
  /\ outcome' = "failed" /\ cause' = cause \cup why
  /\ UNCHANGED <<init, saved, intact>>

Proceed(s) ==
  /\ step' = After(s) /\ tries' = 0
  /\ UNCHANGED <<init, saved, ghosts>>

AwaitGateway ==
  /\ step = "gateway" /\ gateway \in {"ok", "rejected"}
  /\ IF gateway = "ok" THEN Proceed("gateway") ELSE Fail({"gateway"})
  /\ UNCHANGED <<platform, gateway, gwTries, login, creds, child, cloud>>

\* refresh and the profile: one attempt; the cloud may refuse the token.
SignedRequest ==
  /\ step \in Signed
  /\ \/ Proceed(step)
     \/ Fail({"network"})
     \/ Fail({"refused"})
  /\ UNCHANGED <<platform, gateway, gwTries, login, creds, child, cloud>>

(***************************************************************************)
(* What the cloud does with a request.                                     *)
(***************************************************************************)
Served(s, result) ==
  CASE s = "delete" ->
         /\ owner' = IF owner = "ours" THEN "none" ELSE owner
         /\ result = IF owner = "ours" THEN "0000" ELSE "0101"
         /\ UNCHANGED <<cert, otpUsed>>
    [] s = "add" ->
         /\ result = IF init THEN IF owner = "none" THEN "9999" ELSE "0000"
                     ELSE IF owner = "none" THEN "0000" ELSE "0125"
         /\ owner' = IF result = "0000" THEN "ours" ELSE owner
         /\ UNCHANGED <<cert, otpUsed>>
    [] s = "cert" ->
         /\ result \in IF otpUsed THEN {"0000", "0102"} ELSE {"0000"}
         /\ cert' = IF result = "0000" THEN "call" ELSE cert
         /\ otpUsed' = TRUE
         /\ owner' = owner
    [] s = "otp" -> result = "0000" /\ otpUsed' = FALSE /\ UNCHANGED <<owner, cert>>
    [] OTHER -> result = "0000" /\ UNCHANGED cloud

\* The state on disk; bridge/state.ts.
Save ==
  /\ step' = "idle" /\ tries' = 0
  /\ saved' = TRUE /\ outcome' = "saved" /\ intact' = TRUE
  /\ UNCHANGED <<init, cause>>

\* The codes of ErrorCodes the client tells apart, and two that stand for the others.
Results == {"0000", "0101", "0125", "0102", "9999"}

DeleteIsDone_XStrict(result) == result = "0000"

\* Which results of the cloud do not end a call: removeDevice has nothing to remove,
\* addDevice repeats a request that found the appliance in a home.
DeleteIsDone(result) == result \in {"0000", "0101"}

AddIsDone_XAlready(result) == result \in {"0000", "0125"}

AddIsDone(result) == result = "0000"

AddAgain(result) == result = "0125" /\ ~init

\* A refusal is no fault of this side if somebody else has changed the cloud, or if
\* it is the second use of a password.
Answered(s, result) ==
  IF s = "delete" /\ DeleteIsDone(result) THEN Proceed(s)
  ELSE IF s = "add" /\ AddIsDone(result) THEN Save
  ELSE IF s = "add" /\ AddAgain(result)
  THEN init' = TRUE /\ tries' = 0 /\ UNCHANGED <<step, saved, ghosts>>
  ELSE IF s = "homes"
  THEN Proceed(s) \/ Fail({"no home"})
  ELSE IF result = "0000" THEN Proceed(s)
  ELSE Fail(IF s = "cert" THEN {"password"} ELSE {})

\* An attempt that throws.
Retry(last) ==
  IF tries >= last - 1 THEN Fail({"network"})
  ELSE tries' = tries + 1 /\ UNCHANGED <<step, init, saved, ghosts>>

\* One attempt of apiFetch: answered, lost on its way to the cloud or back.
Request ==
  /\ step \in Requests
  /\ \/ \E result \in Results :
          Served(step, result) /\ (Answered(step, result) \/ Retry(Attempts))
     \/ Retry(Attempts) /\ UNCHANGED cloud
  /\ UNCHANGED <<platform, gateway, gwTries, login, creds, child>>

\* The other side of the race in pair().
RouteTimeout ==
  /\ step = "route"
  /\ Fail({"route"})
  /\ UNCHANGED <<platform, gateway, gwTries, login, creds, child, cloud>>

-----------------------------------------------------------------------------
(* The runs of openssl: subprocess() settles when the child closes.        *)

Spawn ==
  /\ step \in Openssl /\ child = "none"
  /\ child' = "running"
  /\ UNCHANGED <<platform, gateway, gwTries, login, creds, step, tries, init, saved, cloud, ghosts>>

Killed_XLeftAlone(s) == "running"

\* fail() sends SIGKILL to the child.  That of "csr" is the shell of a pipeline,
\* whose openssl outlives it and keeps the output open.
Killed(s) == IF s = "csr" THEN "orphan" ELSE "doomed"

\* The time-out, too much output, an error of the pipe or of the start.

SubprocessFails ==
  /\ child = "running"
  /\ child' = Killed(step)
  /\ cause' = cause \cup {"openssl"}
  /\ UNCHANGED <<platform, gateway, gwTries, login, creds, step, tries, init, saved, cloud, outcome, intact>>

\* The child of its own accord, with whichever code, or killed.
Close(ok) ==
  /\ child # "none"
  /\ child' = "none"
  /\ IF ok THEN Proceed(step) ELSE Fail({"openssl"})
  /\ UNCHANGED <<platform, gateway, gwTries, login, creds, cloud>>

KilledCloses == child = "doomed" /\ Close(FALSE)
OrphanCloses == child = "orphan" /\ Close(FALSE)
ChildCloses == child = "running" /\ \E ok \in BOOLEAN : Close(ok)

-----------------------------------------------------------------------------
(* The surroundings.                                                       *)

\* Somebody removes the appliance in the app, or takes it into another home.
Elsewhere ==
  /\ owner' \in {"none", "other"} \ {owner}
  /\ intact' = FALSE
  /\ cause' = cause \cup {"elsewhere"}
  /\ UNCHANGED <<platform, client, cert, otpUsed, outcome>>

\* The process ends; files and cloud stay.
Crash ==
  /\ gateway' = "none" /\ gwTries' = 0 /\ login' = "idle"
  /\ step' = "idle" /\ tries' = 0 /\ init' = FALSE /\ child' = "none"
  /\ outcome' = "none" /\ cause' = {}
  /\ UNCHANGED <<platform, creds, saved, cloud, intact>>

LoginStep == LoginGateway \/ LoginToken
CallStep == AwaitGateway \/ SignedRequest \/ Request \/ Spawn

Next ==
  \/ GatewayRequest \/ BeginLogin \/ LoginStep \/ Logout
  \/ Register \/ CallStep \/ RouteTimeout
  \/ SubprocessFails \/ KilledCloses \/ OrphanCloses \/ ChildCloses
  \/ Elsewhere \/ Crash

(***************************************************************************)
(* What has a time limit: the race of pair() against 5 s, and the 30 s     *)
(* timer of a child, whose SIGKILL ends openssl where it is the child      *)
(* itself.  A request has none, and neither need a child end by itself nor *)
(* the orphan of a pipeline.                                               *)
(***************************************************************************)
Fairness ==
  /\ WF_vars(RouteTimeout) /\ WF_vars(Spawn)
  /\ WF_vars(SubprocessFails) /\ WF_vars(KilledCloses)

Spec == Init /\ [][Next]_vars /\ Fairness

-----------------------------------------------------------------------------
(* Properties.                                                             *)

\* Lost answers, repeated requests and what earlier calls left half done, also one
\* that the end of the process cut off, do not make a registration fail: when one
\* fails, the network or openssl has failed it, the cloud has refused the user, or
\* the appliance was taken elsewhere meanwhile.  The one repetition that may fail a
\* call is that of the request for a certificate, whose password is used up then
\* (the results 0101 and 0125 in removeDevice and addDevice, bridge/thinqApi.ts).
FailsForACause == outcome = "failed" => cause # {}

\* The state on disk is one the cloud knows, from the moment it is written until
\* somebody touches the registration: the appliance is in the user's home, and the
\* certificate is the last one that was issued.
SavedIsRegistered ==
  intact => saved /\ owner = "ours" /\ (platform = "thinq2" => cert = "call")

\* The waits of a registration that nothing limits: fetch has no time-out, and the
\* pipeline of openssl may outlive its shell.
Untimed == {"gateway", "csr"} \cup Signed \cup (Requests \ {"route"})

\* A registration hangs nowhere else: one that stays in none of these waits for
\* good comes to its end, whatever openssl does and however often the requests are
\* repeated (apiFetch and pair, bridge/thinqApi.ts; subprocess, bridge/util.ts).
EveryCallEnds ==
  (\A s \in Untimed : []<>(step # s)) => (step # "idle" ~> step = "idle")
=============================================================================
