------------------------- MODULE AirConditionerProofs -------------------------
(* The air conditioner's handler, for every set of modes and settings, any *)
(* number of commands and reports under way and any history.  In the first *)
(* part, its start: exactly one step of it is pending until it is          *)
(* complete, and nothing is once the appliance is gone.  In the second,    *)
(* what it is for: what it shows, remembers and polls follows the machine. *)
EXTENDS AirConditioner, TLAPS

(* The start goes through five stages.  What makes the invariant inductive *)
(* is that the stage also tells whether the first values have come (or a   *)
(* second answer would start the mask's delay again) and whether the       *)
(* configuration has been made, and that a handler that is gone has none   *)
(* of the timers with which a later step could speak or arm another.       *)
InCaps   == Armed(TRUE, FALSE, FALSE, FALSE) /\ ~gotValues /\ configured = 0
InValues == Armed(FALSE, TRUE, FALSE, FALSE) /\ ~gotValues /\ configured = 0
InMask   == Armed(FALSE, FALSE, TRUE, FALSE) /\ gotValues /\ configured = 0
InProbe  == Armed(FALSE, FALSE, FALSE, TRUE) /\ gotValues /\ configured = 0
Done     == Armed(FALSE, FALSE, FALSE, FALSE) /\ gotValues /\ configured = 1

Stages == InCaps \/ InValues \/ InMask \/ InProbe \/ Done

AtRest ==
  /\ Armed(FALSE, FALSE, FALSE, FALSE)
  /\ ~online /\ ~filterPoll /\ every = "none" /\ ~slow /\ down = <<>>

StartInv == live \in BOOLEAN /\ (live => Stages) /\ (~live => AtRest)

(* What a step that leaves the start alone has to keep: a handler that is  *)
(* live stays so, and one that is gone has nothing to do.                  *)
Elsewhere == live /\ UNCHANGED start

LEMMA ElsewhereKeeps == StartInv /\ Elsewhere => StartInv'
BY DEF StartInv, Elsewhere, Stages, InCaps, InValues, InMask, InProbe, Done, Armed, start

-----------------------------------------------------------------------------
(* The steps of the start.                                                 *)

LEMMA CapsRetryKeeps == StartInv /\ CapsRetry => StartInv'
<1> SUFFICES ASSUME StartInv, CapsRetry PROVE Elsewhere
  BY ElsewhereKeeps
<1> QED BY DEF StartInv, CapsRetry, Elsewhere, AtRest, Armed

LEMMA ValuesRetryKeeps == StartInv /\ ValuesRetry => StartInv'
<1> SUFFICES ASSUME StartInv, ValuesRetry PROVE Elsewhere
  BY ElsewhereKeeps
<1> QED BY DEF StartInv, ValuesRetry, Elsewhere, AtRest, Armed

\* The delay after the mask leads to the probe, or to the end of the start.
LEMMA MaskExpireKeeps == StartInv /\ MaskExpire => StartInv'
<1> SUFFICES ASSUME StartInv, MaskExpire PROVE StartInv'
  OBVIOUS
<1>1. live /\ live' = live /\ InMask
  BY DEF StartInv, MaskExpire, Stages, InCaps, InValues, InMask, InProbe, Done, AtRest, Armed
<1>2. CASE unit = "mfilter"
  <2>1. Done'
    BY <1>1, <1>2 DEF MaskExpire, MakeConfig, InMask, Done, Armed
  <2> QED BY <1>1, <2>1 DEF StartInv, Stages
<1>3. CASE unit # "mfilter"
  <2>1. InProbe'
    BY <1>1, <1>3 DEF MaskExpire, InMask, InProbe, Armed
  <2> QED BY <1>1, <2>1 DEF StartInv, Stages
<1> QED BY <1>2, <1>3

LEMMA ProbeExpireKeeps == StartInv /\ ProbeExpire => StartInv'
<1> SUFFICES ASSUME StartInv, ProbeExpire PROVE StartInv'
  OBVIOUS
<1>1. live /\ live' = live /\ InProbe
  BY DEF StartInv, ProbeExpire, Stages, InCaps, InValues, InMask, InProbe, Done, AtRest, Armed
<1>2. Done'
  BY <1>1 DEF ProbeExpire, MakeConfig, InProbe, Done, Armed
<1> QED BY <1>1, <1>2 DEF StartInv, Stages

\* An answer about the filter ends the start only while the probe waits for it.
LEMMA ReceiveFilterKeeps == StartInv /\ ReceiveFilter => StartInv'
<1> SUFFICES ASSUME StartInv, ReceiveFilter PROVE StartInv'
  OBVIOUS
<1>1. live /\ live' = live /\ Stages
  BY DEF StartInv, ReceiveFilter
<1>2. CASE probeTimer
  <2>1. InProbe
    BY <1>1, <1>2 DEF Stages, InCaps, InValues, InMask, InProbe, Done, Armed
  <2>2. Done'
    BY <1>2, <2>1 DEF ReceiveFilter, MakeConfig, InProbe, Done, Armed
  <2> QED BY <1>1, <2>2 DEF StartInv, Stages
<1>3. CASE ~probeTimer
  <2>1. Elsewhere
    BY <1>1, <1>3 DEF ReceiveFilter, Elsewhere, start
  <2> QED BY <2>1, ElsewhereKeeps
<1> QED BY <1>2, <1>3

\* Capabilities end the first stage, values the second; in any later stage neither
\* changes it.
LEMMA ReceiveTLVKeeps ==
  ASSUME NEW late \in BOOLEAN, StartInv, ReceiveTLV(late)
  PROVE  StartInv'
<1> DEFINE kind == Head(up).kind
           caps == capsTimer /\ kind = "caps"
           values == ~capsTimer /\ kind = "values"
<1>1. live /\ live' = live /\ Stages
  BY DEF StartInv, ReceiveTLV
<1>2. /\ capsTimer' = (capsTimer /\ ~caps)
      /\ valuesTimer' = (~values /\ (valuesTimer \/ caps))
      /\ gotValues' = (gotValues \/ values)
      /\ maskTimer' = (maskTimer \/ (values /\ ~gotValues))
      /\ UNCHANGED <<probeTimer, configured>>
  BY DEF ReceiveTLV
<1> HIDE DEF kind
<1>3. Stages'
  <2>1. CASE InCaps
    BY <1>2, <2>1 DEF Stages, InCaps, InValues, Armed
  <2>2. CASE InValues
    BY <1>2, <2>2 DEF Stages, InValues, InMask, Armed
  <2>3. CASE InMask
    BY <1>2, <2>3 DEF Stages, InMask, Armed
  <2>4. CASE InProbe
    BY <1>2, <2>4 DEF Stages, InProbe, Armed
  <2>5. CASE Done
    BY <1>2, <2>5 DEF Stages, Done, Armed
  <2> QED BY <1>1, <2>1, <2>2, <2>3, <2>4, <2>5 DEF Stages
<1> QED BY <1>1, <1>3 DEF StartInv

-----------------------------------------------------------------------------
(* The other timers, and the connection.                                   *)

LEMMA TimersKeep == StartInv /\ (Poll \/ FilterPoll \/ SlowDown) => StartInv'
<1> SUFFICES ASSUME StartInv, Poll \/ FilterPoll \/ SlowDown PROVE Elsewhere
  BY ElsewhereKeeps
<1>1. live
  BY DEF StartInv, Poll, FilterPoll, SlowDown, AtRest
<1> QED BY <1>1 DEF Elsewhere, Poll, FilterPoll, SlowDown

LEMMA DropKeeps == StartInv /\ Drop => StartInv'
BY DEF StartInv, Drop, AtRest, Armed

LEMMA NewSessionKeeps == StartInv /\ NewSession => StartInv'
<1> SUFFICES ASSUME StartInv, NewSession PROVE StartInv'
  OBVIOUS
<1>1. live' = TRUE /\ InCaps'
  BY DEF StartInv, NewSession, AtRest, InCaps, Armed
<1> QED BY <1>1 DEF StartInv, Stages

LEMMA UserKeeps ==
  ASSUME StartInv,
         \/ \E s \in Switches, on \in BOOLEAN : HASetting(s, on)
         \/ \E m \in Modes : HAMode(m)
         \/ \E p \in OnOff : HAPower(p)
  PROVE  StartInv'
<1>1. Elsewhere
  BY DEF HASetting, HAMode, HAPower, UserMay, Elsewhere
<1> QED BY <1>1, ElsewhereKeeps

LEMMA PanelKeeps ==
  ASSUME StartInv,
         \/ PanelPower \/ Thermostat
         \/ \E m \in Modes : PanelMode(m)
         \/ \E s \in Switches : PanelSetting(s)
  PROVE  StartInv'
<1>1. Elsewhere
  BY DEF PanelPower, PanelMode, PanelSetting, Thermostat, ByItself, NotHandler, Elsewhere
<1> QED BY <1>1, ElsewhereKeeps

LEMMA TakeKeeps == StartInv /\ Take => StartInv'
<1> SUFFICES ASSUME StartInv, Take PROVE Elsewhere
  BY ElsewhereKeeps
<1>1. CASE Answers
  BY <1>1 DEF Answers, AnswerCaps, AnswerQuery, AnswerFilter, Taken, NotHandler, Elsewhere
<1>2. CASE NoAnswer \/ TakeMask
  BY <1>2 DEF NoAnswer, TakeMask, Taken, NotHandler, Elsewhere
<1>3. CASE TakePower \/ TakeMode
  BY <1>3 DEF TakePower, TakeMode, Taken, NotHandler, Elsewhere
<1>4. CASE TakeSetting
  BY <1>4 DEF TakeSetting, Taken, NotHandler, Elsewhere
<1> QED BY <1>1, <1>2, <1>3, <1>4 DEF Take

-----------------------------------------------------------------------------
(* The theorems.                                                           *)

LEMMA StartInvInit == Init => StartInv
BY DEF Init, StartInv, AtRest, Armed

LEMMA StartInvNext == StartInv /\ [Next]_vars => StartInv'
<1> SUFFICES ASSUME StartInv, [Next]_vars PROVE StartInv'
  OBVIOUS
<1>1. CASE StartTimers
  BY <1>1, CapsRetryKeeps, ValuesRetryKeeps, MaskExpireKeeps, ProbeExpireKeeps
  DEF StartTimers
<1>2. CASE Receive
  BY <1>2, ReceiveFilterKeeps, ReceiveTLVKeeps DEF Receive
<1>3. CASE Poll \/ FilterPoll \/ SlowDown
  BY <1>3, TimersKeep
<1>4. CASE Drop
  BY <1>4, DropKeeps
<1>5. CASE NewSession
  BY <1>5, NewSessionKeeps
<1>6. CASE \/ \E s \in Switches, on \in BOOLEAN : HASetting(s, on)
           \/ \E m \in Modes : HAMode(m)
           \/ \E p \in OnOff : HAPower(p)
  BY <1>6, UserKeeps
<1>7. CASE \/ PanelPower \/ Thermostat
           \/ \E m \in Modes : PanelMode(m)
           \/ \E s \in Switches : PanelSetting(s)
  BY <1>7, PanelKeeps
<1>8. CASE Take
  BY <1>8, TakeKeeps
<1>9. CASE UNCHANGED vars
  BY <1>9 DEF vars, start, filter, climate, StartInv, Stages, InCaps, InValues, InMask,
              InProbe, Done, AtRest, Armed
<1> QED BY <1>1, <1>2, <1>3, <1>4, <1>5, <1>6, <1>7, <1>8, <1>9 DEF Next

LEMMA StartInvAlways == Spec => []StartInv
BY StartInvInit, StartInvNext, PTL DEF Spec

\* The chain of retries and time-outs with which tlv_device.ts and RAC_056905_WW.ts
\* start never breaks and never forks: until the configuration is published exactly one
\* of its four steps is pending, and it is published once in a connection.
THEOREM StartAlwaysPending == Spec => []StartIsPending
<1>1. StartInv => StartIsPending
  BY DEF StartInv, StartIsPending, Stages, InCaps, InValues, InMask, InProbe, Done, Armed
<1> QED BY <1>1, StartInvAlways, PTL

\* After drop() no timer of the handler is left to publish "online" for an appliance
\* that is gone, or to ask it for anything.
THEOREM GoneAlwaysOffline == Spec => []GoneStaysOffline
<1>1. StartInv => GoneStaysOffline
  BY DEF StartInv, GoneStaysOffline, AtRest
<1> QED BY <1>1, StartInvAlways, PTL

-----------------------------------------------------------------------------
(* Handler and machine agree.  What follows speaks of a handler h, a       *)
(* machine m, the commands d under way to the machine and the reports      *)
(* under way to the handler: the tags ts that are left of the frame val    *)
(* that is being handled, and the reports q behind it.                     *)

AllValues == Modes \cup OnOff \cup BOOLEAN \cup Values
Vals == (UNION {[T -> AllValues] : T \in SUBSET Tags}) \cup [life : BOOLEAN]
ValOK(val) ==
  /\ "power" \in DOMAIN val => val["power"] \in OnOff
  /\ "mode" \in DOMAIN val => val["mode"] \in Modes
  /\ "run" \in DOMAIN val => val["run"] \in BOOLEAN
  /\ \A s \in Switches \cap DOMAIN val : val[s] \in Values
ReportOK(r) ==
  /\ ValOK(r.val)
  /\ r.kind = "filter" => DOMAIN r.val = {"life"}
  /\ r.kind # "filter" => DOMAIN r.val \subseteq Tags
  /\ r.kind = "values" => {"power", "mode"} \subseteq DOMAIN r.val
Reports == {r \in [kind : Kinds, val : Vals] : ReportOK(r)}

Plain == [cmd : {"caps", "query", "mask", "filter"}]
Sets == {c \in [cmd : {"set"}, setting : Switches, value : Values] :
           c.setting = "jet" /\ c.value = 1 => "cool" \in JetModes}
Moves == [cmd : {"power"}, power : {"on"}, mode : Modes] \cup [cmd : {"mode"}, mode : Modes]
         \cup [cmd : {"power"}, power : {"off"}, mode : {"unset"}]
Cmds == Plain \cup Sets \cup Moves

Machines == [power : OnOff, mode : Modes, run : BOOLEAN, set : [Switches -> Values]]
Machine == [power |-> mPower, mode |-> mMode, run |-> mRun, set |-> mSet]
TagValue(m, t) ==
  IF t = "power" THEN m.power ELSE IF t = "mode" THEN m.mode ELSE IF t = "run" THEN m.run
  ELSE m.set[t]

Actions == {"unset", "off", "idle", "None", "cooling", "drying", "fan", "heating"}
Handlers ==
  [power : OnOff \cup {"unset"}, mode : Modes \cup {"unset"}, run : BOOLEAN,
   powerPrev : OnOff \cup {"unset"}, modePrev : Modes \cup {"off", "unset"},
   memory : [Switches -> BOOLEAN], every : {"none", "slow", "fast"}, slow : BOOLEAN,
   shownMode : Modes \cup {"off", "unset"}, shownAction : Actions,
   out : Seq(Cmds), late : BOOLEAN]

\* Some report tells the tag; one tells something else of it than v; the last one
\* that tells it says v; and one tells power, settings and the indoor unit at once.
Tells(ts, q, t) == t \in ts \/ \E i \in DOMAIN q : t \in DOMAIN q[i].val
TellsOther(ts, val, q, t, v) ==
  \/ t \in ts /\ val[t] # v
  \/ \E i \in DOMAIN q : t \in DOMAIN q[i].val /\ q[i].val[t] # v
LastSays(ts, val, q, t, v) ==
  \/ t \in ts /\ val[t] = v /\ \A i \in DOMAIN q : t \notin DOMAIN q[i].val
  \/ \E k \in DOMAIN q : /\ t \in DOMAIN q[k].val /\ q[k].val[t] = v
                         /\ \A i \in DOMAIN q : i > k => t \notin DOMAIN q[i].val
WholeTags == {"power", "run"} \cup Switches
Covers(ts, q) == WholeTags \subseteq ts \/ \E i \in DOMAIN q : WholeTags \subseteq DOMAIN q[i].val

\* A command that brings the mode; that sets the setting; that switches otherwise.
Brings(c, mm) ==
  (c.cmd = "mode" /\ c.mode = mm) \/ (c.cmd = "power" /\ c.power = "on" /\ c.mode = mm)
IsSet(c, s) == c.cmd = "set" /\ c.setting = s
Modal(s) == s # "airclean"

PowerSent(d, p) == \E i \in DOMAIN d : d[i].cmd = "power" /\ d[i].power # p
Brought(d, mm) == \E i \in DOMAIN d : Brings(d[i], mm)
\* A command leads away from mode mm, where the machine is now or will be before.
Strays(d, mm, now) ==
  \E j \in DOMAIN d : /\ \E x \in Modes \ {mm} : Brings(d[j], x)
                      /\ now = mm \/ \E i \in DOMAIN d : i < j /\ Brings(d[i], mm)
\* The last command for the setting says v, and finds the machine in mode mm.
SetTo(d, s, v, mm, now) ==
  \E j \in DOMAIN d : /\ IsSet(d[j], s) /\ d[j].value = v
                      /\ \A i \in DOMAIN d : i > j => ~IsSet(d[i], s)
                      /\ ~Modal(s) \/ now = mm \/ \E i \in DOMAIN d : i < j /\ Brings(d[i], mm)

\* A change of power that the handler will see is told or ordered, and one of mode.
PowerTurns(h, d, ts, val, q) ==
  TellsOther(ts, val, q, "power", h.powerPrev) \/ PowerSent(d, h.powerPrev)
ModeTurns(h, m, d, ts, val, q) ==
  /\ h.modePrev \in Modes
  /\ TellsOther(ts, val, q, "mode", h.modePrev) \/ Strays(d, h.modePrev, m.mode)

\* What the reports tell of the machine, and what the handler has stored.
ReportsAreTrue(m, ts, val, q) ==
  \A t \in Tags : Tells(ts, q, t) => LastSays(ts, val, q, t, TagValue(m, t))
ModeIsKnown(h, m, d, ts, q) == Tells(ts, q, "mode") \/ h.mode = m.mode \/ Brought(d, h.mode)
RunIsKnown(h, m, ts, q) == Tells(ts, q, "run") \/ h.run = m.run

\* What the handler has last seen is so, or will be, or another report follows.
PowerIsSeen(h, m, ts, val, q) ==
  m.power = h.powerPrev \/ TellsOther(ts, val, q, "power", h.powerPrev)
ModeIsSeen(h, m, d, ts, val, q) ==
  h.modePrev \in Modes =>
    m.mode = h.modePrev \/ TellsOther(ts, val, q, "mode", h.modePrev) \/ Brought(d, h.modePrev)

\* Where what is stored differs from what was last seen, a change comes that the
\* handler will see, or a report that tells all.
PowerAhead(h, d, ts, val, q) ==
  h.power # h.powerPrev => PowerTurns(h, d, ts, val, q) \/ Covers(ts, q)
ModeAhead(h, m, d, ts, val, q) ==
  h.modePrev \in Modes /\ h.mode # h.modePrev =>
    PowerTurns(h, d, ts, val, q) \/ ModeTurns(h, m, d, ts, val, q) \/ Covers(ts, q)
SeenFits(h, d, ts, val, q) ==
  (h.modePrev = "off") # (h.powerPrev = "off") => PowerTurns(h, d, ts, val, q) \/ Covers(ts, q)

\* The action shown is that of what was last seen, or it will be computed anew.
SeenAction(h) == IF h.modePrev = "off" THEN "off" ELSE ActionOf("on", h.modePrev, h.run)
ActionFollows(h, m, d, ts, val, q) ==
  \/ h.shownAction = SeenAction(h)
  \/ PowerTurns(h, d, ts, val, q) \/ ModeTurns(h, m, d, ts, val, q) \/ Tells(ts, q, "run")

\* A setting that the handler takes for one that applies is remembered as the machine
\* has it, or will be told, or written, or ends with the mode the machine is still in;
\* unless all settings are written again or told.
SettingFollows(h, m, d, ts, q, s) ==
  \/ Tells(ts, q, s)
  \/ h.memory[s] = (m.set[s] # 0)
  \/ SetTo(d, s, Wire(s, h.memory[s], h.modePrev), h.modePrev, m.mode)
  \/ Modal(s) /\ m.set[s] # 0 /\ m.mode # h.modePrev
Believed(h, s) == h.powerPrev = "on" /\ (Modal(s) => h.modePrev \in ApplyModes[s])
SettingInStep(h, m, d, ts, val, q, s) ==
  Believed(h, s) =>
    \/ SettingFollows(h, m, d, ts, q, s)
    \/ PowerTurns(h, d, ts, val, q) \/ Covers(ts, q)
    \/ Modal(s) /\ ModeTurns(h, m, d, ts, val, q)

Stored(h, m, d, ts, val, q) ==
  ReportsAreTrue(m, ts, val, q) /\ ModeIsKnown(h, m, d, ts, q) /\ RunIsKnown(h, m, ts, q)
Seen(h, m, d, ts, val, q) ==
  /\ PowerIsSeen(h, m, ts, val, q) /\ ModeIsSeen(h, m, d, ts, val, q)
  /\ PowerAhead(h, d, ts, val, q) /\ ModeAhead(h, m, d, ts, val, q) /\ SeenFits(h, d, ts, val, q)
  /\ ActionFollows(h, m, d, ts, val, q)
ClimateInStep(h, m, d, ts, val, q) ==
  Stored(h, m, d, ts, val, q) /\ (h.powerPrev # "unset" => Seen(h, m, d, ts, val, q))
InStep(h, m, d, ts, val, q) ==
  /\ ClimateInStep(h, m, d, ts, val, q)
  /\ \A s \in Switches : SettingInStep(h, m, d, ts, val, q, s)

\* A setting that is on applies, and a handler that has seen power has seen a mode.
FitSettings(m) ==
  \A s \in Switches : m.set[s] # 0 =>
    m.power = "on" /\ m.mode \in ApplyModes[s] /\ m.set[s] = Wire(s, TRUE, m.mode)
HandlerOK(h) ==
  /\ h.powerPrev # "unset" => h.modePrev # "unset" /\ h.power # "unset" /\ h.mode # "unset"
  /\ h.shownMode = h.modePrev
  /\ h.shownAction \in Active => h.every = "fast" /\ ~h.slow

AgreeTypes ==
  /\ Handler(FALSE) \in Handlers /\ Machine \in Machines
  /\ down \in Seq(Cmds) /\ up \in Seq(Reports)
  /\ configured \in Nat /\ untold \in BOOLEAN

AgreeInv ==
  /\ AgreeTypes
  /\ FitSettings(Machine) /\ HandlerOK(Handler(FALSE))
  /\ configured = 0 => powerPrev = "unset"
  /\ gotValues /\ live => power # "unset" /\ mode # "unset"
  /\ live /\ ~untold => InStep(Handler(FALSE), Machine, down, {}, <<>>, up)

-----------------------------------------------------------------------------
(* Commands: what is under way when one is added, and when one is taken.   *)

\* A command that is added, and one that is taken, with the indices the others then have.
LEMMA AppendedCommand ==
  ASSUME NEW d \in Seq(Cmds), NEW c \in Cmds
  PROVE  /\ Append(d, c) \in Seq(Cmds) /\ Len(Append(d, c)) = Len(d) + 1
         /\ DOMAIN d = 1..Len(d) /\ DOMAIN Append(d, c) = 1..(Len(d) + 1)
         /\ \A i \in DOMAIN d : Append(d, c)[i] = d[i]
         /\ Append(d, c)[Len(d) + 1] = c
OBVIOUS

LEMMA TakenCommand ==
  ASSUME NEW d \in Seq(Cmds), d # <<>>
  PROVE  /\ Tail(d) \in Seq(Cmds) /\ Head(d) \in Cmds /\ Head(d) = d[1]
         /\ DOMAIN d = 1..Len(d) /\ DOMAIN Tail(d) = 1..(Len(d) - 1) /\ Len(d) \in Nat \ {0}
         /\ \A i \in DOMAIN Tail(d) : Tail(d)[i] = d[i + 1]
OBVIOUS

\* Adding a command
LEMMA PowerSentAppend ==
  ASSUME NEW d \in Seq(Cmds), NEW c \in Cmds, NEW p,
         PowerSent(d, p) \/ (c.cmd = "power" /\ c.power # p)
  PROVE  PowerSent(Append(d, c), p)
<1> DEFINE e == Append(d, c)
<1>1. /\ DOMAIN d = 1..Len(d) /\ DOMAIN e = 1..(Len(d) + 1) /\ Len(d) \in Nat
      /\ \A i \in DOMAIN d : e[i] = d[i]
      /\ e[Len(d) + 1] = c
  BY AppendedCommand
<1> HIDE DEF e
<1>2. PowerSent(e, p)
  BY <1>1 DEF PowerSent
<1> QED BY <1>2 DEF e

LEMMA BroughtAppend ==
  ASSUME NEW d \in Seq(Cmds), NEW c \in Cmds, NEW mm,
         Brought(d, mm) \/ Brings(c, mm)
  PROVE  Brought(Append(d, c), mm)
<1> DEFINE e == Append(d, c)
<1>1. /\ DOMAIN d = 1..Len(d) /\ DOMAIN e = 1..(Len(d) + 1) /\ Len(d) \in Nat
      /\ \A i \in DOMAIN d : e[i] = d[i]
      /\ e[Len(d) + 1] = c
  BY AppendedCommand
<1> HIDE DEF e
<1>2. Brought(e, mm)
  BY <1>1 DEF Brought
<1> QED BY <1>2 DEF e

LEMMA StraysAppend ==
  ASSUME NEW d \in Seq(Cmds), NEW c \in Cmds, NEW mm, NEW now,
         \/ Strays(d, mm, now)
         \/ (now = mm \/ Brought(d, mm)) /\ \E x \in Modes \ {mm} : Brings(c, x)
  PROVE  Strays(Append(d, c), mm, now)
<1> DEFINE e == Append(d, c)
<1>1. /\ DOMAIN d = 1..Len(d) /\ DOMAIN e = 1..(Len(d) + 1) /\ Len(d) \in Nat
      /\ \A i \in DOMAIN d : e[i] = d[i]
      /\ e[Len(d) + 1] = c
  BY AppendedCommand
<1> HIDE DEF e
<1>2. ASSUME Strays(d, mm, now) PROVE Strays(e, mm, now)
  <2>1. PICK j \in DOMAIN d : /\ \E x \in Modes \ {mm} : Brings(d[j], x)
                              /\ now = mm \/ \E i \in DOMAIN d : i < j /\ Brings(d[i], mm)
    BY <1>2 DEF Strays
  <2>2. j \in DOMAIN e /\ \E x \in Modes \ {mm} : Brings(e[j], x)
    BY <1>1, <2>1
  <2>3. now = mm \/ \E i \in DOMAIN e : i < j /\ Brings(e[i], mm)
    BY <1>1, <2>1
  <2> QED BY <2>2, <2>3 DEF Strays
<1>3. ASSUME now = mm \/ Brought(d, mm), \E x \in Modes \ {mm} : Brings(c, x)
      PROVE  Strays(e, mm, now)
  <2>1. Len(d) + 1 \in DOMAIN e /\ \E x \in Modes \ {mm} : Brings(e[Len(d) + 1], x)
    BY <1>1, <1>3
  <2>2. now = mm \/ \E i \in DOMAIN e : i < Len(d) + 1 /\ Brings(e[i], mm)
    BY <1>1, <1>3 DEF Brought
  <2> QED BY <2>1, <2>2 DEF Strays
<1>4. Strays(e, mm, now)
  BY <1>2, <1>3
<1> QED BY <1>4 DEF e

LEMMA SetToAppend ==
  ASSUME NEW d \in Seq(Cmds), NEW c \in Cmds, NEW s, NEW v, NEW mm, NEW now,
         \/ SetTo(d, s, v, mm, now) /\ ~IsSet(c, s)
         \/ IsSet(c, s) /\ c.value = v /\ (~Modal(s) \/ now = mm \/ Brought(d, mm))
  PROVE  SetTo(Append(d, c), s, v, mm, now)
<1> DEFINE e == Append(d, c)
<1>1. /\ DOMAIN d = 1..Len(d) /\ DOMAIN e = 1..(Len(d) + 1) /\ Len(d) \in Nat
      /\ \A i \in DOMAIN d : e[i] = d[i]
      /\ e[Len(d) + 1] = c
  BY AppendedCommand
<1> HIDE DEF e
<1>2. ASSUME SetTo(d, s, v, mm, now), ~IsSet(c, s) PROVE SetTo(e, s, v, mm, now)
  <2>1. PICK j \in DOMAIN d :
          /\ IsSet(d[j], s) /\ d[j].value = v
          /\ \A i \in DOMAIN d : i > j => ~IsSet(d[i], s)
          /\ ~Modal(s) \/ now = mm \/ \E i \in DOMAIN d : i < j /\ Brings(d[i], mm)
    BY <1>2 DEF SetTo
  <2>2. j \in DOMAIN e /\ IsSet(e[j], s) /\ e[j].value = v
    BY <1>1, <2>1
  <2>3. \A i \in DOMAIN e : i > j => ~IsSet(e[i], s)
    BY <1>1, <1>2, <2>1
  <2>4. ~Modal(s) \/ now = mm \/ \E i \in DOMAIN e : i < j /\ Brings(e[i], mm)
    BY <1>1, <2>1
  <2> QED BY <2>2, <2>3, <2>4 DEF SetTo
<1>3. ASSUME IsSet(c, s), c.value = v, ~Modal(s) \/ now = mm \/ Brought(d, mm)
      PROVE  SetTo(e, s, v, mm, now)
  <2>1. Len(d) + 1 \in DOMAIN e /\ IsSet(e[Len(d) + 1], s) /\ e[Len(d) + 1].value = v
    BY <1>1, <1>3
  <2>2. \A i \in DOMAIN e : i > Len(d) + 1 => ~IsSet(e[i], s)
    BY <1>1
  <2>3. ~Modal(s) \/ now = mm \/ \E i \in DOMAIN e : i < Len(d) + 1 /\ Brings(e[i], mm)
    BY <1>1, <1>3 DEF Brought
  <2> QED BY <2>1, <2>2, <2>3 DEF SetTo
<1>4. SetTo(e, s, v, mm, now)
  BY <1>2, <1>3
<1> QED BY <1>4 DEF e

\* Taking one
LEMMA PowerSentTail ==
  ASSUME NEW d \in Seq(Cmds), d # <<>>, NEW p, PowerSent(d, p)
  PROVE  (Head(d).cmd = "power" /\ Head(d).power # p) \/ PowerSent(Tail(d), p)
<1> DEFINE e == Tail(d)
           c == Head(d)
<1>1. /\ c = d[1] /\ DOMAIN d = 1..Len(d) /\ DOMAIN e = 1..(Len(d) - 1) /\ Len(d) \in Nat \ {0}
      /\ \A i \in DOMAIN e : e[i] = d[i + 1]
  BY TakenCommand
<1> HIDE DEF e, c
<1>2. PICK i \in DOMAIN d : d[i].cmd = "power" /\ d[i].power # p
  BY DEF PowerSent
<1>3. CASE i = 1
  BY <1>1, <1>2, <1>3 DEF c
<1>4. CASE i # 1
  <2>1. i - 1 \in DOMAIN e /\ e[i - 1] = d[i]
    BY <1>1, <1>4
  <2>2. PowerSent(e, p)
    BY <1>2, <2>1 DEF PowerSent
  <2> QED BY <2>2 DEF e
<1> QED BY <1>3, <1>4

LEMMA BroughtTail ==
  ASSUME NEW d \in Seq(Cmds), d # <<>>, NEW mm, Brought(d, mm)
  PROVE  Brings(Head(d), mm) \/ Brought(Tail(d), mm)
<1> DEFINE e == Tail(d)
           c == Head(d)
<1>1. /\ c = d[1] /\ DOMAIN d = 1..Len(d) /\ DOMAIN e = 1..(Len(d) - 1) /\ Len(d) \in Nat \ {0}
      /\ \A i \in DOMAIN e : e[i] = d[i + 1]
  BY TakenCommand
<1> HIDE DEF e, c
<1>2. PICK i \in DOMAIN d : Brings(d[i], mm)
  BY DEF Brought
<1>3. CASE i = 1
  BY <1>1, <1>2, <1>3 DEF c
<1>4. CASE i # 1
  <2>1. i - 1 \in DOMAIN e /\ e[i - 1] = d[i]
    BY <1>1, <1>4
  <2>2. Brought(e, mm)
    BY <1>2, <2>1 DEF Brought
  <2> QED BY <2>2 DEF e
<1> QED BY <1>3, <1>4

\* The command that leads away is taken itself, or what led to the mode is, or neither.
LEMMA StraysTail ==
  ASSUME NEW d \in Seq(Cmds), d # <<>>, NEW mm, NEW now, NEW n, Strays(d, mm, now)
  PROVE  \/ now = mm /\ \E x \in Modes \ {mm} : Brings(Head(d), x)
         \/ (now = mm \/ Brings(Head(d), mm)) /\ Strays(Tail(d), mm, mm)
         \/ Strays(Tail(d), mm, n)
<1> DEFINE e == Tail(d)
           c == Head(d)
<1>1. /\ c = d[1] /\ DOMAIN d = 1..Len(d) /\ DOMAIN e = 1..(Len(d) - 1) /\ Len(d) \in Nat \ {0}
      /\ \A i \in DOMAIN e : e[i] = d[i + 1]
  BY TakenCommand
<1> HIDE DEF e, c
<1>2. PICK j \in DOMAIN d : /\ \E x \in Modes \ {mm} : Brings(d[j], x)
                            /\ now = mm \/ \E i \in DOMAIN d : i < j /\ Brings(d[i], mm)
  BY DEF Strays
<1>3. CASE j = 1
  BY <1>1, <1>2, <1>3 DEF c
<1>4. CASE j # 1
  <2>1. j - 1 \in DOMAIN e /\ e[j - 1] = d[j]
    BY <1>1, <1>4
  <2>2. CASE now = mm
    <3>1. Strays(e, mm, mm)
      BY <1>2, <2>1 DEF Strays
    <3> QED BY <2>2, <3>1 DEF e
  <2>3. CASE now # mm
    <3>1. PICK i \in DOMAIN d : i < j /\ Brings(d[i], mm)
      BY <1>2, <2>3
    <3>2. CASE i = 1
      <4>1. Strays(e, mm, mm)
        BY <1>2, <2>1 DEF Strays
      <4>2. Brings(c, mm)
        BY <1>1, <3>1, <3>2
      <4> QED BY <4>1, <4>2 DEF e, c
    <3>3. CASE i # 1
      <4>1. i - 1 \in DOMAIN e /\ e[i - 1] = d[i] /\ i - 1 < j - 1
        BY <1>1, <3>1, <3>3
      <4>2. \E k \in DOMAIN e : k < j - 1 /\ Brings(e[k], mm)
        BY <3>1, <4>1
      <4>3. Strays(e, mm, n)
        BY <1>2, <2>1, <4>2 DEF Strays
      <4> QED BY <4>3 DEF e
    <3> QED BY <3>2, <3>3
  <2> QED BY <2>2, <2>3
<1> QED BY <1>3, <1>4

LEMMA SetToTail ==
  ASSUME NEW d \in Seq(Cmds), d # <<>>, NEW s, NEW v, NEW mm, NEW now, NEW n,
         SetTo(d, s, v, mm, now)
  PROVE  \/ IsSet(Head(d), s) /\ Head(d).value = v /\ (~Modal(s) \/ now = mm)
         \/ (now = mm \/ Brings(Head(d), mm)) /\ SetTo(Tail(d), s, v, mm, mm)
         \/ SetTo(Tail(d), s, v, mm, n)
<1> DEFINE e == Tail(d)
           c == Head(d)
<1>1. /\ c = d[1] /\ DOMAIN d = 1..Len(d) /\ DOMAIN e = 1..(Len(d) - 1) /\ Len(d) \in Nat \ {0}
      /\ \A i \in DOMAIN e : e[i] = d[i + 1]
  BY TakenCommand
<1> HIDE DEF e, c
<1>2. PICK j \in DOMAIN d :
        /\ IsSet(d[j], s) /\ d[j].value = v
        /\ \A i \in DOMAIN d : i > j => ~IsSet(d[i], s)
        /\ ~Modal(s) \/ now = mm \/ \E i \in DOMAIN d : i < j /\ Brings(d[i], mm)
  BY DEF SetTo
<1>3. CASE j = 1
  <2>1. ~Modal(s) \/ now = mm
    BY <1>1, <1>2, <1>3
  <2> QED BY <1>1, <1>2, <1>3, <2>1 DEF c
<1>4. CASE j # 1
  <2>1. j - 1 \in DOMAIN e /\ e[j - 1] = d[j]
    BY <1>1, <1>4
  <2>2. \A i \in DOMAIN e : i > j - 1 => ~IsSet(e[i], s)
    <3> SUFFICES ASSUME NEW i \in DOMAIN e, i > j - 1 PROVE ~IsSet(e[i], s)
      OBVIOUS
    <3>1. i + 1 \in DOMAIN d /\ i + 1 > j /\ e[i] = d[i + 1]
      BY <1>1
    <3> QED BY <1>2, <3>1
  <2>3. CASE ~Modal(s) \/ now = mm
    <3>1. SetTo(e, s, v, mm, mm) /\ (~Modal(s) => SetTo(e, s, v, mm, n))
      BY <1>2, <2>1, <2>2 DEF SetTo
    <3> QED BY <2>3, <3>1 DEF e
  <2>4. CASE Modal(s) /\ now # mm
    <3>1. PICK i \in DOMAIN d : i < j /\ Brings(d[i], mm)
      BY <1>2, <2>4
    <3>2. CASE i = 1
      <4>1. SetTo(e, s, v, mm, mm)
        BY <1>2, <2>1, <2>2 DEF SetTo
      <4>2. Brings(c, mm)
        BY <1>1, <3>1, <3>2
      <4> QED BY <4>1, <4>2 DEF e, c
    <3>3. CASE i # 1
      <4>1. i - 1 \in DOMAIN e /\ e[i - 1] = d[i] /\ i - 1 < j - 1
        BY <1>1, <3>1, <3>3
      <4>2. \E k \in DOMAIN e : k < j - 1 /\ Brings(e[k], mm)
        BY <3>1, <4>1
      <4>3. SetTo(e, s, v, mm, n)
        BY <1>2, <2>1, <2>2, <4>2 DEF SetTo
      <4> QED BY <4>3 DEF e
    <3> QED BY <3>2, <3>3
  <2> QED BY <2>3, <2>4
<1> QED BY <1>3, <1>4

-----------------------------------------------------------------------------
(* Reports: what is told when one is added, when one comes to the front    *)
(* and when one of its tags has been handled.                              *)

\* A report that is added, and the next one, with the indices the others then have.
LEMMA AddedReport ==
  ASSUME NEW q \in Seq(Reports), NEW r \in Reports
  PROVE  /\ Append(q, r) \in Seq(Reports) /\ Len(q) \in Nat
         /\ DOMAIN q = 1..Len(q) /\ DOMAIN Append(q, r) = 1..(Len(q) + 1)
         /\ \A i \in DOMAIN q : Append(q, r)[i] = q[i]
         /\ Append(q, r)[Len(q) + 1] = r
OBVIOUS

LEMMA NextReport ==
  ASSUME NEW q \in Seq(Reports), q # <<>>
  PROVE  /\ Tail(q) \in Seq(Reports) /\ Head(q) \in Reports /\ Head(q) = q[1]
         /\ DOMAIN q = 1..Len(q) /\ DOMAIN Tail(q) = 1..(Len(q) - 1) /\ Len(q) \in Nat \ {0}
         /\ \A i \in DOMAIN Tail(q) : Tail(q)[i] = q[i + 1]
OBVIOUS

\* A report is added
LEMMA NewsAppend ==
  ASSUME NEW q \in Seq(Reports), NEW r \in Reports, NEW ts, NEW val
  PROVE  /\ \A t : Tells(ts, Append(q, r), t) <=> Tells(ts, q, t) \/ t \in DOMAIN r.val
         /\ \A t, v : \/ t \in DOMAIN r.val /\ r.val[t] = v
                      \/ t \notin DOMAIN r.val /\ LastSays(ts, val, q, t, v)
                      => LastSays(ts, val, Append(q, r), t, v)
         /\ \A t, v : \/ t \in DOMAIN r.val /\ r.val[t] # v
                      \/ TellsOther(ts, val, q, t, v)
                      => TellsOther(ts, val, Append(q, r), t, v)
         /\ Covers(ts, q) \/ WholeTags \subseteq DOMAIN r.val => Covers(ts, Append(q, r))
<1> DEFINE e == Append(q, r)
<1>1. /\ Len(q) \in Nat /\ DOMAIN q = 1..Len(q) /\ DOMAIN e = 1..(Len(q) + 1)
      /\ \A i \in DOMAIN q : e[i] = q[i]
      /\ e[Len(q) + 1] = r
  BY AddedReport
<1> HIDE DEF e
<1>a. /\ DOMAIN e = DOMAIN q \cup {Len(q) + 1} /\ Len(q) + 1 \notin DOMAIN q
      /\ \A i \in DOMAIN q : Len(q) + 1 > i
      /\ \A i \in DOMAIN q : ~(i > Len(q) + 1)
  BY <1>1
<1>2. \A t : Tells(ts, e, t) <=> Tells(ts, q, t) \/ t \in DOMAIN r.val
  BY <1>1, <1>a DEF Tells
<1>3. \A t, v : \/ t \in DOMAIN r.val /\ r.val[t] = v
                \/ t \notin DOMAIN r.val /\ LastSays(ts, val, q, t, v)
                => LastSays(ts, val, e, t, v)
  <2>1. ASSUME NEW t, NEW v, t \in DOMAIN r.val, r.val[t] = v
        PROVE  LastSays(ts, val, e, t, v)
    <3>1. \A i \in DOMAIN e : ~(i > Len(q) + 1)
      BY <1>1
    <3>2. Len(q) + 1 \in DOMAIN e /\ t \in DOMAIN e[Len(q) + 1].val /\ e[Len(q) + 1].val[t] = v
      BY <1>1, <1>a, <2>1
    <3> QED BY <3>1, <3>2 DEF LastSays
  <2>2. ASSUME NEW t, NEW v, t \notin DOMAIN r.val, LastSays(ts, val, q, t, v)
        PROVE  LastSays(ts, val, e, t, v)
    <3>1. CASE t \in ts /\ val[t] = v /\ \A i \in DOMAIN q : t \notin DOMAIN q[i].val
      <4>1. \A i \in DOMAIN e : t \notin DOMAIN e[i].val
        BY <1>1, <1>a, <2>2, <3>1
      <4> QED BY <3>1, <4>1 DEF LastSays
    <3>2. CASE \E k \in DOMAIN q : /\ t \in DOMAIN q[k].val /\ q[k].val[t] = v
                                   /\ \A i \in DOMAIN q : i > k => t \notin DOMAIN q[i].val
      <4>1. PICK k \in DOMAIN q : /\ t \in DOMAIN q[k].val /\ q[k].val[t] = v
                                  /\ \A i \in DOMAIN q : i > k => t \notin DOMAIN q[i].val
        BY <3>2
      <4>2. k \in DOMAIN e /\ t \in DOMAIN e[k].val /\ e[k].val[t] = v
        BY <1>1, <1>a, <4>1
      <4>3. \A i \in DOMAIN e : i > k => t \notin DOMAIN e[i].val
        BY <1>1, <1>a, <2>2, <4>1
      <4> QED BY <4>2, <4>3 DEF LastSays
    <3> QED BY <2>2, <3>1, <3>2 DEF LastSays
  <2> QED BY <2>1, <2>2
<1>4. \A t, v : \/ t \in DOMAIN r.val /\ r.val[t] # v
                \/ TellsOther(ts, val, q, t, v)
                => TellsOther(ts, val, e, t, v)
  BY <1>1, <1>a DEF TellsOther
<1>5. Covers(ts, q) \/ WholeTags \subseteq DOMAIN r.val => Covers(ts, e)
  BY <1>1, <1>a DEF Covers
<1> QED BY <1>2, <1>3, <1>4, <1>5 DEF e

\* The first report comes to the front: its tags are those that are left.
LEMMA NewsBegin ==
  ASSUME NEW q \in Seq(Reports), q # <<>>, NEW ts, NEW val,
         val = Head(q).val, ts = DOMAIN val
  PROVE  /\ \A t : Tells(ts, Tail(q), t) <=> Tells({}, q, t)
         /\ \A t, v : LastSays({}, <<>>, q, t, v) => LastSays(ts, val, Tail(q), t, v)
         /\ \A t, v : TellsOther({}, <<>>, q, t, v) => TellsOther(ts, val, Tail(q), t, v)
         /\ Covers({}, q) => Covers(ts, Tail(q))
<1> DEFINE e == Tail(q)
<1>1. /\ val = q[1].val /\ DOMAIN q = 1..Len(q) /\ DOMAIN e = 1..(Len(q) - 1)
      /\ Len(q) \in Nat \ {0} /\ \A i \in DOMAIN e : e[i] = q[i + 1]
  BY NextReport
<1> HIDE DEF e
<1>a. /\ \A i \in DOMAIN q : i = 1 \/ (i - 1 \in DOMAIN e /\ e[i - 1] = q[i])
      /\ 1 \in DOMAIN q /\ \A i \in DOMAIN e : i + 1 \in DOMAIN q /\ i + 1 # 1
  BY <1>1
<1>2. ASSUME NEW t PROVE Tells(ts, e, t) <=> Tells({}, q, t)
  <2>1. ASSUME Tells(ts, e, t) PROVE Tells({}, q, t)
    BY <1>1, <1>a, <2>1 DEF Tells
  <2>2. ASSUME Tells({}, q, t) PROVE Tells(ts, e, t)
    <3>1. PICK i \in DOMAIN q : t \in DOMAIN q[i].val
      BY <2>2 DEF Tells
    <3>2. CASE i = 1
      BY <1>1, <3>1, <3>2 DEF Tells
    <3>3. CASE i # 1
      BY <1>a, <3>1, <3>3 DEF Tells
    <3> QED BY <3>2, <3>3
  <2> QED BY <2>1, <2>2 DEF Tells
<1>3. ASSUME NEW t, NEW v, LastSays({}, <<>>, q, t, v) PROVE LastSays(ts, val, e, t, v)
  <2>1. PICK k \in DOMAIN q : /\ t \in DOMAIN q[k].val /\ q[k].val[t] = v
                              /\ \A i \in DOMAIN q : i > k => t \notin DOMAIN q[i].val
    BY <1>3 DEF LastSays
  <2>2. CASE k = 1
    <3>1. \A i \in DOMAIN e : t \notin DOMAIN e[i].val
      BY <1>1, <1>a, <2>1, <2>2
    <3> QED BY <1>1, <2>1, <2>2, <3>1 DEF LastSays
  <2>3. CASE k # 1
    <3>1. k - 1 \in DOMAIN e /\ e[k - 1] = q[k]
      BY <1>a, <2>3
    <3>2. \A i \in DOMAIN e : i > k - 1 => t \notin DOMAIN e[i].val
      <4> SUFFICES ASSUME NEW i \in DOMAIN e, i > k - 1 PROVE t \notin DOMAIN e[i].val
        OBVIOUS
      <4>1. i + 1 \in DOMAIN q /\ i + 1 > k /\ e[i] = q[i + 1]
        BY <1>1
      <4> QED BY <2>1, <4>1
    <3> QED BY <2>1, <3>1, <3>2 DEF LastSays
  <2> QED BY <2>2, <2>3
<1>4. ASSUME NEW t, NEW v, TellsOther({}, <<>>, q, t, v) PROVE TellsOther(ts, val, e, t, v)
  <2>1. PICK i \in DOMAIN q : t \in DOMAIN q[i].val /\ q[i].val[t] # v
    BY <1>4 DEF TellsOther
  <2>2. CASE i = 1
    BY <1>1, <2>1, <2>2 DEF TellsOther
  <2>3. CASE i # 1
    BY <1>a, <2>1, <2>3 DEF TellsOther
  <2> QED BY <2>2, <2>3
<1>5. ASSUME Covers({}, q) PROVE Covers(ts, e)
  <2>1. PICK i \in DOMAIN q : WholeTags \subseteq DOMAIN q[i].val
    BY <1>5 DEF Covers, WholeTags
  <2>2. CASE i = 1
    BY <1>1, <2>1, <2>2 DEF Covers
  <2>3. CASE i # 1
    BY <1>a, <2>1, <2>3 DEF Covers
  <2> QED BY <2>2, <2>3
<1> QED BY <1>2, <1>3, <1>4, <1>5 DEF e

\* A tag of it has been handled.
LEMMA NewsHandled ==
  ASSUME NEW q, NEW ts, NEW val, NEW t \in ts
  PROVE  /\ \A u : u # t => (Tells(ts \ {t}, q, u) <=> Tells(ts, q, u))
         /\ Tells(ts, q, t)
         /\ \A u, v : u # t /\ LastSays(ts, val, q, u, v) => LastSays(ts \ {t}, val, q, u, v)
         /\ \A u, v : u # t /\ TellsOther(ts, val, q, u, v)
                      => TellsOther(ts \ {t}, val, q, u, v)
         /\ \A v : LastSays(ts, val, q, t, v)
                   => \/ val[t] = v /\ ~Tells(ts \ {t}, q, t)
                      \/ LastSays(ts \ {t}, val, q, t, v)
         /\ \A v : TellsOther(ts, val, q, t, v) /\ val[t] = v
                   => TellsOther(ts \ {t}, val, q, t, v)
         /\ Covers(ts, q) => \/ Covers(ts \ {t}, q)
                             \/ t \in WholeTags /\ WholeTags \subseteq ts
<1>1. \A u : u # t => (Tells(ts \ {t}, q, u) <=> Tells(ts, q, u))
  BY DEF Tells
<1>2. Tells(ts, q, t)
  BY DEF Tells
<1>3. \A u, v : u # t /\ LastSays(ts, val, q, u, v) => LastSays(ts \ {t}, val, q, u, v)
  BY DEF LastSays
<1>4. \A u, v : u # t /\ TellsOther(ts, val, q, u, v) => TellsOther(ts \ {t}, val, q, u, v)
  BY DEF TellsOther
<1>5. \A v : LastSays(ts, val, q, t, v)
             => \/ val[t] = v /\ ~Tells(ts \ {t}, q, t)
                \/ LastSays(ts \ {t}, val, q, t, v)
  BY DEF LastSays, Tells
<1>6. \A v : TellsOther(ts, val, q, t, v) /\ val[t] = v => TellsOther(ts \ {t}, val, q, t, v)
  BY DEF TellsOther
<1>7. Covers(ts, q) => \/ Covers(ts \ {t}, q)
                       \/ t \in WholeTags /\ WholeTags \subseteq ts
  BY DEF Covers
<1> QED BY <1>1, <1>2, <1>3, <1>4, <1>5, <1>6, <1>7

\* What the three ways in which reports speak of a tag have to do with each other.
LEMMA NewsRelate ==
  ASSUME NEW q, NEW ts, NEW val, NEW t
  PROVE  /\ \A v : LastSays(ts, val, q, t, v) => Tells(ts, q, t)
         /\ \A v, w : LastSays(ts, val, q, t, v) /\ v # w => TellsOther(ts, val, q, t, w)
         /\ t \in WholeTags /\ Covers(ts, q) => Tells(ts, q, t)
         /\ t \in ts => Tells(ts, q, t)
BY DEF LastSays, Tells, TellsOther, Covers

-----------------------------------------------------------------------------
(* What keeps a handler in step: it depends on some fields of the handler  *)
(* only, not on how a report is split, and commands that are added and     *)
(* overwrite none do not disturb it.                                       *)

\* InStep does not depend on what the handler has published of its mode, nor on its
\* query interval.
LEMMA SameHandler ==
  ASSUME NEW h, NEW k, NEW m, NEW d, NEW ts, NEW val, NEW q,
         k.power = h.power, k.mode = h.mode, k.run = h.run, k.powerPrev = h.powerPrev,
         k.modePrev = h.modePrev, k.memory = h.memory, k.shownAction = h.shownAction,
         InStep(h, m, d, ts, val, q)
  PROVE  InStep(k, m, d, ts, val, q)
<1>1. ClimateInStep(k, m, d, ts, val, q)
  BY DEF InStep, ClimateInStep, Stored, Seen, ModeIsKnown, RunIsKnown, PowerIsSeen,
         ModeIsSeen, PowerAhead, ModeAhead, SeenFits, ActionFollows, PowerTurns, ModeTurns,
         SeenAction
<1>2. \A s \in Switches : SettingInStep(k, m, d, ts, val, q, s)
  BY DEF InStep, SettingInStep, SettingFollows, Believed, PowerTurns, ModeTurns
<1> QED BY <1>1, <1>2 DEF InStep

\* Other news that tell no less leave it in step.
LEMMA SameNews ==
  ASSUME NEW h, NEW m, NEW d, NEW ts, NEW val, NEW q, NEW ts2, NEW val2, NEW q2,
         \A t \in Tags : /\ Tells(ts2, q2, t) <=> Tells(ts, q, t)
                         /\ \A v : LastSays(ts, val, q, t, v) => LastSays(ts2, val2, q2, t, v)
                         /\ \A v : TellsOther(ts, val, q, t, v)
                                   => TellsOther(ts2, val2, q2, t, v),
         Covers(ts, q) => Covers(ts2, q2),
         InStep(h, m, d, ts, val, q)
  PROVE  InStep(h, m, d, ts2, val2, q2)
<1>0. "power" \in Tags /\ "mode" \in Tags /\ "run" \in Tags /\ Switches \subseteq Tags
  BY DEF Tags
<1>1. Stored(h, m, d, ts2, val2, q2)
  BY <1>0 DEF InStep, ClimateInStep, Stored, ReportsAreTrue, ModeIsKnown, RunIsKnown
<1>2. PowerTurns(h, d, ts, val, q) => PowerTurns(h, d, ts2, val2, q2)
  BY <1>0 DEF PowerTurns
<1>3. ModeTurns(h, m, d, ts, val, q) => ModeTurns(h, m, d, ts2, val2, q2)
  BY <1>0 DEF ModeTurns
<1>4. ASSUME h.powerPrev # "unset" PROVE Seen(h, m, d, ts2, val2, q2)
  <2>0. Seen(h, m, d, ts, val, q)
    BY <1>4 DEF InStep, ClimateInStep
  <2>1. PowerIsSeen(h, m, ts2, val2, q2) /\ ModeIsSeen(h, m, d, ts2, val2, q2)
    BY <1>0, <2>0 DEF Seen, PowerIsSeen, ModeIsSeen
  <2>2. /\ PowerAhead(h, d, ts2, val2, q2) /\ ModeAhead(h, m, d, ts2, val2, q2)
        /\ SeenFits(h, d, ts2, val2, q2)
    BY <1>2, <1>3, <2>0 DEF Seen, PowerAhead, ModeAhead, SeenFits
  <2>3. ActionFollows(h, m, d, ts2, val2, q2)
    BY <1>0, <1>2, <1>3, <2>0 DEF Seen, ActionFollows
  <2> QED BY <2>1, <2>2, <2>3 DEF Seen
<1>5. \A s \in Switches : SettingInStep(h, m, d, ts2, val2, q2, s)
  BY <1>0, <1>2, <1>3 DEF InStep, SettingInStep, SettingFollows
<1> QED BY <1>1, <1>4, <1>5 DEF InStep, ClimateInStep

\* A report is begun: it is the frame that is being handled.  It ends when all its tags
\* have been.
LEMMA InStepBegin ==
  ASSUME NEW h, NEW m, NEW d, NEW q \in Seq(Reports), q # <<>>, NEW ts, NEW val,
         val = Head(q).val, ts = DOMAIN val,
         InStep(h, m, d, {}, <<>>, q)
  PROVE  InStep(h, m, d, ts, val, Tail(q))
<1>1. /\ \A t : Tells(ts, Tail(q), t) <=> Tells({}, q, t)
      /\ \A t, v : LastSays({}, <<>>, q, t, v) => LastSays(ts, val, Tail(q), t, v)
      /\ \A t, v : TellsOther({}, <<>>, q, t, v) => TellsOther(ts, val, Tail(q), t, v)
      /\ Covers({}, q) => Covers(ts, Tail(q))
  BY NewsBegin
<1> QED BY <1>1, SameNews

\* What is left of a report when all its tags have been handled is no news.
LEMMA InStepEnd ==
  ASSUME NEW h, NEW m, NEW d, NEW q, NEW ts, NEW val, ts \cap Tags = {},
         InStep(h, m, d, ts, val, q)
  PROVE  InStep(h, m, d, {}, <<>>, q)
<1>1. \A t \in Tags : t \notin ts
  OBVIOUS
<1>2. ~(WholeTags \subseteq ts)
  BY <1>1 DEF WholeTags, Tags
<1>3. \A t \in Tags :
        /\ Tells({}, q, t) <=> Tells(ts, q, t)
        /\ \A v : LastSays(ts, val, q, t, v) => LastSays({}, <<>>, q, t, v)
        /\ \A v : TellsOther(ts, val, q, t, v) => TellsOther({}, <<>>, q, t, v)
  BY <1>1 DEF Tells, LastSays, TellsOther
<1>4. Covers(ts, q) => Covers({}, q)
  BY <1>2 DEF Covers
<1> QED BY <1>3, <1>4, SameNews

\* A command is added.
LEMMA ClimateKept ==
  ASSUME NEW h, NEW m, NEW d \in Seq(Cmds), NEW c \in Cmds, NEW ts, NEW val, NEW q,
         ClimateInStep(h, m, d, ts, val, q)
  PROVE  ClimateInStep(h, m, Append(d, c), ts, val, q)
<1> DEFINE e == Append(d, c)
<1>1. /\ \A p : PowerSent(d, p) => PowerSent(e, p)
      /\ \A mm : Brought(d, mm) => Brought(e, mm)
      /\ \A mm, now : Strays(d, mm, now) => Strays(e, mm, now)
  BY PowerSentAppend, BroughtAppend, StraysAppend
<1> HIDE DEF e
<1>2. Stored(h, m, e, ts, val, q)
  BY <1>1 DEF ClimateInStep, Stored, ModeIsKnown
<1>3. ASSUME h.powerPrev # "unset" PROVE Seen(h, m, e, ts, val, q)
  <2>0. Seen(h, m, d, ts, val, q)
    BY <1>3 DEF ClimateInStep
  <2>1. PowerTurns(h, d, ts, val, q) => PowerTurns(h, e, ts, val, q)
    BY <1>1 DEF PowerTurns
  <2>2. ModeTurns(h, m, d, ts, val, q) => ModeTurns(h, m, e, ts, val, q)
    BY <1>1 DEF ModeTurns
  <2>3. PowerIsSeen(h, m, ts, val, q) /\ ModeIsSeen(h, m, e, ts, val, q)
    BY <1>1, <2>0 DEF Seen, ModeIsSeen
  <2>4. /\ PowerAhead(h, e, ts, val, q) /\ ModeAhead(h, m, e, ts, val, q)
        /\ SeenFits(h, e, ts, val, q)
    BY <2>0, <2>1, <2>2 DEF Seen, PowerAhead, ModeAhead, SeenFits
  <2>5. ActionFollows(h, m, e, ts, val, q)
    BY <2>0, <2>1, <2>2 DEF Seen, ActionFollows
  <2> QED BY <2>3, <2>4, <2>5 DEF Seen
<1>4. ClimateInStep(h, m, e, ts, val, q)
  BY <1>2, <1>3 DEF ClimateInStep
<1> QED BY <1>4 DEF e

LEMMA SettingKept ==
  ASSUME NEW h, NEW m, NEW d \in Seq(Cmds), NEW c \in Cmds, NEW ts, NEW val, NEW q, NEW s,
         SettingInStep(h, m, d, ts, val, q, s), ~IsSet(c, s)
  PROVE  SettingInStep(h, m, Append(d, c), ts, val, q, s)
<1> DEFINE e == Append(d, c)
<1>1. /\ \A p : PowerSent(d, p) => PowerSent(e, p)
      /\ \A mm, now : Strays(d, mm, now) => Strays(e, mm, now)
      /\ \A v, mm, now : SetTo(d, s, v, mm, now) => SetTo(e, s, v, mm, now)
  BY PowerSentAppend, StraysAppend, SetToAppend
<1> HIDE DEF e
<1>2. PowerTurns(h, d, ts, val, q) => PowerTurns(h, e, ts, val, q)
  BY <1>1 DEF PowerTurns
<1>3. ModeTurns(h, m, d, ts, val, q) => ModeTurns(h, m, e, ts, val, q)
  BY <1>1 DEF ModeTurns
<1>4. SettingFollows(h, m, d, ts, q, s) => SettingFollows(h, m, e, ts, q, s)
  BY <1>1 DEF SettingFollows
<1>5. SettingInStep(h, m, e, ts, val, q, s)
  BY <1>2, <1>3, <1>4 DEF SettingInStep
<1> QED BY <1>5 DEF e

LEMMA OtherCommandAdded ==
  ASSUME NEW h, NEW m, NEW d \in Seq(Cmds), NEW c \in Cmds, NEW ts, NEW val, NEW q,
         InStep(h, m, d, ts, val, q), c.cmd # "set"
  PROVE  InStep(h, m, Append(d, c), ts, val, q)
BY ClimateKept, SettingKept DEF InStep, IsSet

\* The command with which a handler sends what it remembers of a setting, if that
\* applies in the mode it has stored.
Resent(h, d, s) ==
  IF s \in Switches /\ h.power # "off" /\ h.mode \in ApplyModes[s]
  THEN Append(d, WriteCmd(s, Wire(s, h.memory[s], h.mode))) ELSE d

\* Jet is written as 1 in a mode that has it, which is then cooling.
LEMMA JetIsCool ==
  ASSUME NEW on, NEW x \in ApplyModes["jet"], Wire("jet", on, x) = 1
  PROVE  "cool" \in JetModes
<1>1. x \in JetModes
  BY DEF ApplyModes
<1>2. x # "heat"
  BY DEF Wire
<1> QED BY <1>1, <1>2, AirConditionerAssumption

\* What is written again is a command, and settles its setting.
LEMMA ResentIsCommands ==
  ASSUME NEW h \in Handlers, NEW d \in Seq(Cmds), NEW s
  PROVE  Resent(h, d, s) \in Seq(Cmds)
<1>1. CASE s \in Switches /\ h.power # "off" /\ h.mode \in ApplyModes[s]
  <2> DEFINE v == Wire(s, h.memory[s], h.mode)
  <2>1. v \in Values
    BY DEF Wire, Values
  <2>2. s = "jet" /\ v = 1 => "cool" \in JetModes
    BY <1>1, JetIsCool
  <2> HIDE DEF v
  <2>3. WriteCmd(s, v) \in Sets
    BY <1>1, <2>1, <2>2 DEF WriteCmd, Sets
  <2>4. WriteCmd(s, v) \in Cmds
    BY <2>3 DEF Cmds
  <2>5. Resent(h, d, s) = Append(d, WriteCmd(s, v))
    BY <1>1 DEF Resent, v
  <2> QED BY <2>4, <2>5
<1>2. CASE ~(s \in Switches /\ h.power # "off" /\ h.mode \in ApplyModes[s])
  BY <1>2 DEF Resent
<1> QED BY <1>1, <1>2

\* After that the setting is in step, and what was in step stays so.  It is sent unless
\* power or mode is about to turn; and it finds the machine in that mode unless the
\* mode is.
LEMMA ResentInStep ==
  ASSUME NEW h \in Handlers, NEW m \in Machines, NEW d \in Seq(Cmds), NEW ts, NEW val, NEW q,
         NEW s, h.mode \in Modes,
         ClimateInStep(h, m, d, ts, val, q)
  PROVE  /\ ClimateInStep(h, m, Resent(h, d, s), ts, val, q)
         /\ s \in Switches => SettingInStep(h, m, Resent(h, d, s), ts, val, q, s)
         /\ \A u \in Switches \ {s} : SettingInStep(h, m, d, ts, val, q, u)
                                     => SettingInStep(h, m, Resent(h, d, s), ts, val, q, u)
<1>1. CASE s \in Switches /\ h.power # "off" /\ h.mode \in ApplyModes[s]
  <2> DEFINE v == Wire(s, h.memory[s], h.mode)
             c == WriteCmd(s, v)
             e == Append(d, c)
  <2>1. Resent(h, d, s) = e
    BY <1>1 DEF Resent
  <2>2. c \in Cmds
    <3>1. v \in Values
      BY DEF Wire, Values
    <3>2. s = "jet" /\ v = 1 => "cool" \in JetModes
      BY <1>1, JetIsCool
    <3> HIDE DEF v
    <3>3. WriteCmd(s, v) \in Sets
      BY <1>1, <3>1, <3>2 DEF WriteCmd, Sets
    <3> QED BY <3>3 DEF Cmds
  <2>3. c.cmd = "set" /\ c.setting = s /\ c.value = v
    BY DEF WriteCmd
  <2> HIDE DEF c
  <2>4. ClimateInStep(h, m, e, ts, val, q)
    BY <2>2, ClimateKept
  <2>5. \A u \in Switches \ {s} : SettingInStep(h, m, d, ts, val, q, u)
                                  => SettingInStep(h, m, e, ts, val, q, u)
    BY <2>2, <2>3, SettingKept DEF IsSet
  <2>6. SettingInStep(h, m, e, ts, val, q, s)
    <3> SUFFICES ASSUME Believed(h, s), ~PowerTurns(h, e, ts, val, q), ~Covers(ts, q),
                        ~(Modal(s) /\ ModeTurns(h, m, e, ts, val, q))
                 PROVE  SetTo(e, s, Wire(s, h.memory[s], h.modePrev), h.modePrev, m.mode)
      BY DEF SettingInStep, SettingFollows
    <3>0. Seen(h, m, e, ts, val, q)
      BY <2>4 DEF ClimateInStep, Believed
    <3>1. Modal(s) => h.modePrev \in Modes
      BY <1>1, AirConditionerAssumption DEF Believed, Modal, ApplyModes, Handlers
    <3>2. Modal(s) => h.mode = h.modePrev
      BY <3>0, <3>1 DEF Seen, ModeAhead
    <3>3. v = Wire(s, h.memory[s], h.modePrev)
      BY <3>2 DEF Wire, Modal
    <3>4. Seen(h, m, d, ts, val, q)
      BY DEF ClimateInStep, Believed
    <3>5. TellsOther(ts, val, q, "mode", h.modePrev) /\ h.modePrev \in Modes
          => ModeTurns(h, m, e, ts, val, q)
      BY DEF ModeTurns
    <3>6. Modal(s) => m.mode = h.modePrev \/ Brought(d, h.modePrev)
      BY <3>1, <3>4, <3>5 DEF Seen, ModeIsSeen
    <3> HIDE DEF v
    <3> QED BY <2>2, <2>3, <3>3, <3>6, SetToAppend DEF IsSet
  <2> QED BY <2>1, <2>4, <2>5, <2>6
<1>2. CASE ~(s \in Switches /\ h.power # "off" /\ h.mode \in ApplyModes[s])
  <2>1. Resent(h, d, s) = d
    BY <1>2 DEF Resent
  <2>2. ASSUME s \in Switches PROVE SettingInStep(h, m, d, ts, val, q, s)
    <3> SUFFICES ASSUME Believed(h, s)
                 PROVE  \/ PowerTurns(h, d, ts, val, q) \/ Covers(ts, q)
                        \/ Modal(s) /\ ModeTurns(h, m, d, ts, val, q)
      BY DEF SettingInStep
    <3>0. Seen(h, m, d, ts, val, q)
      BY DEF ClimateInStep, Believed
    <3>1. CASE h.power = "off"
      BY <3>0, <3>1 DEF Seen, PowerAhead, Believed
    <3>2. CASE h.mode \notin ApplyModes[s]
      <4>1. Modal(s)
        BY <2>2, <3>2, AirConditionerAssumption DEF Modal, ApplyModes
      <4>2. h.modePrev \in Modes /\ h.mode # h.modePrev
        BY <2>2, <3>2, <4>1, AirConditionerAssumption DEF Believed, ApplyModes, Handlers
      <4> QED BY <3>0, <4>1, <4>2 DEF Seen, ModeAhead
    <3> QED BY <1>2, <2>2, <3>1, <3>2
  <2> QED BY <2>1, <2>2
<1> QED BY <1>1, <1>2

-----------------------------------------------------------------------------
(* The machine changes, by itself or by the command it takes, and tells.   *)

\* A report, if any, tells at least what has changed; and it tells what is so.
Told(m, m2, q, q2) ==
  \/ m2 = m /\ q2 = q
  \/ \E r \in Reports :
       /\ q2 = Append(q, r)
       /\ \A t \in Tags : IF t \in DOMAIN r.val THEN r.val[t] = TagValue(m2, t)
                          ELSE TagValue(m2, t) = TagValue(m, t)

Obeys(c, m, m2) ==
  /\ c.cmd = "power" => m2.power = c.power
  /\ \A mm : Brings(c, mm) => m2.mode = mm
  /\ c.cmd = "set" /\ m.power = "on" /\ m.mode \in ApplyModes[c.setting]
       /\ c.value \in {0, Wire(c.setting, TRUE, m.mode)}
     => m2.set[c.setting] = c.value
TakesFrom(m, m2, d, e) == e = d \/ (d # <<>> /\ e = Tail(d) /\ Obeys(Head(d), m, m2))

ModalEnd(m, m2) ==
  \A s \in Switches : Modal(s) /\ m2.mode # m.mode /\ m.set[s] # 0 => m2.set[s] = 0

\* What the reports tell stays true when the machine has told of its change.
LEMMA ToldNews ==
  ASSUME NEW m, NEW m2, NEW q \in Seq(Reports), NEW q2, Told(m, m2, q, q2),
         ReportsAreTrue(m, {}, <<>>, q)
  PROVE  /\ ReportsAreTrue(m2, {}, <<>>, q2)
         /\ \A t \in Tags : Tells({}, q, t) \/ TagValue(m2, t) # TagValue(m, t)
                            => Tells({}, q2, t)
         /\ \A t \in Tags : \A v : TellsOther({}, <<>>, q, t, v) => TellsOther({}, <<>>, q2, t, v)
         /\ \A t \in Tags : \A v : TagValue(m2, t) # TagValue(m, t) /\ TagValue(m2, t) # v
                               => TellsOther({}, <<>>, q2, t, v)
         /\ Covers({}, q) => Covers({}, q2)
<1>1. CASE m2 = m /\ q2 = q
  BY <1>1
<1>2. CASE \E r \in Reports :
             /\ q2 = Append(q, r)
             /\ \A t \in Tags : IF t \in DOMAIN r.val THEN r.val[t] = TagValue(m2, t)
                                ELSE TagValue(m2, t) = TagValue(m, t)
  <2>1. PICK r \in Reports :
             /\ q2 = Append(q, r)
             /\ \A t \in Tags : IF t \in DOMAIN r.val THEN r.val[t] = TagValue(m2, t)
                                ELSE TagValue(m2, t) = TagValue(m, t)
    BY <1>2
  <2>2. /\ \A t : Tells({}, q2, t) <=> Tells({}, q, t) \/ t \in DOMAIN r.val
        /\ \A t, v : \/ t \in DOMAIN r.val /\ r.val[t] = v
                     \/ t \notin DOMAIN r.val /\ LastSays({}, <<>>, q, t, v)
                     => LastSays({}, <<>>, q2, t, v)
        /\ \A t, v : \/ t \in DOMAIN r.val /\ r.val[t] # v
                     \/ TellsOther({}, <<>>, q, t, v)
                     => TellsOther({}, <<>>, q2, t, v)
        /\ Covers({}, q) \/ WholeTags \subseteq DOMAIN r.val => Covers({}, q2)
    BY <2>1, NewsAppend
  <2>3. ReportsAreTrue(m2, {}, <<>>, q2)
    BY <2>1, <2>2 DEF ReportsAreTrue
  <2> QED BY <2>1, <2>2, <2>3
<1> QED BY <1>1, <1>2 DEF Told

\* The tags of a machine.
LEMMA TagValues ==
  ASSUME NEW m
  PROVE  /\ TagValue(m, "power") = m.power /\ TagValue(m, "mode") = m.mode
         /\ TagValue(m, "run") = m.run
         /\ \A s \in Switches : TagValue(m, s) = m.set[s] /\ s \in Tags
         /\ "power" \in Tags /\ "mode" \in Tags /\ "run" \in Tags
BY AirConditionerAssumption DEF TagValue, Tags

\* What makes it inductive for a step of the machine: a change that the handler will
\* see stays one, and a setting that was to be written is written.
LEMMA MachineStep ==
  ASSUME NEW h \in Handlers, NEW m \in Machines, NEW m2 \in Machines,
         NEW d \in Seq(Cmds), NEW e, NEW q \in Seq(Reports), NEW q2,
         InStep(h, m, d, {}, <<>>, q),
         Told(m, m2, q, q2), TakesFrom(m, m2, d, e), ModalEnd(m, m2)
  PROVE  InStep(h, m2, e, {}, <<>>, q2)
<1>1. Stored(h, m, d, {}, <<>>, q)
  BY DEF InStep, ClimateInStep
<1>2. /\ ReportsAreTrue(m2, {}, <<>>, q2)
      /\ \A t \in Tags : Tells({}, q, t) \/ TagValue(m2, t) # TagValue(m, t) => Tells({}, q2, t)
      /\ \A t \in Tags : \A v : TellsOther({}, <<>>, q, t, v) => TellsOther({}, <<>>, q2, t, v)
      /\ \A t \in Tags : \A v : TagValue(m2, t) # TagValue(m, t) /\ TagValue(m2, t) # v
                            => TellsOther({}, <<>>, q2, t, v)
      /\ Covers({}, q) => Covers({}, q2)
  BY <1>1, ToldNews DEF Stored
<1>3. /\ TagValue(m, "power") = m.power /\ TagValue(m, "mode") = m.mode
      /\ TagValue(m, "run") = m.run
      /\ TagValue(m2, "power") = m2.power /\ TagValue(m2, "mode") = m2.mode
      /\ TagValue(m2, "run") = m2.run
      /\ \A s \in Switches : /\ TagValue(m, s) = m.set[s] /\ TagValue(m2, s) = m2.set[s]
                             /\ s \in Tags
      /\ "power" \in Tags /\ "mode" \in Tags /\ "run" \in Tags
  BY TagValues
<1>4. \A mm : Brought(d, mm) => Brought(e, mm) \/ m2.mode = mm
  BY BroughtTail DEF TakesFrom, Obeys
<1>5. Stored(h, m2, e, {}, <<>>, q2)
  <2>1. ModeIsKnown(h, m2, e, {}, q2)
    BY <1>1, <1>2, <1>3, <1>4 DEF Stored, ModeIsKnown
  <2>2. RunIsKnown(h, m2, {}, q2)
    BY <1>1, <1>2, <1>3 DEF Stored, RunIsKnown
  <2> QED BY <1>2, <2>1, <2>2 DEF Stored
<1>6. ASSUME h.powerPrev # "unset"
      PROVE  /\ Seen(h, m2, e, {}, <<>>, q2)
             /\ \A s \in Switches : SettingInStep(h, m2, e, {}, <<>>, q2, s)
  <2>0. Seen(h, m, d, {}, <<>>, q)
    BY <1>6 DEF InStep, ClimateInStep
  <2>1. PowerIsSeen(h, m2, {}, <<>>, q2)
    BY <1>2, <1>3, <2>0 DEF Seen, PowerIsSeen
  <2>2. ModeIsSeen(h, m2, e, {}, <<>>, q2)
    BY <1>2, <1>3, <1>4, <2>0 DEF Seen, ModeIsSeen
  <2>3. PowerTurns(h, d, {}, <<>>, q) => PowerTurns(h, e, {}, <<>>, q2)
    <3>1. PowerSent(d, h.powerPrev) => PowerSent(e, h.powerPrev) \/ m2.power # h.powerPrev
      BY PowerSentTail DEF TakesFrom, Obeys
    <3> QED BY <1>2, <1>3, <2>1, <3>1 DEF PowerTurns, PowerIsSeen
  <2>4. ModeTurns(h, m, d, {}, <<>>, q) => ModeTurns(h, m2, e, {}, <<>>, q2)
    <3> SUFFICES ASSUME h.modePrev \in Modes, Strays(d, h.modePrev, m.mode),
                        ~TellsOther({}, <<>>, q2, "mode", h.modePrev)
                 PROVE  Strays(e, h.modePrev, m2.mode)
      BY <1>2, <1>3 DEF ModeTurns
    <3>1. m2.mode = m.mode \/ m2.mode = h.modePrev
      BY <1>2, <1>3
    <3>2. CASE e = d
      <4>1. CASE m2.mode = m.mode
        BY <3>2, <4>1
      <4>2. CASE m2.mode = h.modePrev
        BY <3>2, <4>2 DEF Strays
      <4> QED BY <3>1, <4>1, <4>2
    <3>3. CASE d # <<>> /\ e = Tail(d) /\ Obeys(Head(d), m, m2)
      <4>1. \/ m.mode = h.modePrev /\ \E x \in Modes \ {h.modePrev} : Brings(Head(d), x)
            \/ (m.mode = h.modePrev \/ Brings(Head(d), h.modePrev))
                 /\ Strays(e, h.modePrev, h.modePrev)
            \/ Strays(e, h.modePrev, m2.mode)
        BY <3>3, StraysTail
      <4>2. CASE m.mode = h.modePrev /\ \E x \in Modes \ {h.modePrev} : Brings(Head(d), x)
        BY <3>1, <3>3, <4>2 DEF Obeys
      <4>3. CASE (m.mode = h.modePrev \/ Brings(Head(d), h.modePrev))
                   /\ Strays(e, h.modePrev, h.modePrev)
        <5>1. m2.mode = h.modePrev
          BY <3>1, <3>3, <4>3 DEF Obeys
        <5> QED BY <4>3, <5>1
      <4> QED BY <4>1, <4>2, <4>3
    <3> QED BY <3>2, <3>3 DEF TakesFrom
  <2>5. /\ PowerAhead(h, e, {}, <<>>, q2) /\ ModeAhead(h, m2, e, {}, <<>>, q2)
        /\ SeenFits(h, e, {}, <<>>, q2)
    BY <1>2, <2>0, <2>3, <2>4 DEF Seen, PowerAhead, ModeAhead, SeenFits
  <2>6. ActionFollows(h, m2, e, {}, <<>>, q2)
    BY <1>2, <1>3, <2>0, <2>3, <2>4 DEF Seen, ActionFollows
  <2>7. \A s \in Switches : SettingInStep(h, m2, e, {}, <<>>, q2, s)
    <3> SUFFICES ASSUME NEW s \in Switches, Believed(h, s),
                        ~PowerTurns(h, e, {}, <<>>, q2), ~Covers({}, q2),
                        ~(Modal(s) /\ ModeTurns(h, m2, e, {}, <<>>, q2)),
                        ~Tells({}, q2, s)
                 PROVE  \/ h.memory[s] = (m2.set[s] # 0)
                        \/ SetTo(e, s, Wire(s, h.memory[s], h.modePrev), h.modePrev, m2.mode)
                        \/ Modal(s) /\ m2.set[s] # 0 /\ m2.mode # h.modePrev
      BY DEF SettingInStep, SettingFollows
    <3>1. m2.set[s] = m.set[s] /\ ~Tells({}, q, s)
      BY <1>2, <1>3
    <3>2. SettingFollows(h, m, d, {}, q, s)
      BY <1>2, <2>3, <2>4 DEF InStep, SettingInStep
    <3>3. m.power = "on"
      <4>1. m.power # "on" => TellsOther({}, <<>>, q, "power", h.powerPrev)
        BY <2>0 DEF Seen, PowerIsSeen, Believed
      <4> QED BY <1>2, <1>3, <4>1 DEF PowerTurns
    <3>4. Modal(s) /\ m2.mode # m.mode => m.set[s] = 0
      BY <3>1 DEF ModalEnd
    <3>5. Modal(s) => h.modePrev \in Modes /\ h.modePrev \in ApplyModes[s]
      BY AirConditionerAssumption DEF Believed, Modal, ApplyModes, Handlers
    <3>6. Modal(s) => m2.mode = m.mode \/ m2.mode = h.modePrev
      BY <1>2, <1>3, <3>5 DEF ModeTurns
    <3>7. CASE h.memory[s] = (m.set[s] # 0)
      BY <3>1, <3>7
    <3>8. CASE Modal(s) /\ m.set[s] # 0 /\ m.mode # h.modePrev
      BY <3>1, <3>4, <3>8
    <3>9. CASE SetTo(d, s, Wire(s, h.memory[s], h.modePrev), h.modePrev, m.mode)
      <4> DEFINE v == Wire(s, h.memory[s], h.modePrev)
      <4>1. CASE e = d
        <5>1. Modal(s) => m2.mode = m.mode \/ m2.mode = h.modePrev
          BY <3>6
        <5> QED BY <3>9, <4>1, <5>1 DEF SetTo
      <4>2. CASE d # <<>> /\ e = Tail(d) /\ Obeys(Head(d), m, m2)
        <5>1. \/ IsSet(Head(d), s) /\ Head(d).value = v /\ (~Modal(s) \/ m.mode = h.modePrev)
              \/ (m.mode = h.modePrev \/ Brings(Head(d), h.modePrev))
                   /\ SetTo(e, s, v, h.modePrev, h.modePrev)
              \/ SetTo(e, s, v, h.modePrev, m2.mode)
          BY <3>9, <4>2, SetToTail
        <5>2. CASE IsSet(Head(d), s) /\ Head(d).value = v /\ (~Modal(s) \/ m.mode = h.modePrev)
          <6>1. m.mode \in ApplyModes[s]
            BY <3>5, <5>2, AirConditionerAssumption DEF Modal, ApplyModes, Machines
          <6>2. v \in {0, Wire(s, TRUE, m.mode)}
            BY <5>2 DEF Wire, Modal
          <6>3. m2.set[s] = v
            BY <3>3, <4>2, <5>2, <6>1, <6>2 DEF Obeys, IsSet
          <6>4. h.memory[s] = (v # 0)
            BY DEF Wire, Handlers
          <6> QED BY <6>3, <6>4
        <5>3. CASE (m.mode = h.modePrev \/ Brings(Head(d), h.modePrev))
                     /\ SetTo(e, s, v, h.modePrev, h.modePrev)
          <6>1. CASE Modal(s)
            <7>1. m2.mode = h.modePrev
              BY <3>6, <4>2, <5>3, <6>1 DEF Obeys
            <7> QED BY <5>3, <7>1
          <6>2. CASE ~Modal(s)
            BY <5>3, <6>2 DEF SetTo
          <6> QED BY <6>1, <6>2
        <5> QED BY <5>1, <5>2, <5>3
      <4> QED BY <4>1, <4>2 DEF TakesFrom
    <3> QED BY <3>1, <3>2, <3>7, <3>8, <3>9 DEF SettingFollows
  <2> QED BY <2>1, <2>2, <2>5, <2>6, <2>7 DEF Seen
<1>7. h.powerPrev = "unset" => \A s \in Switches : SettingInStep(h, m2, e, {}, <<>>, q2, s)
  BY DEF SettingInStep, Believed
<1> QED BY <1>5, <1>6, <1>7 DEF InStep, ClimateInStep

-----------------------------------------------------------------------------
(* What the steps of the handler make of its fields.  b are the commands   *)
(* that were under way before the report came.                             *)

Polled(h) == h.shownAction \in Active => h.every = "fast" /\ ~h.slow
Shown(h) == IF h.power = "off" THEN "off" ELSE h.mode

\* Commands are sent one after another.
LEMMA Sending ==
  ASSUME NEW b \in Seq(Cmds), NEW o \in Seq(Cmds), NEW c \in Cmds
  PROVE  b \o Append(o, c) = Append(b \o o, c) /\ b \o o \in Seq(Cmds)
OBVIOUS

LEMMA QueryIsCommand == Ask("query") \in Cmds /\ Ask("query").cmd = "query"
<1>1. Ask("query") \in Plain
  BY DEF Ask, Plain
<1> QED BY <1>1 DEF Cmds, Ask

\* setProperty of a switch, and the hooks that write one again.
LEMMA WrittenFields ==
  ASSUME NEW h \in Handlers, NEW s \in Switches, NEW on \in BOOLEAN, NEW b \in Seq(Cmds),
         NEW k, k = WriteSetting(h, s, on)
  PROVE  /\ k \in Handlers
         /\ k.power = h.power /\ k.mode = h.mode /\ k.run = h.run
         /\ k.powerPrev = h.powerPrev /\ k.modePrev = h.modePrev
         /\ k.shownMode = h.shownMode /\ k.shownAction = h.shownAction
         /\ k.every = h.every /\ k.slow = h.slow /\ k.late = h.late
         /\ k.memory = [h.memory EXCEPT ![s] = on]
         /\ b \o k.out = Resent(k, b \o h.out, s)
<1> DEFINE mm == [h.memory EXCEPT ![s] = on]
           c == WriteCmd(s, Wire(s, on, h.mode))
           o == IF h.power # "off" /\ h.mode \in ApplyModes[s] THEN Append(h.out, c) ELSE h.out
<1>1. mm \in [Switches -> BOOLEAN] /\ mm[s] = on
  BY DEF Handlers
<1>2. h.mode \in ApplyModes[s] => c \in Cmds
  <2> SUFFICES ASSUME h.mode \in ApplyModes[s] PROVE c \in Cmds
    OBVIOUS
  <2> DEFINE v == Wire(s, on, h.mode)
  <2>1. v \in Values
    BY DEF Wire, Values
  <2>2. s = "jet" /\ v = 1 => "cool" \in JetModes
    BY JetIsCool
  <2> HIDE DEF v
  <2>3. WriteCmd(s, v) \in Sets
    BY <2>1, <2>2 DEF WriteCmd, Sets
  <2> QED BY <2>3 DEF Cmds, v
<1>3. k = [h EXCEPT !.memory = mm, !.out = o]
  BY DEF WriteSetting, Handlers
<1> HIDE DEF c
<1>4. o \in Seq(Cmds) /\ h.out \in Seq(Cmds)
  BY <1>2 DEF Handlers
<1> HIDE DEF mm, o
<1>5. /\ k \in Handlers
      /\ k.power = h.power /\ k.mode = h.mode /\ k.run = h.run
      /\ k.powerPrev = h.powerPrev /\ k.modePrev = h.modePrev
      /\ k.shownMode = h.shownMode /\ k.shownAction = h.shownAction
      /\ k.every = h.every /\ k.slow = h.slow /\ k.late = h.late
      /\ k.memory = mm /\ k.out = o
  BY <1>1, <1>3, <1>4 DEF Handlers
<1>6. b \o k.out = Resent(k, b \o h.out, s)
  <2>1. CASE h.power # "off" /\ h.mode \in ApplyModes[s]
    <3>1. k.out = Append(h.out, c)
      BY <1>5, <2>1 DEF o
    <3>2. Resent(k, b \o h.out, s) = Append(b \o h.out, c)
      BY <1>1, <1>5, <2>1 DEF Resent, c
    <3>3. b \o Append(h.out, c) = Append(b \o h.out, c)
      BY <1>2, <1>4, <2>1, Sending
    <3> QED BY <3>1, <3>2, <3>3
  <2>2. CASE ~(h.power # "off" /\ h.mode \in ApplyModes[s])
    BY <1>5, <2>2 DEF Resent, o
  <2> QED BY <2>1, <2>2
<1> QED BY <1>5, <1>6 DEF mm

\* Rewriting a setting changes nothing but what is sent.
LEMMA RewrittenFields ==
  ASSUME NEW h \in Handlers, NEW s, NEW b \in Seq(Cmds), NEW k, k = Rewrite(h, s)
  PROVE  /\ k \in Handlers
         /\ k.power = h.power /\ k.mode = h.mode /\ k.run = h.run
         /\ k.powerPrev = h.powerPrev /\ k.modePrev = h.modePrev
         /\ k.shownMode = h.shownMode /\ k.shownAction = h.shownAction
         /\ k.every = h.every /\ k.slow = h.slow /\ k.late = h.late
         /\ k.memory = h.memory
         /\ b \o k.out = Resent(h, b \o h.out, s)
<1>1. CASE s \in Switches
  <2> DEFINE on == h.memory[s]
  <2>1. on \in BOOLEAN /\ [h.memory EXCEPT ![s] = on] = h.memory
    BY <1>1 DEF Handlers
  <2>2. k = WriteSetting(h, s, on)
    BY <1>1 DEF Rewrite
  <2> HIDE DEF on
  <2>3. /\ k \in Handlers
        /\ k.power = h.power /\ k.mode = h.mode /\ k.run = h.run
        /\ k.powerPrev = h.powerPrev /\ k.modePrev = h.modePrev
        /\ k.shownMode = h.shownMode /\ k.shownAction = h.shownAction
        /\ k.every = h.every /\ k.slow = h.slow /\ k.late = h.late
        /\ k.memory = h.memory
        /\ b \o k.out = Resent(k, b \o h.out, s)
    <3>1. /\ k \in Handlers
          /\ k.power = h.power /\ k.mode = h.mode /\ k.run = h.run
          /\ k.powerPrev = h.powerPrev /\ k.modePrev = h.modePrev
          /\ k.shownMode = h.shownMode /\ k.shownAction = h.shownAction
          /\ k.every = h.every /\ k.slow = h.slow /\ k.late = h.late
          /\ k.memory = [h.memory EXCEPT ![s] = on]
          /\ b \o k.out = Resent(k, b \o h.out, s)
      BY <1>1, <2>1, <2>2, WrittenFields
    <3> QED BY <2>1, <3>1
  <2>4. Resent(k, b \o h.out, s) = Resent(h, b \o h.out, s)
    BY <2>3 DEF Resent
  <2> QED BY <2>3, <2>4
<1>2. CASE s \notin Switches
  BY <1>2 DEF Rewrite, Resent
<1> QED BY <1>1, <1>2

\* updateClimateAction: the action is that of power, mode and run, the query interval
\* follows it, and it may ask at once.
LEMMA ActionIsAction ==
  ASSUME NEW p \in OnOff \cup {"unset"}, NEW x \in Modes, NEW r \in BOOLEAN
  PROVE  ActionOf(p, x, r) \in Actions
<1>1. x \in {"cool", "dry", "fan", "heat", "auto"}
  BY AirConditionerAssumption
<1>2. CASE p = "off"
  BY <1>2 DEF ActionOf, Actions
<1>3. CASE p # "off" /\ x \in {"cool", "dry", "heat", "auto"} /\ ~r
  BY <1>3 DEF ActionOf, Actions
<1>4. CASE p # "off" /\ ~(x \in {"cool", "dry", "heat", "auto"} /\ ~r)
  BY <1>1, <1>4 DEF ActionOf, Actions
<1> QED BY <1>2, <1>3, <1>4

\* Sent, or sent and then asked for the values.
Asked(d, e) == e = d \/ e = Append(d, Ask("query"))

LEMMA UpdatedFields ==
  ASSUME NEW h \in Handlers, h.mode \in Modes, NEW b \in Seq(Cmds),
         NEW k, k = UpdateClimateAction(h)
  PROVE  /\ k \in Handlers
         /\ k.power = h.power /\ k.mode = h.mode /\ k.run = h.run
         /\ k.powerPrev = h.powerPrev /\ k.modePrev = h.modePrev
         /\ k.shownMode = h.shownMode /\ k.memory = h.memory
         /\ k.shownAction = ActionOf(h.power, h.mode, h.run)
         /\ Polled(k)
         /\ Asked(b \o h.out, b \o k.out)
<1> DEFINE a == ActionOf(h.power, h.mode, h.run)
           g == [h EXCEPT !.shownAction = a]
<1>1. a \in Actions
  BY ActionIsAction DEF Handlers
<1>2. k = UpdateQueryInterval(g, a \in Active)
  BY DEF UpdateClimateAction
<1> HIDE DEF a
<1>3. /\ g \in Handlers
      /\ g.power = h.power /\ g.mode = h.mode /\ g.run = h.run
      /\ g.powerPrev = h.powerPrev /\ g.modePrev = h.modePrev
      /\ g.shownMode = h.shownMode /\ g.memory = h.memory
      /\ g.shownAction = a /\ g.out = h.out
  BY <1>1 DEF Handlers
<1> HIDE DEF g
<1>4. CASE a \in Active
  <2> DEFINE o == IF g.every # "fast" /\ g.late THEN Append(g.out, Ask("query")) ELSE g.out
         f == [g EXCEPT !.slow = FALSE, !.every = "fast"]
  <2>1. k = [f EXCEPT !.late = FALSE, !.out = o]
    BY <1>2, <1>3, <1>4 DEF UpdateQueryInterval, Handlers
  <2>2. g.out \in Seq(Cmds) /\ o \in Seq(Cmds) /\ Asked(b \o g.out, b \o o)
    BY <1>3, QueryIsCommand, Sending DEF Handlers, Asked
  <2> HIDE DEF o
  <2>3. /\ f \in Handlers
        /\ f.power = g.power /\ f.mode = g.mode /\ f.run = g.run
        /\ f.powerPrev = g.powerPrev /\ f.modePrev = g.modePrev
        /\ f.shownMode = g.shownMode /\ f.memory = g.memory
        /\ f.shownAction = g.shownAction /\ f.every = "fast" /\ f.slow = FALSE
    <3> DEFINE e == [g EXCEPT !.slow = FALSE]
    <3>1. g \in Handlers
      BY <1>3
    <3>2. /\ e \in Handlers
          /\ e.power = g.power /\ e.mode = g.mode /\ e.run = g.run
          /\ e.powerPrev = g.powerPrev /\ e.modePrev = g.modePrev
          /\ e.shownMode = g.shownMode /\ e.memory = g.memory
          /\ e.shownAction = g.shownAction /\ e.slow = FALSE
      BY <3>1 DEF Handlers
    <3>3. f = [e EXCEPT !.every = "fast"]
      BY <3>1 DEF Handlers
    <3> HIDE DEF e, f
    <3>4. /\ f \in Handlers
          /\ f.power = e.power /\ f.mode = e.mode /\ f.run = e.run
          /\ f.powerPrev = e.powerPrev /\ f.modePrev = e.modePrev
          /\ f.shownMode = e.shownMode /\ f.memory = e.memory
          /\ f.shownAction = e.shownAction /\ f.slow = e.slow /\ f.every = "fast"
      BY <3>2, <3>3 DEF Handlers
    <3> QED BY <3>2, <3>4
  <2> HIDE DEF f
  <2>4. k \in Handlers
    BY <2>1, <2>2, <2>3 DEF Handlers
  <2>5. /\ k.power = f.power /\ k.mode = f.mode /\ k.run = f.run
        /\ k.powerPrev = f.powerPrev /\ k.modePrev = f.modePrev
        /\ k.shownMode = f.shownMode /\ k.memory = f.memory
        /\ k.shownAction = f.shownAction /\ k.out = o
        /\ k.every = f.every /\ k.slow = f.slow
    BY <2>1, <2>3 DEF Handlers
  <2> QED BY <1>3, <2>2, <2>3, <2>4, <2>5 DEF Polled, a
<1>5. CASE a \notin Active
  <2>1. k = [g EXCEPT !.slow = TRUE]
    BY <1>2, <1>5 DEF UpdateQueryInterval
  <2>2. /\ k \in Handlers
        /\ k.power = g.power /\ k.mode = g.mode /\ k.run = g.run
        /\ k.powerPrev = g.powerPrev /\ k.modePrev = g.modePrev
        /\ k.shownMode = g.shownMode /\ k.memory = g.memory
        /\ k.shownAction = g.shownAction /\ k.out = g.out
    BY <1>3, <2>1 DEF Handlers
  <2> QED BY <1>3, <1>5, <2>2 DEF Polled, Asked, a
<1> QED BY <1>4, <1>5

\* Jet and energy saving are sent again.
Modally(h, d) == Resent(h, Resent(h, d, "jet"), "energysave")

\* The hooks of a mode, the field mode, the hooks of power, the field power and a switch.
LEMMA ModalFields ==
  ASSUME NEW h \in Handlers, h.mode \in Modes, NEW b \in Seq(Cmds), NEW k, k = RewriteModal(h)
  PROVE  /\ k \in Handlers
         /\ k.power = h.power /\ k.mode = h.mode /\ k.run = h.run
         /\ k.powerPrev = h.powerPrev /\ k.modePrev = h.modePrev
         /\ k.shownMode = h.shownMode /\ k.memory = h.memory
         /\ b \o k.out = Modally(h, b \o h.out)
<1> DEFINE g == Rewrite(h, "jet")
<1>1. /\ g \in Handlers
      /\ g.power = h.power /\ g.mode = h.mode /\ g.run = h.run
      /\ g.powerPrev = h.powerPrev /\ g.modePrev = h.modePrev
      /\ g.shownMode = h.shownMode /\ g.memory = h.memory
      /\ b \o g.out = Resent(h, b \o h.out, "jet")
  BY RewrittenFields
<1>2. k = Rewrite(g, "energysave")
  BY DEF RewriteModal
<1> HIDE DEF g
<1> DEFINE l == Rewrite(g, "energysave")
<1>3. /\ l \in Handlers
      /\ l.power = g.power /\ l.mode = g.mode /\ l.run = g.run
      /\ l.powerPrev = g.powerPrev /\ l.modePrev = g.modePrev
      /\ l.shownMode = g.shownMode /\ l.memory = g.memory
      /\ b \o l.out = Resent(g, b \o g.out, "energysave")
  <2>1. g \in Handlers
    BY <1>1
  <2> QED BY <2>1, RewrittenFields
<1>4. Resent(g, b \o g.out, "energysave") = Resent(h, b \o g.out, "energysave")
  <2>1. g.power = h.power /\ g.mode = h.mode /\ g.memory = h.memory
    BY <1>1
  <2> QED BY <2>1 DEF Resent
<1>5. Resent(h, b \o g.out, "energysave") = Modally(h, b \o h.out)
  BY <1>1 DEF Modally
<1> QED BY <1>1, <1>2, <1>3, <1>4, <1>5

LEMMA ModeFields ==
  ASSUME NEW h \in Handlers, h.mode \in Modes, NEW b \in Seq(Cmds), NEW k, k = ProcessMode(h)
  PROVE  /\ k \in Handlers
         /\ k.power = h.power /\ k.mode = h.mode /\ k.run = h.run
         /\ k.powerPrev = h.powerPrev /\ k.memory = h.memory
         /\ k.modePrev = Shown(h) /\ k.shownMode = Shown(h)
         /\ Polled(h) => Polled(k)
         /\ h.modePrev = Shown(h) => k.shownAction = h.shownAction /\ b \o k.out = b \o h.out
         /\ h.modePrev # Shown(h) => /\ k.shownAction = ActionOf(h.power, h.mode, h.run)
                                     /\ Asked(Modally(h, b \o h.out), b \o k.out)
<1> DEFINE shown == Shown(h)
           g == IF h.modePrev # shown THEN UpdateClimateAction(RewriteModal(h)) ELSE h
<1>0. shown \in Modes \cup {"off"}
  BY DEF Shown
<1>1. k = [g EXCEPT !.modePrev = shown, !.shownMode = shown]
  BY DEF ProcessMode, Shown
<1>2. /\ g \in Handlers
      /\ g.power = h.power /\ g.mode = h.mode /\ g.run = h.run
      /\ g.powerPrev = h.powerPrev /\ g.memory = h.memory
      /\ Polled(h) => Polled(g)
      /\ h.modePrev = shown => g.shownAction = h.shownAction /\ b \o g.out = b \o h.out
      /\ h.modePrev # shown => /\ g.shownAction = ActionOf(h.power, h.mode, h.run)
                               /\ Asked(Modally(h, b \o h.out), b \o g.out)
  <2>1. CASE h.modePrev = shown
    BY <2>1
  <2>2. CASE h.modePrev # shown
    <3> DEFINE f == RewriteModal(h)
    <3>1. /\ f \in Handlers
          /\ f.power = h.power /\ f.mode = h.mode /\ f.run = h.run
          /\ f.powerPrev = h.powerPrev /\ f.memory = h.memory
          /\ b \o f.out = Modally(h, b \o h.out)
      BY ModalFields
    <3>2. g = UpdateClimateAction(f)
      BY <2>2
    <3> HIDE DEF f, g, shown
    <3>3. /\ g \in Handlers
          /\ g.power = f.power /\ g.mode = f.mode /\ g.run = f.run
          /\ g.powerPrev = f.powerPrev /\ g.memory = f.memory
          /\ g.shownAction = ActionOf(f.power, f.mode, f.run)
          /\ Polled(g)
          /\ Asked(b \o f.out, b \o g.out)
      <4>1. f.mode \in Modes
        BY <3>1
      <4> QED BY <3>1, <3>2, <4>1, UpdatedFields
    <3> QED BY <2>2, <3>1, <3>3
  <2> QED BY <2>1, <2>2
<1> HIDE DEF g, shown
<1>3. /\ k \in Handlers
      /\ k.power = g.power /\ k.mode = g.mode /\ k.run = g.run
      /\ k.powerPrev = g.powerPrev /\ k.memory = g.memory
      /\ k.modePrev = shown /\ k.shownMode = shown
      /\ k.shownAction = g.shownAction /\ k.every = g.every /\ k.slow = g.slow
      /\ k.out = g.out
  <2> DEFINE e == [g EXCEPT !.modePrev = shown]
  <2>1. g \in Handlers
    BY <1>2
  <2>2. k = [e EXCEPT !.shownMode = shown]
    BY <1>1, <2>1 DEF Handlers
  <2>3. /\ e \in Handlers
        /\ e.power = g.power /\ e.mode = g.mode /\ e.run = g.run
        /\ e.powerPrev = g.powerPrev /\ e.memory = g.memory /\ e.modePrev = shown
        /\ e.shownAction = g.shownAction /\ e.every = g.every /\ e.slow = g.slow
        /\ e.out = g.out
    BY <1>0, <2>1 DEF Handlers
  <2> HIDE DEF e
  <2>4. /\ k \in Handlers
        /\ k.power = e.power /\ k.mode = e.mode /\ k.run = e.run
        /\ k.powerPrev = e.powerPrev /\ k.memory = e.memory
        /\ k.modePrev = e.modePrev /\ k.shownMode = shown
        /\ k.shownAction = e.shownAction /\ k.every = e.every /\ k.slow = e.slow
        /\ k.out = e.out
    BY <1>0, <2>2, <2>3 DEF Handlers
  <2> QED BY <2>3, <2>4
<1> QED BY <1>2, <1>3 DEF Polled, shown

LEMMA PowerHooksFields ==
  ASSUME NEW h \in Handlers, h.mode \in Modes, NEW b \in Seq(Cmds), NEW k, k = PowerHooks(h)
  PROVE  /\ k \in Handlers
         /\ k.power = h.power /\ k.mode = h.mode /\ k.run = h.run
         /\ k.powerPrev = h.powerPrev /\ k.memory = h.memory
         /\ k.modePrev = h.modePrev /\ k.shownMode = h.shownMode
         /\ Polled(k) /\ k.shownAction = ActionOf(h.power, h.mode, h.run)
         /\ Asked(Modally(h, Resent(h, b \o h.out, "airclean")), b \o k.out)
<1>1. CASE h.power = "off"
  <2>1. Modally(h, Resent(h, b \o h.out, "airclean")) = b \o h.out
    BY <1>1 DEF Modally, Resent
  <2>2. k = UpdateClimateAction(h)
    BY <1>1 DEF PowerHooks
  <2>3. /\ k \in Handlers
        /\ k.power = h.power /\ k.mode = h.mode /\ k.run = h.run
        /\ k.powerPrev = h.powerPrev /\ k.modePrev = h.modePrev
        /\ k.shownMode = h.shownMode /\ k.memory = h.memory
        /\ k.shownAction = ActionOf(h.power, h.mode, h.run)
        /\ Polled(k)
        /\ Asked(b \o h.out, b \o k.out)
    BY <2>2, UpdatedFields
  <2> QED BY <2>1, <2>3
<1>2. CASE h.power # "off"
  <2> DEFINE f == Rewrite(h, "airclean")
             g == RewriteModal(f)
  <2>1. /\ f \in Handlers
        /\ f.power = h.power /\ f.mode = h.mode /\ f.run = h.run
        /\ f.powerPrev = h.powerPrev /\ f.modePrev = h.modePrev
        /\ f.shownMode = h.shownMode /\ f.memory = h.memory
        /\ b \o f.out = Resent(h, b \o h.out, "airclean")
    BY RewrittenFields
  <2>2. k = UpdateClimateAction(g)
    BY <1>2 DEF PowerHooks
  <2> HIDE DEF f
  <2>3. /\ g \in Handlers
        /\ g.power = f.power /\ g.mode = f.mode /\ g.run = f.run
        /\ g.powerPrev = f.powerPrev /\ g.modePrev = f.modePrev
        /\ g.shownMode = f.shownMode /\ g.memory = f.memory
        /\ b \o g.out = Modally(f, b \o f.out)
    BY <2>1, ModalFields
  <2>4. Modally(f, b \o f.out) = Modally(h, Resent(h, b \o h.out, "airclean"))
    BY <2>1 DEF Modally, Resent
  <2> HIDE DEF g
  <2>5. /\ k \in Handlers
        /\ k.power = g.power /\ k.mode = g.mode /\ k.run = g.run
        /\ k.powerPrev = g.powerPrev /\ k.modePrev = g.modePrev
        /\ k.shownMode = g.shownMode /\ k.memory = g.memory
        /\ k.shownAction = ActionOf(g.power, g.mode, g.run)
        /\ Polled(k)
        /\ Asked(b \o g.out, b \o k.out)
    BY <2>1, <2>2, <2>3, UpdatedFields
  <2> QED BY <2>1, <2>3, <2>4, <2>5
<1> QED BY <1>1, <1>2

LEMMA PowerFields ==
  ASSUME NEW h \in Handlers, h.mode \in Modes, NEW b \in Seq(Cmds),
         NEW l, l = ProcessMode(h), NEW k, k = ProcessPower(h)
  PROVE  /\ k \in Handlers
         /\ k.power = h.power /\ k.mode = h.mode /\ k.run = h.run
         /\ k.powerPrev = h.power /\ k.memory = h.memory
         /\ k.modePrev = Shown(h) /\ k.shownMode = Shown(h)
         /\ Polled(h) => Polled(k)
         /\ h.powerPrev = h.power => k.shownAction = l.shownAction /\ b \o k.out = b \o l.out
         /\ h.powerPrev # h.power =>
              /\ k.shownAction = ActionOf(h.power, h.mode, h.run)
              /\ Asked(Modally(h, Resent(h, b \o l.out, "airclean")), b \o k.out)
<1>1. /\ l \in Handlers
      /\ l.power = h.power /\ l.mode = h.mode /\ l.run = h.run
      /\ l.powerPrev = h.powerPrev /\ l.memory = h.memory
      /\ l.modePrev = Shown(h) /\ l.shownMode = Shown(h)
      /\ Polled(h) => Polled(l)
  BY ModeFields
<1> DEFINE g == IF h.powerPrev # h.power THEN PowerHooks(l) ELSE l
<1>2. k = [g EXCEPT !.powerPrev = h.power]
  BY DEF ProcessPower
<1>3. /\ g \in Handlers
      /\ g.power = h.power /\ g.mode = h.mode /\ g.run = h.run
      /\ g.memory = h.memory
      /\ g.modePrev = Shown(h) /\ g.shownMode = Shown(h)
      /\ Polled(h) => Polled(g)
      /\ h.powerPrev = h.power => g.shownAction = l.shownAction /\ b \o g.out = b \o l.out
      /\ h.powerPrev # h.power =>
           /\ g.shownAction = ActionOf(h.power, h.mode, h.run)
           /\ Asked(Modally(h, Resent(h, b \o l.out, "airclean")), b \o g.out)
  <2>1. CASE h.powerPrev = h.power
    BY <1>1, <2>1
  <2>2. CASE h.powerPrev # h.power
    <3>1. g = PowerHooks(l)
      BY <2>2
    <3> HIDE DEF g
    <3>2. /\ g \in Handlers
          /\ g.power = l.power /\ g.mode = l.mode /\ g.run = l.run
          /\ g.powerPrev = l.powerPrev /\ g.memory = l.memory
          /\ g.modePrev = l.modePrev /\ g.shownMode = l.shownMode
          /\ Polled(g) /\ g.shownAction = ActionOf(l.power, l.mode, l.run)
          /\ Asked(Modally(l, Resent(l, b \o l.out, "airclean")), b \o g.out)
      BY <1>1, <3>1, PowerHooksFields
    <3>3. Modally(l, Resent(l, b \o l.out, "airclean"))
            = Modally(h, Resent(h, b \o l.out, "airclean"))
      BY <1>1 DEF Modally, Resent
    <3> QED BY <1>1, <2>2, <3>2, <3>3
  <2> QED BY <2>1, <2>2
<1> HIDE DEF g
<1>4. h.power \in OnOff \cup {"unset"}
  BY DEF Handlers
<1>5. /\ k \in Handlers
      /\ k.power = g.power /\ k.mode = g.mode /\ k.run = g.run
      /\ k.powerPrev = h.power /\ k.memory = g.memory
      /\ k.modePrev = g.modePrev /\ k.shownMode = g.shownMode
      /\ k.shownAction = g.shownAction /\ k.every = g.every /\ k.slow = g.slow
      /\ k.out = g.out
  BY <1>2, <1>3, <1>4 DEF Handlers
<1> QED BY <1>3, <1>5 DEF Polled

\* What processTag of power tells of the handler, whatever it sends.
LEMMA PowerFacts ==
  ASSUME NEW h \in Handlers, h.mode \in Modes, NEW k, k = ProcessPower(h)
  PROVE  /\ k \in Handlers
         /\ k.power = h.power /\ k.mode = h.mode /\ k.run = h.run
         /\ k.powerPrev = h.power /\ k.memory = h.memory
         /\ k.modePrev = Shown(h) /\ k.shownMode = Shown(h)
         /\ Polled(h) => Polled(k)
<1>1. <<>> \in Seq(Cmds)
  OBVIOUS
<1>2. PICK l : l = ProcessMode(h)
  OBVIOUS
<1> QED BY <1>1, <1>2, PowerFields

LEMMA SettingFields ==
  ASSUME NEW h \in Handlers, NEW s \in Switches, NEW v \in Values,
         NEW k, k = ProcessSetting(h, s, v)
  PROVE  /\ k \in Handlers
         /\ k.power = h.power /\ k.mode = h.mode /\ k.run = h.run
         /\ k.powerPrev = h.powerPrev /\ k.modePrev = h.modePrev
         /\ k.shownMode = h.shownMode /\ k.shownAction = h.shownAction
         /\ k.every = h.every /\ k.slow = h.slow /\ k.out = h.out
         /\ \A u \in Switches \ {s} : k.memory[u] = h.memory[u]
         /\ h.power = "on" /\ h.mode \in ApplyModes[s] => k.memory[s] = ReadOn(s, v, h.mode)
<1>1. CASE h.power = "on" /\ h.mode \in ApplyModes[s]
  <2> DEFINE on == ReadOn(s, v, h.mode)
  <2>1. on \in BOOLEAN
    BY DEF ReadOn
  <2>2. k = [h EXCEPT !.memory = [h.memory EXCEPT ![s] = on]]
    BY <1>1 DEF ProcessSetting, Handlers
  <2> HIDE DEF on
  <2> DEFINE mm == [h.memory EXCEPT ![s] = on]
  <2>3. mm \in [Switches -> BOOLEAN] /\ mm[s] = on /\ \A u \in Switches \ {s} : mm[u] = h.memory[u]
    BY <2>1 DEF Handlers
  <2> HIDE DEF mm
  <2>4. /\ k \in Handlers
        /\ k.power = h.power /\ k.mode = h.mode /\ k.run = h.run
        /\ k.powerPrev = h.powerPrev /\ k.modePrev = h.modePrev
        /\ k.shownMode = h.shownMode /\ k.shownAction = h.shownAction
        /\ k.every = h.every /\ k.slow = h.slow /\ k.out = h.out /\ k.memory = mm
    BY <2>2, <2>3 DEF Handlers, mm
  <2> QED BY <2>3, <2>4 DEF on
<1>2. CASE ~(h.power = "on" /\ h.mode \in ApplyModes[s])
  <2>1. k = h
    BY <1>2 DEF ProcessSetting
  <2> QED BY <1>2, <2>1
<1> QED BY <1>1, <1>2

-----------------------------------------------------------------------------
(* A handler that shows a mode anew, or power, is in step with it.         *)

\* The last report that tells a tag tells what is so.
LEMMA NewsAreTrue ==
  ASSUME NEW m, NEW q, NEW ts, NEW val, NEW t \in Tags, NEW v,
         ReportsAreTrue(m, ts, val, q), Tells(ts, q, t), TagValue(m, t) # v
  PROVE  TellsOther(ts, val, q, t, v)
BY NewsRelate DEF ReportsAreTrue

LEMMA ModeShown ==
  ASSUME NEW h \in Handlers, NEW k \in Handlers, NEW m \in Machines, NEW d, NEW ts, NEW val,
         NEW q, h.mode \in Modes, h.powerPrev # "unset",
         k.power = h.power, k.mode = h.mode, k.run = h.run, k.powerPrev = h.powerPrev,
         k.memory = h.memory, k.modePrev = Shown(h),
         h.modePrev = Shown(h) => k.shownAction = h.shownAction,
         h.modePrev # Shown(h) => k.shownAction = ActionOf(h.power, h.mode, h.run),
         Stored(h, m, d, ts, val, q), PowerIsSeen(h, m, ts, val, q),
         PowerAhead(h, d, ts, val, q),
         h.modePrev = Shown(h) => ActionFollows(h, m, d, ts, val, q)
  PROVE  /\ ClimateInStep(k, m, d, ts, val, q)
         /\ \A s \in Switches :
              (h.modePrev = Shown(h) \/ ~Modal(s)) /\ SettingInStep(h, m, d, ts, val, q, s)
              => SettingInStep(k, m, d, ts, val, q, s)
<1>0. Shown(h) \in Modes => Shown(h) = h.mode /\ h.power # "off"
  BY AirConditionerAssumption DEF Shown
<1>a. (Shown(h) = "off") <=> (h.power = "off")
  BY AirConditionerAssumption DEF Shown
<1>1. Stored(k, m, d, ts, val, q)
  BY DEF Stored, ModeIsKnown, RunIsKnown
<1>2. PowerIsSeen(k, m, ts, val, q) /\ PowerAhead(k, d, ts, val, q)
  BY DEF PowerIsSeen, PowerAhead, PowerTurns
<1>3. ModeIsSeen(k, m, d, ts, val, q)
  <2> SUFFICES ASSUME Shown(h) \in Modes
               PROVE  \/ m.mode = h.mode \/ TellsOther(ts, val, q, "mode", h.mode)
                      \/ Brought(d, h.mode)
    BY <1>0 DEF ModeIsSeen
  <2>1. Tells(ts, q, "mode") /\ m.mode # h.mode => TellsOther(ts, val, q, "mode", h.mode)
    BY NewsAreTrue, TagValues DEF Stored
  <2> QED BY <2>1 DEF Stored, ModeIsKnown
<1>4. ModeAhead(k, m, d, ts, val, q)
  BY <1>0 DEF ModeAhead
<1>5. SeenFits(k, d, ts, val, q)
  BY <1>a DEF SeenFits, PowerAhead, PowerTurns
<1>6. ActionFollows(k, m, d, ts, val, q)
  <2>1. CASE h.modePrev = Shown(h)
    BY <2>1 DEF ActionFollows, SeenAction, PowerTurns, ModeTurns
  <2>2. CASE h.modePrev # Shown(h)
    <3>1. CASE h.power = "off"
      BY <1>a, <2>2, <3>1 DEF ActionFollows, SeenAction, ActionOf
    <3>2. CASE h.power # "off"
      <4>1. Shown(h) = h.mode /\ Shown(h) # "off"
        BY <1>a, <3>2 DEF Shown
      <4>2. ActionOf(h.power, h.mode, h.run) = ActionOf("on", h.mode, h.run)
        BY <3>2 DEF ActionOf
      <4> QED BY <2>2, <4>1, <4>2 DEF ActionFollows, SeenAction
    <3> QED BY <3>1, <3>2
  <2> QED BY <2>1, <2>2
<1>7. ASSUME NEW s \in Switches, h.modePrev = Shown(h) \/ ~Modal(s),
             SettingInStep(h, m, d, ts, val, q, s)
      PROVE  SettingInStep(k, m, d, ts, val, q, s)
  <2>1. CASE h.modePrev = Shown(h)
    BY <1>7, <2>1 DEF SettingInStep, SettingFollows, Believed, PowerTurns, ModeTurns
  <2>2. CASE ~Modal(s)
    <3>1. Wire(s, h.memory[s], h.modePrev) = Wire(s, h.memory[s], k.modePrev)
      BY <2>2 DEF Wire, Modal
    <3>2. SettingFollows(h, m, d, ts, q, s) => SettingFollows(k, m, d, ts, q, s)
      BY <2>2, <3>1 DEF SettingFollows, SetTo
    <3> QED BY <1>7, <2>2, <3>2 DEF SettingInStep, Believed, PowerTurns
  <2> QED BY <1>7, <2>1, <2>2
<1> QED BY <1>1, <1>2, <1>3, <1>4, <1>5, <1>6, <1>7 DEF ClimateInStep, Seen

LEMMA PowerShown ==
  ASSUME NEW k \in Handlers, NEW m \in Machines, NEW d, NEW ts, NEW val, NEW q,
         k.mode \in Modes, k.powerPrev = k.power, k.modePrev = Shown(k),
         k.shownAction = ActionOf(k.power, k.mode, k.run),
         Stored(k, m, d, ts, val, q), PowerIsSeen(k, m, ts, val, q)
  PROVE  ClimateInStep(k, m, d, ts, val, q)
<1>0. Shown(k) \in Modes => Shown(k) = k.mode /\ k.power # "off"
  BY AirConditionerAssumption DEF Shown
<1>a. (Shown(k) = "off") <=> (k.power = "off")
  BY AirConditionerAssumption DEF Shown
<1>3. ModeIsSeen(k, m, d, ts, val, q)
  <2> SUFFICES ASSUME Shown(k) \in Modes
               PROVE  \/ m.mode = k.mode \/ TellsOther(ts, val, q, "mode", k.mode)
                      \/ Brought(d, k.mode)
    BY <1>0 DEF ModeIsSeen
  <2>1. Tells(ts, q, "mode") /\ m.mode # k.mode => TellsOther(ts, val, q, "mode", k.mode)
    BY NewsAreTrue, TagValues DEF Stored
  <2> QED BY <2>1 DEF Stored, ModeIsKnown
<1>4. ModeAhead(k, m, d, ts, val, q) /\ PowerAhead(k, d, ts, val, q)
  BY <1>0 DEF ModeAhead, PowerAhead
<1>5. SeenFits(k, d, ts, val, q)
  BY <1>a DEF SeenFits
<1>6. ActionFollows(k, m, d, ts, val, q)
  <2>1. CASE k.power = "off"
    BY <1>a, <2>1 DEF ActionFollows, SeenAction, ActionOf
  <2>2. CASE k.power # "off"
    <3>1. Shown(k) = k.mode /\ Shown(k) # "off"
      BY <1>a, <2>2 DEF Shown
    <3>2. ActionOf(k.power, k.mode, k.run) = ActionOf("on", k.mode, k.run)
      BY <2>2 DEF ActionOf
    <3> QED BY <3>1, <3>2 DEF ActionFollows, SeenAction
  <2> QED BY <2>1, <2>2
<1> QED BY <1>3, <1>4, <1>5, <1>6 DEF ClimateInStep, Seen

\* Once both have been sent again, the settings are in step.
LEMMA ModallyInStep ==
  ASSUME NEW k \in Handlers, NEW m \in Machines, NEW d \in Seq(Cmds), NEW ts, NEW val, NEW q,
         k.mode \in Modes, ClimateInStep(k, m, d, ts, val, q),
         "airclean" \in Switches => SettingInStep(k, m, d, ts, val, q, "airclean")
  PROVE  InStep(k, m, Modally(k, d), ts, val, q) /\ Modally(k, d) \in Seq(Cmds)
<1> DEFINE d1 == Resent(k, d, "jet")
           d2 == Resent(k, d1, "energysave")
<1>1. d1 \in Seq(Cmds)
  BY ResentIsCommands
<1>2. /\ ClimateInStep(k, m, d1, ts, val, q)
      /\ "jet" \in Switches => SettingInStep(k, m, d1, ts, val, q, "jet")
      /\ "airclean" \in Switches => SettingInStep(k, m, d1, ts, val, q, "airclean")
  BY ResentInStep
<1> HIDE DEF d1
<1>3. d2 \in Seq(Cmds)
  BY <1>1, ResentIsCommands
<1>4. /\ ClimateInStep(k, m, d2, ts, val, q)
      /\ "energysave" \in Switches => SettingInStep(k, m, d2, ts, val, q, "energysave")
      /\ \A u \in Switches \ {"energysave"} : SettingInStep(k, m, d1, ts, val, q, u)
                                              => SettingInStep(k, m, d2, ts, val, q, u)
  BY <1>1, <1>2, ResentInStep
<1> HIDE DEF d2
<1>5. \A s \in Switches : SettingInStep(k, m, d2, ts, val, q, s)
  BY <1>2, <1>4, AirConditionerAssumption
<1>6. d2 = Modally(k, d)
  BY DEF d2, d1, Modally
<1>7. InStep(k, m, d2, ts, val, q)
  BY <1>4, <1>5 DEF InStep
<1> QED BY <1>3, <1>6, <1>7

LEMMA AskedInStep ==
  ASSUME NEW k, NEW m, NEW d \in Seq(Cmds), NEW e, NEW ts, NEW val, NEW q,
         InStep(k, m, d, ts, val, q), Asked(d, e)
  PROVE  InStep(k, m, e, ts, val, q)
BY QueryIsCommand, OtherCommandAdded DEF Asked

-----------------------------------------------------------------------------
(* The tags of a report, one by one.                                       *)

LEMMA TagHandled ==
  ASSUME NEW m, NEW q, NEW ts, NEW val, NEW t \in Tags, t \in ts, NEW ts2, ts2 = ts \ {t},
         ReportsAreTrue(m, ts, val, q)
  PROVE  /\ ReportsAreTrue(m, ts2, val, q)
         /\ Tells(ts2, q, t) \/ val[t] = TagValue(m, t)
<1>1. /\ \A u : u # t => (Tells(ts2, q, u) <=> Tells(ts, q, u))
      /\ Tells(ts, q, t)
      /\ \A u, v : u # t /\ LastSays(ts, val, q, u, v) => LastSays(ts2, val, q, u, v)
      /\ \A v : LastSays(ts, val, q, t, v)
                => (val[t] = v /\ ~Tells(ts2, q, t)) \/ LastSays(ts2, val, q, t, v)
  BY NewsHandled
<1>2. LastSays(ts, val, q, t, TagValue(m, t))
  BY <1>1 DEF ReportsAreTrue
<1>3. \/ val[t] = TagValue(m, t) /\ ~Tells(ts2, q, t)
      \/ LastSays(ts2, val, q, t, TagValue(m, t))
  BY <1>1, <1>2
<1>4. ASSUME NEW u \in Tags, Tells(ts2, q, u) PROVE LastSays(ts2, val, q, u, TagValue(m, u))
  <2>1. CASE u = t
    BY <1>3, <1>4, <2>1
  <2>2. CASE u # t
    BY <1>1, <1>4, <2>2 DEF ReportsAreTrue
  <2> QED BY <2>1, <2>2
<1>5. ReportsAreTrue(m, ts2, val, q)
  BY <1>4 DEF ReportsAreTrue
<1>6. Tells(ts2, q, t) \/ val[t] = TagValue(m, t)
  BY <1>3, NewsRelate
<1> QED BY <1>5, <1>6

\* The tags.
LEMMA TagNames ==
  /\ "mode" \in Tags /\ "power" \in Tags /\ "run" \in Tags /\ Switches \subseteq Tags
  /\ "mode" \notin WholeTags /\ "power" \in WholeTags /\ "run" \in WholeTags
  /\ Switches \subseteq WholeTags
  /\ \A s \in Switches : s # "mode" /\ s # "power" /\ s # "run"
BY AirConditionerAssumption DEF Tags, WholeTags

\* Mode
LEMMA StepMode ==
  ASSUME NEW h \in Handlers, NEW m \in Machines, NEW b \in Seq(Cmds), NEW q, NEW ts, NEW val,
         "mode" \in ts, val["mode"] \in Modes,
         InStep(h, m, b \o h.out, ts, val, q), HandlerOK(h),
         NEW k, k = ProcessMode([h EXCEPT !.mode = val["mode"]])
  PROVE  /\ k \in Handlers /\ HandlerOK(k)
         /\ k.power = h.power /\ k.mode \in Modes
         /\ InStep(k, m, b \o k.out, ts \ {"mode"}, val, q)
<1> DEFINE g == [h EXCEPT !.mode = val["mode"]]
           d == b \o h.out
           ts2 == ts \ {"mode"}
<1>1. /\ g \in Handlers /\ g.mode = val["mode"]
      /\ g.power = h.power /\ g.run = h.run /\ g.powerPrev = h.powerPrev
      /\ g.modePrev = h.modePrev /\ g.memory = h.memory /\ g.shownAction = h.shownAction
      /\ g.shownMode = h.shownMode /\ g.every = h.every /\ g.slow = h.slow /\ g.out = h.out
  BY DEF Handlers
<1>2. k = ProcessMode(g)
  OBVIOUS
<1>d. d \in Seq(Cmds)
  BY DEF Handlers
<1> HIDE DEF g
<1>3. /\ k \in Handlers
      /\ k.power = g.power /\ k.mode = g.mode /\ k.run = g.run
      /\ k.powerPrev = g.powerPrev /\ k.memory = g.memory
      /\ k.modePrev = Shown(g) /\ k.shownMode = Shown(g)
      /\ Polled(g) => Polled(k)
      /\ g.modePrev = Shown(g) => k.shownAction = g.shownAction /\ b \o k.out = b \o g.out
      /\ g.modePrev # Shown(g) => /\ k.shownAction = ActionOf(g.power, g.mode, g.run)
                                  /\ Asked(Modally(g, b \o g.out), b \o k.out)
  BY <1>1, <1>2, ModeFields
<1>4. HandlerOK(k)
  BY <1>1, <1>3, AirConditionerAssumption DEF HandlerOK, Polled, Shown
<1>n. /\ \A u : u # "mode" => (Tells(ts2, q, u) <=> Tells(ts, q, u))
      /\ \A u, v : u # "mode" /\ TellsOther(ts, val, q, u, v) => TellsOther(ts2, val, q, u, v)
      /\ \A v : TellsOther(ts, val, q, "mode", v) /\ val["mode"] = v
                => TellsOther(ts2, val, q, "mode", v)
      /\ Covers(ts, q) => Covers(ts2, q)
  BY NewsHandled, TagNames
<1>5. Stored(h, m, d, ts, val, q)
  BY DEF InStep, ClimateInStep
<1>t. ReportsAreTrue(m, ts, val, q) /\ TagValue(m, "mode") = m.mode
  BY <1>5, TagValues DEF Stored
<1>x. /\ ReportsAreTrue(m, ts2, val, q)
      /\ Tells(ts2, q, "mode") \/ val["mode"] = TagValue(m, "mode")
  <2>1. ts2 = ts \ {"mode"} /\ "mode" \in Tags /\ "mode" \in ts
    BY TagNames
  <2> HIDE DEF ts2
  <2> QED BY <1>t, <2>1, TagHandled
<1>6. /\ ReportsAreTrue(m, ts2, val, q)
      /\ Tells(ts2, q, "mode") \/ val["mode"] = m.mode
  BY <1>t, <1>x
<1> HIDE DEF d, ts2
<1>7. Stored(g, m, d, ts2, val, q)
  BY <1>1, <1>5, <1>6, <1>n DEF Stored, ModeIsKnown, RunIsKnown
<1>8. /\ ClimateInStep(k, m, d, ts2, val, q)
      /\ \A s \in Switches : g.modePrev = Shown(g) \/ ~Modal(s)
                             => SettingInStep(k, m, d, ts2, val, q, s)
  <2>1. CASE h.powerPrev = "unset"
    <3>1. Stored(k, m, d, ts2, val, q)
      BY <1>3, <1>7 DEF Stored, ModeIsKnown, RunIsKnown
    <3> QED BY <1>1, <1>3, <2>1, <3>1 DEF ClimateInStep, SettingInStep, Believed
  <2>2. CASE h.powerPrev # "unset"
    <3>0. Seen(h, m, d, ts, val, q)
      BY <2>2 DEF InStep, ClimateInStep, d
    <3>1. PowerTurns(h, d, ts, val, q) => PowerTurns(g, d, ts2, val, q)
      BY <1>1, <1>n DEF PowerTurns
    <3>2. PowerIsSeen(g, m, ts2, val, q) /\ PowerAhead(g, d, ts2, val, q)
      BY <1>1, <1>n, <3>0, <3>1 DEF Seen, PowerIsSeen, PowerAhead
    <3>3. ASSUME g.modePrev = Shown(g)
          PROVE  ModeTurns(h, m, d, ts, val, q) => ModeTurns(g, m, d, ts2, val, q)
      <4>1. g.modePrev \in Modes => val["mode"] = g.modePrev
        BY <1>1, <3>3, AirConditionerAssumption DEF Shown
      <4> QED BY <1>1, <1>n, <4>1 DEF ModeTurns
    <3>4. g.modePrev = Shown(g) => ActionFollows(g, m, d, ts2, val, q)
      BY <1>1, <1>n, <3>0, <3>1, <3>3 DEF Seen, ActionFollows, SeenAction
    <3>5. /\ ClimateInStep(k, m, d, ts2, val, q)
          /\ \A s \in Switches :
              (g.modePrev = Shown(g) \/ ~Modal(s)) /\ SettingInStep(g, m, d, ts2, val, q, s)
              => SettingInStep(k, m, d, ts2, val, q, s)
      BY <1>1, <1>3, <1>7, <2>2, <3>2, <3>4, ModeShown
    <3>6. ASSUME NEW s \in Switches, g.modePrev = Shown(g) \/ ~Modal(s)
          PROVE  SettingInStep(g, m, d, ts2, val, q, s)
      <4>1. SettingInStep(h, m, d, ts, val, q, s)
        BY DEF InStep, d
      <4>2. SettingFollows(h, m, d, ts, q, s) => SettingFollows(g, m, d, ts2, q, s)
        BY <1>1, <1>n, TagNames DEF SettingFollows
      <4> QED BY <1>1, <1>n, <3>1, <3>3, <3>6, <4>1, <4>2 DEF SettingInStep, Believed
    <3> QED BY <3>5, <3>6
  <2> QED BY <2>1, <2>2
<1>9. InStep(k, m, b \o k.out, ts2, val, q)
  <2>1. CASE g.modePrev = Shown(g)
    <3>1. b \o k.out = d
      BY <1>1, <1>3, <2>1 DEF d
    <3> QED BY <1>8, <2>1, <3>1 DEF InStep
  <2>2. CASE g.modePrev # Shown(g)
    <3>1. Modally(g, d) = Modally(k, d)
      BY <1>3 DEF Modally, Resent
    <3>2. "airclean" \in Switches => SettingInStep(k, m, d, ts2, val, q, "airclean")
      BY <1>8 DEF Modal
    <3>3. k.mode \in Modes
      BY <1>1, <1>3
    <3>4. InStep(k, m, Modally(k, d), ts2, val, q) /\ Modally(k, d) \in Seq(Cmds)
      BY <1>3, <1>8, <1>d, <3>2, <3>3, ModallyInStep
    <3>5. Asked(Modally(k, d), b \o k.out)
      BY <1>1, <1>3, <2>2, <3>1 DEF d
    <3> QED BY <3>4, <3>5, AskedInStep
  <2> QED BY <2>1, <2>2
<1> QED BY <1>1, <1>3, <1>4, <1>9 DEF ts2

\* What is stored does not depend on how many commands follow.
LEMMA StoredKept ==
  ASSUME NEW h, NEW m, NEW d \in Seq(Cmds), NEW c \in Cmds, NEW ts, NEW val, NEW q,
         Stored(h, m, d, ts, val, q)
  PROVE  Stored(h, m, Append(d, c), ts, val, q)
BY BroughtAppend DEF Stored, ModeIsKnown

LEMMA StoredResent ==
  ASSUME NEW h \in Handlers, NEW m, NEW d \in Seq(Cmds), NEW s, NEW ts, NEW val, NEW q,
         Stored(h, m, d, ts, val, q)
  PROVE  Stored(h, m, Resent(h, d, s), ts, val, q)
<1>1. CASE s \in Switches /\ h.power # "off" /\ h.mode \in ApplyModes[s]
  <2> DEFINE v == Wire(s, h.memory[s], h.mode)
  <2>1. v \in Values
    BY DEF Wire, Values
  <2>2. s = "jet" /\ v = 1 => "cool" \in JetModes
    BY <1>1, JetIsCool
  <2> HIDE DEF v
  <2>3. WriteCmd(s, v) \in Sets
    BY <1>1, <2>1, <2>2 DEF WriteCmd, Sets
  <2>4. WriteCmd(s, v) \in Cmds
    BY <2>3 DEF Cmds
  <2>5. Resent(h, d, s) = Append(d, WriteCmd(s, v))
    BY <1>1 DEF Resent, v
  <2> QED BY <2>4, <2>5, StoredKept
<1>2. CASE ~(s \in Switches /\ h.power # "off" /\ h.mode \in ApplyModes[s])
  BY <1>2 DEF Resent
<1> QED BY <1>1, <1>2

LEMMA StoredModally ==
  ASSUME NEW h \in Handlers, NEW m, NEW d \in Seq(Cmds), NEW e, NEW ts, NEW val, NEW q,
         Stored(h, m, d, ts, val, q), Asked(Modally(h, d), e)
  PROVE  Stored(h, m, e, ts, val, q)
<1> DEFINE d1 == Resent(h, d, "jet")
           d2 == Resent(h, d1, "energysave")
<1>1. d1 \in Seq(Cmds) /\ Stored(h, m, d1, ts, val, q)
  BY ResentIsCommands, StoredResent
<1> HIDE DEF d1
<1>2. d2 \in Seq(Cmds) /\ Stored(h, m, d2, ts, val, q)
  BY <1>1, ResentIsCommands, StoredResent
<1> HIDE DEF d2
<1>3. d2 = Modally(h, d)
  BY DEF d1, d2, Modally
<1>4. e = d2 \/ e = Append(d2, Ask("query"))
  BY <1>3 DEF Asked
<1> QED BY <1>2, <1>4, QueryIsCommand, StoredKept

\* Power
LEMMA StepPower ==
  ASSUME NEW h \in Handlers, NEW m \in Machines, NEW b \in Seq(Cmds), NEW q, NEW ts, NEW val,
         "power" \in ts, val["power"] \in OnOff, h.mode \in Modes,
         InStep(h, m, b \o h.out, ts, val, q), HandlerOK(h),
         NEW k, k = ProcessPower([h EXCEPT !.power = val["power"]])
  PROVE  /\ k \in Handlers /\ HandlerOK(k)
         /\ k.power \in OnOff /\ k.mode \in Modes
         /\ InStep(k, m, b \o k.out, ts \ {"power"}, val, q)
<1> DEFINE g == [h EXCEPT !.power = val["power"]]
           l == ProcessMode(g)
           d == b \o h.out
           e == b \o l.out
           ts2 == ts \ {"power"}
<1>1. /\ g \in Handlers /\ g.power = val["power"]
      /\ g.mode = h.mode /\ g.run = h.run /\ g.powerPrev = h.powerPrev
      /\ g.modePrev = h.modePrev /\ g.memory = h.memory /\ g.shownAction = h.shownAction
      /\ g.shownMode = h.shownMode /\ g.every = h.every /\ g.slow = h.slow /\ g.out = h.out
  BY DEF Handlers
<1>2. k = ProcessPower(g)
  OBVIOUS
<1>d. d \in Seq(Cmds)
  BY DEF Handlers
<1> HIDE DEF g
<1>3. /\ l \in Handlers
      /\ g.modePrev = Shown(g) => l.shownAction = g.shownAction /\ b \o l.out = b \o g.out
      /\ g.modePrev # Shown(g) => /\ l.shownAction = ActionOf(g.power, g.mode, g.run)
                                  /\ Asked(Modally(g, b \o g.out), b \o l.out)
  BY <1>1, ModeFields
<1>4. /\ k \in Handlers
      /\ k.power = g.power /\ k.mode = g.mode /\ k.run = g.run
      /\ k.powerPrev = g.power /\ k.memory = g.memory
      /\ k.modePrev = Shown(g) /\ k.shownMode = Shown(g)
      /\ Polled(g) => Polled(k)
      /\ g.powerPrev = g.power => k.shownAction = l.shownAction /\ b \o k.out = b \o l.out
      /\ g.powerPrev # g.power =>
           /\ k.shownAction = ActionOf(g.power, g.mode, g.run)
           /\ Asked(Modally(g, Resent(g, b \o l.out, "airclean")), b \o k.out)
  BY <1>1, <1>2, PowerFields
<1>5. HandlerOK(k)
  BY <1>1, <1>4, AirConditionerAssumption DEF HandlerOK, Polled, Shown
<1>n. /\ \A u : u # "power" => (Tells(ts2, q, u) <=> Tells(ts, q, u))
      /\ \A u, v : u # "power" /\ TellsOther(ts, val, q, u, v) => TellsOther(ts2, val, q, u, v)
      /\ \A v : TellsOther(ts, val, q, "power", v) /\ val["power"] = v
                => TellsOther(ts2, val, q, "power", v)
      /\ Covers(ts, q) => Covers(ts2, q) \/ WholeTags \subseteq ts
  BY NewsHandled
<1>6. Stored(h, m, d, ts, val, q)
  BY DEF InStep, ClimateInStep
<1>t. ReportsAreTrue(m, ts, val, q) /\ TagValue(m, "power") = m.power
  BY <1>6, TagValues DEF Stored
<1>x. /\ ReportsAreTrue(m, ts2, val, q)
      /\ Tells(ts2, q, "power") \/ val["power"] = TagValue(m, "power")
  <2>1. ts2 = ts \ {"power"} /\ "power" \in Tags /\ "power" \in ts
    BY TagNames
  <2> HIDE DEF ts2
  <2> QED BY <1>t, <2>1, TagHandled
<1>7. /\ ReportsAreTrue(m, ts2, val, q)
      /\ Tells(ts2, q, "power") \/ val["power"] = m.power
  BY <1>t, <1>x
<1>e. e \in Seq(Cmds)
  BY <1>3 DEF Handlers
<1>l. Switches \subseteq ts2 \/ ~(WholeTags \subseteq ts)
  BY TagNames
<1> HIDE DEF d, e, ts2, l
<1>8. Stored(g, m, d, ts2, val, q)
  BY <1>1, <1>6, <1>7, <1>n DEF Stored, ModeIsKnown, RunIsKnown
<1>9. m.power = g.power \/ TellsOther(ts2, val, q, "power", g.power)
  <2>1. Tells(ts2, q, "power") /\ m.power # g.power => TellsOther(ts2, val, q, "power", g.power)
    BY <1>7, NewsAreTrue, TagNames, TagValues
  <2> QED BY <1>1, <1>7, <2>1
<1>u. g.power # "unset"
  BY <1>1 DEF OnOff
<1>10. ASSUME g.powerPrev = g.power PROVE InStep(k, m, b \o k.out, ts2, val, q)
  <2>0. Seen(h, m, d, ts, val, q)
    BY <1>1, <1>u, <1>10 DEF InStep, ClimateInStep, d
  <2>1. PowerTurns(h, d, ts, val, q) => PowerTurns(g, d, ts2, val, q)
    BY <1>1, <1>n, <1>10 DEF PowerTurns
  <2>2. PowerIsSeen(g, m, ts2, val, q) /\ PowerAhead(g, d, ts2, val, q)
    BY <1>9, <1>10 DEF PowerIsSeen, PowerAhead
  <2>3. ModeTurns(h, m, d, ts, val, q) => ModeTurns(g, m, d, ts2, val, q)
    BY <1>1, <1>n DEF ModeTurns
  <2>4. ActionFollows(g, m, d, ts2, val, q)
    BY <1>1, <1>n, <2>0, <2>1, <2>3 DEF Seen, ActionFollows, SeenAction
  <2>5. ASSUME NEW s \in Switches PROVE SettingInStep(g, m, d, ts2, val, q, s)
    <3>1. SettingInStep(h, m, d, ts, val, q, s)
      BY DEF InStep, d
    <3>2. SettingFollows(h, m, d, ts, q, s) => SettingFollows(g, m, d, ts2, q, s)
      BY <1>1, <1>n, TagNames DEF SettingFollows
    <3>3. Covers(ts, q) => Covers(ts2, q) \/ SettingFollows(g, m, d, ts2, q, s)
      BY <1>n, <1>l, NewsRelate DEF SettingFollows
    <3> QED BY <1>1, <2>1, <2>3, <3>1, <3>2, <3>3 DEF SettingInStep, Believed
  <2>6. /\ k.powerPrev = g.powerPrev /\ g.mode \in Modes /\ g.powerPrev # "unset"
        /\ g.modePrev = Shown(g) => k.shownAction = g.shownAction /\ b \o k.out = d
        /\ g.modePrev # Shown(g) => /\ k.shownAction = ActionOf(g.power, g.mode, g.run)
                                    /\ Asked(Modally(g, d), b \o k.out)
    BY <1>1, <1>3, <1>4, <1>u, <1>10 DEF d
  <2>7. /\ ClimateInStep(k, m, d, ts2, val, q)
        /\ \A s \in Switches :
              (g.modePrev = Shown(g) \/ ~Modal(s)) /\ SettingInStep(g, m, d, ts2, val, q, s)
              => SettingInStep(k, m, d, ts2, val, q, s)
    BY <1>1, <1>4, <1>8, <2>2, <2>4, <2>6, ModeShown
  <2>8. InStep(k, m, b \o k.out, ts2, val, q)
    <3>1. CASE g.modePrev = Shown(g)
      BY <2>5, <2>6, <2>7, <3>1 DEF InStep
    <3>2. CASE g.modePrev # Shown(g)
      <4>1. Modally(g, d) = Modally(k, d)
        BY <1>4 DEF Modally, Resent
      <4>2. "airclean" \in Switches => SettingInStep(k, m, d, ts2, val, q, "airclean")
        BY <2>5, <2>7 DEF Modal
      <4>3. InStep(k, m, Modally(k, d), ts2, val, q) /\ Modally(k, d) \in Seq(Cmds)
        BY <1>1, <1>4, <1>d, <2>7, <4>2, ModallyInStep
      <4> QED BY <2>6, <3>2, <4>1, <4>3, AskedInStep
    <3> QED BY <3>1, <3>2
  <2> QED BY <2>8
<1>11. ASSUME g.powerPrev # g.power PROVE InStep(k, m, b \o k.out, ts2, val, q)
  <2>1. Stored(g, m, e, ts2, val, q)
    <3>1. CASE g.modePrev = Shown(g)
      <4>1. e = d
        BY <1>1, <1>3, <3>1 DEF d, e
      <4> QED BY <1>8, <4>1
    <3>2. CASE g.modePrev # Shown(g)
      <4>1. Asked(Modally(g, d), e)
        BY <1>1, <1>3, <3>2 DEF d, e
      <4> QED BY <1>1, <1>8, <1>d, <4>1, StoredModally
    <3> QED BY <3>1, <3>2
  <2>2. Stored(k, m, e, ts2, val, q)
    BY <1>4, <2>1 DEF Stored, ModeIsKnown, RunIsKnown
  <2>3. /\ k.mode \in Modes /\ k.powerPrev = k.power /\ k.modePrev = Shown(k)
        /\ k.shownAction = ActionOf(k.power, k.mode, k.run)
        /\ PowerIsSeen(k, m, ts2, val, q)
    BY <1>1, <1>4, <1>9, <1>11 DEF Shown, PowerIsSeen
  <2>4. ClimateInStep(k, m, e, ts2, val, q)
    BY <1>4, <2>2, <2>3, PowerShown
  <2> DEFINE f == Resent(k, e, "airclean")
  <2>5. /\ ClimateInStep(k, m, f, ts2, val, q)
        /\ "airclean" \in Switches => SettingInStep(k, m, f, ts2, val, q, "airclean")
    BY <1>4, <1>e, <2>3, <2>4, ResentInStep
  <2>6. f \in Seq(Cmds)
    BY <1>4, <1>e, ResentIsCommands
  <2>7. Modally(g, Resent(g, e, "airclean")) = Modally(k, f)
    BY <1>4 DEF Modally, Resent
  <2> HIDE DEF f
  <2>8. InStep(k, m, Modally(k, f), ts2, val, q) /\ Modally(k, f) \in Seq(Cmds)
    BY <1>4, <2>3, <2>5, <2>6, ModallyInStep
  <2>9. Asked(Modally(k, f), b \o k.out)
    BY <1>4, <1>11, <2>7 DEF e
  <2> QED BY <2>8, <2>9, AskedInStep
<1> QED BY <1>1, <1>4, <1>5, <1>10, <1>11 DEF ts2

\* A setting: power has been handled before, so that only a later report tells all.
LEMMA StepSetting ==
  ASSUME NEW h \in Handlers, NEW m \in Machines, NEW b \in Seq(Cmds), NEW q, NEW ts, NEW val,
         NEW s \in Switches, s \in ts, "power" \notin ts, val[s] \in Values,
         h.mode \in Modes, FitSettings(m),
         InStep(h, m, b \o h.out, ts, val, q), HandlerOK(h),
         NEW k, k = ProcessSetting(h, s, val[s])
  PROVE  /\ k \in Handlers /\ HandlerOK(k)
         /\ k.power = h.power /\ k.mode = h.mode
         /\ InStep(k, m, b \o k.out, ts \ {s}, val, q)
<1> DEFINE d == b \o h.out
           ts2 == ts \ {s}
<1>1. /\ k \in Handlers
      /\ k.power = h.power /\ k.mode = h.mode /\ k.run = h.run
      /\ k.powerPrev = h.powerPrev /\ k.modePrev = h.modePrev
      /\ k.shownMode = h.shownMode /\ k.shownAction = h.shownAction
      /\ k.every = h.every /\ k.slow = h.slow /\ k.out = h.out
      /\ \A u \in Switches \ {s} : k.memory[u] = h.memory[u]
      /\ h.power = "on" /\ h.mode \in ApplyModes[s] => k.memory[s] = ReadOn(s, val[s], h.mode)
  BY SettingFields
<1>2. HandlerOK(k)
  BY <1>1 DEF HandlerOK
<1>n. /\ \A u : u # s => (Tells(ts2, q, u) <=> Tells(ts, q, u))
      /\ \A u, v : u # s /\ TellsOther(ts, val, q, u, v) => TellsOther(ts2, val, q, u, v)
      /\ Covers(ts, q) => Covers(ts2, q) \/ WholeTags \subseteq ts
  BY NewsHandled
<1>3. Covers(ts, q) => Covers(ts2, q)
  BY <1>n, TagNames
<1>4. Stored(h, m, d, ts, val, q)
  BY DEF InStep, ClimateInStep
<1>t. ReportsAreTrue(m, ts, val, q) /\ TagValue(m, s) = m.set[s] /\ s \in Tags
  BY <1>4, TagValues DEF Stored
<1>x. /\ ReportsAreTrue(m, ts2, val, q)
      /\ Tells(ts2, q, s) \/ val[s] = TagValue(m, s)
  <2>1. ts2 = ts \ {s} /\ s \in Tags /\ s \in ts
    BY TagNames
  <2> HIDE DEF ts2
  <2> QED BY <1>t, <2>1, TagHandled
<1>5. ReportsAreTrue(m, ts2, val, q) /\ (Tells(ts2, q, s) \/ val[s] = m.set[s])
  BY <1>t, <1>x
<1>m. s # "mode" /\ s # "power" /\ s # "run"
  BY TagNames
<1>o. b \o k.out = d
  BY <1>1
<1> HIDE DEF d, ts2
<1>6. Stored(k, m, d, ts2, val, q)
  BY <1>1, <1>4, <1>5, <1>m, <1>n DEF Stored, ModeIsKnown, RunIsKnown
<1>7. PowerTurns(h, d, ts, val, q) => PowerTurns(k, d, ts2, val, q)
  BY <1>1, <1>m, <1>n DEF PowerTurns
<1>8. ModeTurns(h, m, d, ts, val, q) => ModeTurns(k, m, d, ts2, val, q)
  BY <1>1, <1>m, <1>n DEF ModeTurns
<1>9. ASSUME h.powerPrev # "unset" PROVE Seen(k, m, d, ts2, val, q)
  <2>0. Seen(h, m, d, ts, val, q)
    BY <1>9 DEF InStep, ClimateInStep, d
  <2>1. PowerIsSeen(k, m, ts2, val, q) /\ ModeIsSeen(k, m, d, ts2, val, q)
    BY <1>1, <1>m, <1>n, <2>0 DEF Seen, PowerIsSeen, ModeIsSeen
  <2>2. /\ PowerAhead(k, d, ts2, val, q) /\ ModeAhead(k, m, d, ts2, val, q)
        /\ SeenFits(k, d, ts2, val, q)
    BY <1>1, <1>3, <1>7, <1>8, <2>0 DEF Seen, PowerAhead, ModeAhead, SeenFits
  <2>3. ActionFollows(k, m, d, ts2, val, q)
    BY <1>1, <1>m, <1>n, <1>7, <1>8, <2>0 DEF Seen, ActionFollows, SeenAction
  <2> QED BY <2>1, <2>2, <2>3 DEF Seen
<1>10. ASSUME NEW u \in Switches, u # s PROVE SettingInStep(k, m, d, ts2, val, q, u)
  <2>1. SettingInStep(h, m, d, ts, val, q, u)
    BY DEF InStep, d
  <2>2. SettingFollows(h, m, d, ts, q, u) => SettingFollows(k, m, d, ts2, q, u)
    BY <1>1, <1>n, <1>10 DEF SettingFollows
  <2> QED BY <1>1, <1>3, <1>7, <1>8, <2>1, <2>2 DEF SettingInStep, Believed
<1>11. SettingInStep(k, m, d, ts2, val, q, s)
  <2> SUFFICES ASSUME Believed(k, s), ~PowerTurns(k, d, ts2, val, q), ~Covers(ts2, q),
                      ~(Modal(s) /\ ModeTurns(k, m, d, ts2, val, q)), ~Tells(ts2, q, s)
               PROVE  \/ k.memory[s] = (m.set[s] # 0)
                      \/ Modal(s) /\ m.set[s] # 0 /\ m.mode # k.modePrev
    BY DEF SettingInStep, SettingFollows
  <2>0. Seen(k, m, d, ts2, val, q)
    BY <1>1, <1>9 DEF Believed
  <2>1. k.power = "on"
    BY <2>0 DEF Seen, PowerAhead, Believed
  <2>2. Modal(s) => k.modePrev \in Modes /\ k.modePrev \in ApplyModes[s]
    BY <1>1, AirConditionerAssumption DEF Believed, Modal, ApplyModes, Handlers
  <2>3. Modal(s) => k.mode = k.modePrev
    BY <2>0, <2>2 DEF Seen, ModeAhead
  <2>4. k.mode \in ApplyModes[s]
    BY <1>1, <2>2, <2>3, AirConditionerAssumption DEF Modal, ApplyModes
  <2>5. k.memory[s] = ReadOn(s, m.set[s], k.mode)
    BY <1>1, <1>5, <2>1, <2>4
  <2>6. CASE m.set[s] = 0
    BY <2>5, <2>6 DEF ReadOn
  <2>7. CASE m.set[s] # 0
    <3>1. m.set[s] = Wire(s, TRUE, m.mode)
      BY <2>7 DEF FitSettings
    <3>2. CASE s = "jet" /\ k.mode # m.mode
      BY <2>3, <2>7, <3>2 DEF Modal
    <3>3. CASE ~(s = "jet" /\ k.mode # m.mode)
      <4>1. ReadOn(s, m.set[s], k.mode) = TRUE
        BY <2>7, <3>1, <3>3 DEF ReadOn
      <4> QED BY <2>5, <2>7, <4>1
    <3> QED BY <3>2, <3>3
  <2> QED BY <2>6, <2>7
<1>12. InStep(k, m, d, ts2, val, q)
  BY <1>1, <1>6, <1>9, <1>10, <1>11 DEF InStep, ClimateInStep
<1> QED BY <1>1, <1>2, <1>12, <1>o DEF ts2

\* The indoor unit
LEMMA StepRun ==
  ASSUME NEW h \in Handlers, NEW m \in Machines, NEW b \in Seq(Cmds), NEW q, NEW ts, NEW val,
         "run" \in ts, "power" \notin ts, val["run"] \in BOOLEAN, h.mode \in Modes,
         InStep(h, m, b \o h.out, ts, val, q), HandlerOK(h),
         NEW k, k = UpdateClimateAction([h EXCEPT !.run = val["run"]])
  PROVE  /\ k \in Handlers /\ HandlerOK(k)
         /\ k.power = h.power /\ k.mode = h.mode
         /\ InStep(k, m, b \o k.out, ts \ {"run"}, val, q)
<1> DEFINE g == [h EXCEPT !.run = val["run"]]
           d == b \o h.out
           ts2 == ts \ {"run"}
<1>1. /\ g \in Handlers /\ g.run = val["run"]
      /\ g.power = h.power /\ g.mode = h.mode /\ g.powerPrev = h.powerPrev
      /\ g.modePrev = h.modePrev /\ g.memory = h.memory
      /\ g.shownMode = h.shownMode /\ g.out = h.out
  BY DEF Handlers
<1>2. k = UpdateClimateAction(g)
  OBVIOUS
<1>d. d \in Seq(Cmds)
  BY DEF Handlers
<1> HIDE DEF g
<1>3. /\ k \in Handlers
      /\ k.power = g.power /\ k.mode = g.mode /\ k.run = g.run
      /\ k.powerPrev = g.powerPrev /\ k.modePrev = g.modePrev
      /\ k.shownMode = g.shownMode /\ k.memory = g.memory
      /\ k.shownAction = ActionOf(g.power, g.mode, g.run)
      /\ Polled(k)
      /\ Asked(b \o g.out, b \o k.out)
  BY <1>1, <1>2, UpdatedFields
<1>4. HandlerOK(k)
  BY <1>1, <1>3 DEF HandlerOK, Polled
<1>n. /\ \A u : u # "run" => (Tells(ts2, q, u) <=> Tells(ts, q, u))
      /\ \A u, v : u # "run" /\ TellsOther(ts, val, q, u, v) => TellsOther(ts2, val, q, u, v)
      /\ Covers(ts, q) => Covers(ts2, q) \/ WholeTags \subseteq ts
  BY NewsHandled
<1>5. Covers(ts, q) => Covers(ts2, q)
  BY <1>n, TagNames
<1>6. Stored(h, m, d, ts, val, q)
  BY DEF InStep, ClimateInStep
<1>t. ReportsAreTrue(m, ts, val, q) /\ TagValue(m, "run") = m.run
  BY <1>6, TagValues DEF Stored
<1>x. /\ ReportsAreTrue(m, ts2, val, q)
      /\ Tells(ts2, q, "run") \/ val["run"] = TagValue(m, "run")
  <2>1. ts2 = ts \ {"run"} /\ "run" \in Tags /\ "run" \in ts
    BY TagNames
  <2> HIDE DEF ts2
  <2> QED BY <1>t, <2>1, TagHandled
<1>7. ReportsAreTrue(m, ts2, val, q) /\ (Tells(ts2, q, "run") \/ val["run"] = m.run)
  BY <1>t, <1>x
<1>o. Asked(d, b \o k.out)
  BY <1>1, <1>3
<1>c. Covers(ts2, q) => Tells(ts2, q, "run")
  BY NewsRelate, TagNames
<1> HIDE DEF d, ts2
<1>8. Stored(k, m, d, ts2, val, q)
  BY <1>1, <1>3, <1>6, <1>7, <1>n DEF Stored, ModeIsKnown, RunIsKnown
<1>9. PowerTurns(h, d, ts, val, q) => PowerTurns(k, d, ts2, val, q)
  BY <1>1, <1>3, <1>n DEF PowerTurns
<1>10. ModeTurns(h, m, d, ts, val, q) => ModeTurns(k, m, d, ts2, val, q)
  BY <1>1, <1>3, <1>n DEF ModeTurns
<1>11. ASSUME h.powerPrev # "unset" PROVE Seen(k, m, d, ts2, val, q)
  <2>0. Seen(h, m, d, ts, val, q)
    BY <1>11 DEF InStep, ClimateInStep, d
  <2>1. PowerIsSeen(k, m, ts2, val, q) /\ ModeIsSeen(k, m, d, ts2, val, q)
    BY <1>1, <1>3, <1>n, <2>0 DEF Seen, PowerIsSeen, ModeIsSeen
  <2>2. /\ PowerAhead(k, d, ts2, val, q) /\ ModeAhead(k, m, d, ts2, val, q)
        /\ SeenFits(k, d, ts2, val, q)
    BY <1>1, <1>3, <1>5, <1>9, <1>10, <2>0 DEF Seen, PowerAhead, ModeAhead, SeenFits
  <2>3. ActionFollows(k, m, d, ts2, val, q)
    <3> SUFFICES ASSUME ~PowerTurns(k, d, ts2, val, q), ~ModeTurns(k, m, d, ts2, val, q),
                        ~Tells(ts2, q, "run")
                 PROVE  k.shownAction = SeenAction(k)
      BY DEF ActionFollows
    <3>1. k.power = k.powerPrev
      BY <1>c, <2>2 DEF PowerAhead
    <3>2. (k.modePrev = "off") <=> (k.power = "off")
      BY <1>c, <2>2, <3>1 DEF SeenFits
    <3>3. k.modePrev \in Modes => k.mode = k.modePrev
      BY <1>c, <2>2 DEF ModeAhead
    <3>4. k.modePrev \in Modes \/ k.modePrev = "off"
      BY <1>1, <1>3, <1>11 DEF HandlerOK, Handlers
    <3>5. CASE k.power = "off"
      BY <1>3, <3>2, <3>5 DEF SeenAction, ActionOf
    <3>6. CASE k.power # "off"
      <4>1. ActionOf(k.power, k.mode, k.run) = ActionOf("on", k.mode, k.run)
        BY <3>6 DEF ActionOf
      <4> QED BY <1>3, <3>2, <3>3, <3>4, <3>6, <4>1 DEF SeenAction
    <3> QED BY <3>5, <3>6
  <2> QED BY <2>1, <2>2, <2>3 DEF Seen
<1>12. ASSUME NEW u \in Switches PROVE SettingInStep(k, m, d, ts2, val, q, u)
  <2>1. SettingInStep(h, m, d, ts, val, q, u)
    BY DEF InStep, d
  <2>2. SettingFollows(h, m, d, ts, q, u) => SettingFollows(k, m, d, ts2, q, u)
    BY <1>1, <1>3, <1>n, TagNames DEF SettingFollows
  <2> QED BY <1>1, <1>3, <1>5, <1>9, <1>10, <2>1, <2>2 DEF SettingInStep, Believed
<1>13. InStep(k, m, d, ts2, val, q)
  BY <1>1, <1>3, <1>8, <1>11, <1>12 DEF InStep, ClimateInStep
<1>14. InStep(k, m, b \o k.out, ts2, val, q)
  BY <1>13, <1>d, <1>o, AskedInStep DEF d
<1> QED BY <1>1, <1>3, <1>4, <1>14 DEF ts2

-----------------------------------------------------------------------------
(* A whole report, after the configuration and before it.                  *)

\* A handler that knows power and mode.
Knows(h) == h \in Handlers /\ HandlerOK(h) /\ h.power \in OnOff /\ h.mode \in Modes

\* A tag is handled by its field, once there are fields.
LEMMA KeyValues ==
  ASSUME configured # 0, NEW h, NEW v
  PROVE  /\ ProcessKeyValue(h, "mode", v) = ProcessMode([h EXCEPT !.mode = v])
         /\ ProcessKeyValue(h, "power", v) = ProcessPower([h EXCEPT !.power = v])
         /\ ProcessKeyValue(h, "run", v) = UpdateClimateAction([h EXCEPT !.run = v])
         /\ \A s \in Switches : ProcessKeyValue(h, s, v) = ProcessSetting(h, s, v)
<1> DEFINE stored(t) == IF t = "mode" THEN [h EXCEPT !.mode = v]
                       ELSE IF t = "power" THEN [h EXCEPT !.power = v]
                       ELSE IF t = "run" THEN [h EXCEPT !.run = v] ELSE h
<1>1. \A t : ProcessKeyValue(h, t, v) =
             IF configured = 0 THEN stored(t)
             ELSE IF t = "mode" THEN ProcessMode(stored(t))
             ELSE IF t = "power" THEN ProcessPower(stored(t))
             ELSE IF t = "run" THEN UpdateClimateAction(stored(t))
             ELSE ProcessSetting(stored(t), t, v)
  BY Zenon DEF ProcessKeyValue
<1>2. /\ stored("mode") = [h EXCEPT !.mode = v]
      /\ stored("power") = [h EXCEPT !.power = v]
      /\ stored("run") = [h EXCEPT !.run = v]
      /\ \A s \in Switches : stored(s) = h
  <2>1. stored("mode") = [h EXCEPT !.mode = v]
    OBVIOUS
  <2>2. stored("power") = [h EXCEPT !.power = v]
    OBVIOUS
  <2>3. stored("run") = [h EXCEPT !.run = v]
    OBVIOUS
  <2>4. \A s \in Switches : stored(s) = h
    BY TagNames
  <2> QED BY <2>1, <2>2, <2>3, <2>4
<1> HIDE DEF stored
<1>3. ProcessKeyValue(h, "mode", v) = ProcessMode(stored("mode"))
  BY <1>1
<1>4. ProcessKeyValue(h, "power", v) = ProcessPower(stored("power"))
  BY <1>1
<1>5. ProcessKeyValue(h, "run", v) = UpdateClimateAction(stored("run"))
  BY <1>1
<1>6. ASSUME NEW s \in Switches PROVE ProcessKeyValue(h, s, v) = ProcessSetting(stored(s), s, v)
  BY <1>1, TagNames
<1> QED BY <1>2, <1>3, <1>4, <1>5, <1>6

\* Each tag, whether the handler is in step or not
LEMMA TagKnows ==
  ASSUME configured # 0, NEW h, Knows(h), NEW val, ValOK(val), DOMAIN val \subseteq Tags, NEW t,
         NEW k, k = Tag(h, t, val)
  PROVE  Knows(k)
<1>1. CASE t \notin DOMAIN val
  BY <1>1 DEF Tag
<1>2. CASE t \in DOMAIN val /\ t = "mode"
  <2> DEFINE g == [h EXCEPT !.mode = val["mode"]]
  <2>0. val["mode"] \in Modes /\ h \in Handlers
    BY <1>2 DEF ValOK, Knows
  <2>1. k = ProcessMode(g)
    BY <1>2, KeyValues DEF Tag
  <2>2. /\ g \in Handlers /\ g.mode \in Modes
        /\ g.power = h.power /\ g.powerPrev = h.powerPrev
        /\ g.shownAction = h.shownAction /\ g.every = h.every /\ g.slow = h.slow
    BY <2>0 DEF Handlers
  <2> HIDE DEF g
  <2>3. /\ k \in Handlers
        /\ k.power = g.power /\ k.mode = g.mode /\ k.powerPrev = g.powerPrev
        /\ k.modePrev = Shown(g) /\ k.shownMode = Shown(g)
        /\ Polled(g) => Polled(k)
    <3>1. <<>> \in Seq(Cmds)
      OBVIOUS
    <3> QED BY <2>1, <2>2, <3>1, ModeFields
  <2> QED BY <2>2, <2>3, AirConditionerAssumption DEF Knows, HandlerOK, Polled, Shown, OnOff
<1>3. CASE t \in DOMAIN val /\ t = "power"
  <2> DEFINE g == [h EXCEPT !.power = val["power"]]
  <2>0. val["power"] \in OnOff /\ h \in Handlers /\ h.mode \in Modes
    BY <1>3 DEF ValOK, Knows
  <2>1. k = ProcessPower(g)
    BY <1>3, KeyValues DEF Tag
  <2>2. /\ g \in Handlers /\ g.mode \in Modes
        /\ g.power \in OnOff /\ g.powerPrev = h.powerPrev
        /\ g.shownAction = h.shownAction /\ g.every = h.every /\ g.slow = h.slow
    BY <2>0 DEF Handlers
  <2> HIDE DEF g
  <2>3. /\ k \in Handlers
        /\ k.power = g.power /\ k.mode = g.mode /\ k.powerPrev = g.power
        /\ k.modePrev = Shown(g) /\ k.shownMode = Shown(g)
        /\ Polled(g) => Polled(k)
    BY <2>1, <2>2, PowerFacts
  <2> QED BY <2>2, <2>3, AirConditionerAssumption DEF Knows, HandlerOK, Polled, Shown, OnOff
<1>4. CASE t \in DOMAIN val /\ t = "run"
  <2> DEFINE g == [h EXCEPT !.run = val["run"]]
  <2>0. val["run"] \in BOOLEAN /\ h \in Handlers /\ h.mode \in Modes
    BY <1>4 DEF ValOK, Knows
  <2>1. k = UpdateClimateAction(g)
    BY <1>4, KeyValues DEF Tag
  <2>2. /\ g \in Handlers /\ g.mode = h.mode
        /\ g.power = h.power /\ g.powerPrev = h.powerPrev
        /\ g.modePrev = h.modePrev /\ g.shownMode = h.shownMode
    BY <2>0 DEF Handlers
  <2> HIDE DEF g
  <2>3. /\ k \in Handlers
        /\ k.power = g.power /\ k.mode = g.mode /\ k.powerPrev = g.powerPrev
        /\ k.modePrev = g.modePrev /\ k.shownMode = g.shownMode
        /\ Polled(k)
    <3>1. <<>> \in Seq(Cmds)
      OBVIOUS
    <3> QED BY <2>0, <2>1, <2>2, <3>1, UpdatedFields
  <2> QED BY <2>2, <2>3 DEF Knows, HandlerOK, Polled
<1>5. CASE t \in DOMAIN val /\ t \in Switches
  <2>0. val[t] \in Values /\ h \in Handlers /\ t # "mode" /\ t # "power" /\ t # "run"
    BY <1>5, TagNames DEF ValOK, Knows
  <2>1. k = ProcessSetting(h, t, val[t])
    BY <1>5, <2>0, KeyValues DEF Tag
  <2>2. /\ k \in Handlers
        /\ k.power = h.power /\ k.mode = h.mode
        /\ k.powerPrev = h.powerPrev /\ k.modePrev = h.modePrev
        /\ k.shownMode = h.shownMode /\ k.shownAction = h.shownAction
        /\ k.every = h.every /\ k.slow = h.slow
    BY <1>5, <2>0, <2>1, SettingFields
  <2> QED BY <2>2 DEF Knows, HandlerOK
<1> QED BY <1>1, <1>2, <1>3, <1>4, <1>5 DEF Tags

\* Each tag, for a handler in step
LEMMA TagInStep ==
  ASSUME configured # 0, NEW h, Knows(h), NEW val, ValOK(val), DOMAIN val \subseteq Tags, NEW t,
         NEW k, k = Tag(h, t, val),
         NEW m \in Machines, FitSettings(m), NEW b \in Seq(Cmds), NEW q,
         NEW ts, t \in ts <=> t \in DOMAIN val,
         t \in {"mode", "power"} \/ "power" \notin ts,
         InStep(h, m, b \o h.out, ts, val, q)
  PROVE  InStep(k, m, b \o k.out, ts \ {t}, val, q)
<1>0. h \in Handlers /\ HandlerOK(h) /\ h.mode \in Modes
  BY DEF Knows
<1>1. CASE t \notin DOMAIN val
  <2>1. k = h /\ ts \ {t} = ts
    BY <1>1 DEF Tag
  <2> QED BY <2>1
<1>2. CASE t \in DOMAIN val /\ t = "mode"
  <2>1. val["mode"] \in Modes
    BY <1>2 DEF ValOK
  <2>2. k = ProcessMode([h EXCEPT !.mode = val["mode"]])
    BY <1>2, KeyValues DEF Tag
  <2>3. "mode" \in ts
    BY <1>2
  <2>4. InStep(k, m, b \o k.out, ts \ {"mode"}, val, q)
    BY <1>0, <2>1, <2>2, <2>3, StepMode
  <2> QED BY <1>2, <2>4
<1>3. CASE t \in DOMAIN val /\ t = "power"
  <2>1. val["power"] \in OnOff
    BY <1>3 DEF ValOK
  <2>2. k = ProcessPower([h EXCEPT !.power = val["power"]])
    BY <1>3, KeyValues DEF Tag
  <2>3. "power" \in ts
    BY <1>3
  <2>4. InStep(k, m, b \o k.out, ts \ {"power"}, val, q)
    BY <1>0, <2>1, <2>2, <2>3, StepPower
  <2> QED BY <1>3, <2>4
<1>4. CASE t \in DOMAIN val /\ t = "run"
  <2>1. val["run"] \in BOOLEAN
    BY <1>4 DEF ValOK
  <2>2. k = UpdateClimateAction([h EXCEPT !.run = val["run"]])
    BY <1>4, KeyValues DEF Tag
  <2>3. "run" \in ts /\ "power" \notin ts
    BY <1>4
  <2>4. InStep(k, m, b \o k.out, ts \ {"run"}, val, q)
    BY <1>0, <2>1, <2>2, <2>3, StepRun
  <2> QED BY <1>4, <2>4
<1>5. CASE t \in DOMAIN val /\ t \in Switches
  <2>1. val[t] \in Values /\ t # "mode" /\ t # "power" /\ t # "run"
    BY <1>5, TagNames DEF ValOK
  <2>2. k = ProcessSetting(h, t, val[t])
    BY <1>5, <2>1, KeyValues DEF Tag
  <2>3. t \in ts /\ "power" \notin ts
    BY <1>5, <2>1
  <2> QED BY <1>0, <1>5, <2>1, <2>2, <2>3, StepSetting
<1> QED BY <1>1, <1>2, <1>3, <1>4, <1>5 DEF Tags

\* The whole report.
LEMMA ReportKnows ==
  ASSUME configured # 0, NEW h, Knows(h), NEW val, ValOK(val), DOMAIN val \subseteq Tags
  PROVE  Knows(ProcessTags(h, val))
<1> DEFINE h1 == Tag(h, "mode", val)
           h2 == Tag(h1, "power", val)
           h3 == Tag(h2, "jet", val)
           h4 == Tag(h3, "energysave", val)
           h5 == Tag(h4, "airclean", val)
           h6 == Tag(h5, "run", val)
<1>1. Knows(h1)
  BY TagKnows
<1> HIDE DEF h1
<1>2. Knows(h2)
  BY <1>1, TagKnows
<1> HIDE DEF h2
<1>3. Knows(h3)
  BY <1>2, TagKnows
<1> HIDE DEF h3
<1>4. Knows(h4)
  BY <1>3, TagKnows
<1> HIDE DEF h4
<1>5. Knows(h5)
  BY <1>4, TagKnows
<1> HIDE DEF h5
<1>6. Knows(h6)
  BY <1>5, TagKnows
<1>7. h6 = ProcessTags(h, val)
  BY DEF h1, h2, h3, h4, h5, h6, ProcessTags
<1> QED BY <1>6, <1>7

LEMMA ReportInStep ==
  ASSUME configured # 0, NEW h, Knows(h), NEW val, ValOK(val), DOMAIN val \subseteq Tags,
         NEW m \in Machines, FitSettings(m), NEW b \in Seq(Cmds), NEW q,
         InStep(h, m, b \o h.out, DOMAIN val, val, q),
         NEW k, k = ProcessTags(h, val)
  PROVE  InStep(k, m, b \o k.out, {}, <<>>, q)
<1> DEFINE h1 == Tag(h, "mode", val)
           h2 == Tag(h1, "power", val)
           h3 == Tag(h2, "jet", val)
           h4 == Tag(h3, "energysave", val)
           h5 == Tag(h4, "airclean", val)
           h6 == Tag(h5, "run", val)
           ts1 == DOMAIN val \ {"mode"}
           ts2 == ts1 \ {"power"}
           ts3 == ts2 \ {"jet"}
           ts4 == ts3 \ {"energysave"}
           ts5 == ts4 \ {"airclean"}
           ts6 == ts5 \ {"run"}
<1>a. /\ "power" \in ts1 <=> "power" \in DOMAIN val
      /\ "jet" \in ts2 <=> "jet" \in DOMAIN val
      /\ "energysave" \in ts3 <=> "energysave" \in DOMAIN val
      /\ "airclean" \in ts4 <=> "airclean" \in DOMAIN val
      /\ "run" \in ts5 <=> "run" \in DOMAIN val
      /\ "power" \notin ts2 /\ "power" \notin ts3 /\ "power" \notin ts4 /\ "power" \notin ts5
  OBVIOUS
<1>b. ts6 \cap Tags = {}
  BY AirConditionerAssumption DEF Tags
<1>s. h6 = ProcessTags(h, val)
  BY DEF ProcessTags
<1>1. Knows(h1) /\ InStep(h1, m, b \o h1.out, ts1, val, q)
  BY TagKnows, TagInStep
<1> HIDE DEF h1, ts1
<1>2. Knows(h2) /\ InStep(h2, m, b \o h2.out, ts2, val, q)
  BY <1>a, <1>1, TagKnows, TagInStep
<1> HIDE DEF h2, ts2
<1>3. Knows(h3) /\ InStep(h3, m, b \o h3.out, ts3, val, q)
  BY <1>a, <1>2, TagKnows, TagInStep
<1> HIDE DEF h3, ts3
<1>4. Knows(h4) /\ InStep(h4, m, b \o h4.out, ts4, val, q)
  BY <1>a, <1>3, TagKnows, TagInStep
<1> HIDE DEF h4, ts4
<1>5. Knows(h5) /\ InStep(h5, m, b \o h5.out, ts5, val, q)
  BY <1>a, <1>4, TagKnows, TagInStep
<1> HIDE DEF h5, ts5
<1>6. InStep(h6, m, b \o h6.out, ts6, val, q)
  BY <1>a, <1>5, TagInStep
<1> HIDE DEF h6, ts6
<1> QED BY <1>b, <1>s, <1>6, InStepEnd

\* Before the configuration the values are stored and nothing is made of them.
Blank(h) == h \in Handlers /\ HandlerOK(h) /\ h.powerPrev = "unset" /\ h.out = <<>>

\* Before that it is stored.
LEMMA KeyValuesBlank ==
  ASSUME configured = 0, NEW h, NEW v
  PROVE  /\ ProcessKeyValue(h, "mode", v) = [h EXCEPT !.mode = v]
         /\ ProcessKeyValue(h, "power", v) = [h EXCEPT !.power = v]
         /\ ProcessKeyValue(h, "run", v) = [h EXCEPT !.run = v]
         /\ \A s \in Switches : ProcessKeyValue(h, s, v) = h
<1> DEFINE stored(t) == IF t = "mode" THEN [h EXCEPT !.mode = v]
                       ELSE IF t = "power" THEN [h EXCEPT !.power = v]
                       ELSE IF t = "run" THEN [h EXCEPT !.run = v] ELSE h
<1>1. \A t : ProcessKeyValue(h, t, v) = stored(t)
  BY Zenon DEF ProcessKeyValue
<1>2. stored("mode") = [h EXCEPT !.mode = v]
  OBVIOUS
<1>3. stored("power") = [h EXCEPT !.power = v]
  OBVIOUS
<1>4. stored("run") = [h EXCEPT !.run = v]
  OBVIOUS
<1>5. \A s \in Switches : stored(s) = h
  BY TagNames
<1> HIDE DEF stored
<1> QED BY <1>1, <1>2, <1>3, <1>4, <1>5

LEMMA TagBlank ==
  ASSUME configured = 0, NEW h, Blank(h), NEW val, ValOK(val), DOMAIN val \subseteq Tags,
         NEW t, NEW k, k = Tag(h, t, val)
  PROVE  /\ Blank(k)
         /\ k.power = IF t = "power" /\ t \in DOMAIN val THEN val["power"] ELSE h.power
         /\ k.mode = IF t = "mode" /\ t \in DOMAIN val THEN val["mode"] ELSE h.mode
         /\ k.run = IF t = "run" /\ t \in DOMAIN val THEN val["run"] ELSE h.run
<1>1. CASE t \notin DOMAIN val
  BY <1>1 DEF Tag
<1>2. CASE t \in DOMAIN val /\ t = "mode"
  <2>1. val["mode"] \in Modes
    BY <1>2 DEF ValOK
  <2>2. k = [h EXCEPT !.mode = val["mode"]]
    BY <1>2, KeyValuesBlank DEF Tag
  <2>3. /\ k \in Handlers /\ k.mode = val["mode"] /\ k.power = h.power /\ k.run = h.run
        /\ k.powerPrev = h.powerPrev /\ k.modePrev = h.modePrev /\ k.shownMode = h.shownMode
        /\ k.shownAction = h.shownAction /\ k.every = h.every /\ k.slow = h.slow
        /\ k.out = h.out
    BY <2>1, <2>2 DEF Blank, Handlers
  <2> QED BY <1>2, <2>3 DEF Blank, HandlerOK
<1>3. CASE t \in DOMAIN val /\ t = "power"
  <2>1. val["power"] \in OnOff
    BY <1>3 DEF ValOK
  <2>2. k = [h EXCEPT !.power = val["power"]]
    BY <1>3, KeyValuesBlank DEF Tag
  <2>3. /\ k \in Handlers /\ k.mode = h.mode /\ k.power = val["power"] /\ k.run = h.run
        /\ k.powerPrev = h.powerPrev /\ k.modePrev = h.modePrev /\ k.shownMode = h.shownMode
        /\ k.shownAction = h.shownAction /\ k.every = h.every /\ k.slow = h.slow
        /\ k.out = h.out
    BY <2>1, <2>2 DEF Blank, Handlers
  <2> QED BY <1>3, <2>3 DEF Blank, HandlerOK
<1>4. CASE t \in DOMAIN val /\ t = "run"
  <2>1. val["run"] \in BOOLEAN
    BY <1>4 DEF ValOK
  <2>2. k = [h EXCEPT !.run = val["run"]]
    BY <1>4, KeyValuesBlank DEF Tag
  <2>3. /\ k \in Handlers /\ k.mode = h.mode /\ k.power = h.power /\ k.run = val["run"]
        /\ k.powerPrev = h.powerPrev /\ k.modePrev = h.modePrev /\ k.shownMode = h.shownMode
        /\ k.shownAction = h.shownAction /\ k.every = h.every /\ k.slow = h.slow
        /\ k.out = h.out
    BY <2>1, <2>2 DEF Blank, Handlers
  <2> QED BY <1>4, <2>3 DEF Blank, HandlerOK
<1>5. CASE t \in DOMAIN val /\ t \in Switches
  BY <1>5, KeyValuesBlank, TagNames DEF Tag
<1> QED BY <1>1, <1>2, <1>3, <1>4, <1>5 DEF Tags

LEMMA ReportBlank ==
  ASSUME configured = 0, NEW h, Blank(h), NEW val, ValOK(val), DOMAIN val \subseteq Tags,
         NEW k, k = ProcessTags(h, val)
  PROVE  /\ Blank(k)
         /\ k.power = IF "power" \in DOMAIN val THEN val["power"] ELSE h.power
         /\ k.mode = IF "mode" \in DOMAIN val THEN val["mode"] ELSE h.mode
         /\ k.run = IF "run" \in DOMAIN val THEN val["run"] ELSE h.run
<1> DEFINE h1 == Tag(h, "mode", val)
           h2 == Tag(h1, "power", val)
           h3 == Tag(h2, "jet", val)
           h4 == Tag(h3, "energysave", val)
           h5 == Tag(h4, "airclean", val)
           h6 == Tag(h5, "run", val)
<1>s. h6 = ProcessTags(h, val)
  BY DEF ProcessTags
<1>1. /\ Blank(h1) /\ h1.power = h.power /\ h1.run = h.run
      /\ h1.mode = IF "mode" \in DOMAIN val THEN val["mode"] ELSE h.mode
  BY TagBlank
<1> HIDE DEF h1
<1>2. /\ Blank(h2) /\ h2.mode = h1.mode /\ h2.run = h1.run
      /\ h2.power = IF "power" \in DOMAIN val THEN val["power"] ELSE h1.power
  BY <1>1, TagBlank
<1> HIDE DEF h2
<1>3. Blank(h3) /\ h3.mode = h2.mode /\ h3.run = h2.run /\ h3.power = h2.power
  BY <1>2, TagBlank
<1> HIDE DEF h3
<1>4. Blank(h4) /\ h4.mode = h3.mode /\ h4.run = h3.run /\ h4.power = h3.power
  BY <1>3, TagBlank
<1> HIDE DEF h4
<1>5. Blank(h5) /\ h5.mode = h4.mode /\ h5.run = h4.run /\ h5.power = h4.power
  BY <1>4, TagBlank
<1> HIDE DEF h5
<1>6. /\ Blank(h6) /\ h6.mode = h5.mode /\ h6.power = h5.power
      /\ h6.run = IF "run" \in DOMAIN val THEN val["run"] ELSE h5.run
  BY <1>5, TagBlank
<1> HIDE DEF h6
<1> QED BY <1>s, <1>1, <1>2, <1>3, <1>4, <1>5, <1>6

\* Such a handler stays in step as far as it goes: what is stored is what was told last.
LEMMA ReportStored ==
  ASSUME NEW h, h.powerPrev = "unset", NEW k, k.powerPrev = "unset",
         NEW val, DOMAIN val \subseteq Tags,
         k.mode = IF "mode" \in DOMAIN val THEN val["mode"] ELSE h.mode,
         k.run = IF "run" \in DOMAIN val THEN val["run"] ELSE h.run,
         NEW m \in Machines, NEW d, NEW q,
         InStep(h, m, d, DOMAIN val, val, q)
  PROVE  InStep(k, m, d, {}, <<>>, q)
<1>1. Stored(h, m, d, DOMAIN val, val, q)
  BY DEF InStep, ClimateInStep
<1>2. /\ \A t \in Tags : Tells({}, q, t) => LastSays({}, <<>>, q, t, TagValue(m, t))
      /\ \A t \in DOMAIN val : Tells({}, q, t) \/ val[t] = TagValue(m, t)
      /\ \A t \in Tags \ DOMAIN val : Tells({}, q, t) <=> Tells(DOMAIN val, q, t)
  <2>1. \A t : Tells(DOMAIN val, q, t) <=> t \in DOMAIN val \/ Tells({}, q, t)
    BY DEF Tells
  <2>2. \A t, v : LastSays(DOMAIN val, val, q, t, v) =>
          \/ LastSays({}, <<>>, q, t, v)
          \/ t \in DOMAIN val /\ val[t] = v /\ ~Tells({}, q, t)
    BY DEF LastSays, Tells
  <2> DEFINE T == DOMAIN val
  <2> HIDE DEF T
  <2>3. \A t \in Tags : Tells(T, q, t) => LastSays(T, val, q, t, TagValue(m, t))
    BY <1>1 DEF Stored, ReportsAreTrue, T
  <2>4. ASSUME NEW t \in Tags, Tells({}, q, t) PROVE LastSays({}, <<>>, q, t, TagValue(m, t))
    <3>1. Tells(T, q, t)
      BY <2>1, <2>4 DEF T
    <3>2. LastSays(T, val, q, t, TagValue(m, t))
      BY <2>3, <3>1
    <3>3. \/ LastSays({}, <<>>, q, t, TagValue(m, t))
          \/ ~Tells({}, q, t)
      BY <2>2, <3>2 DEF T
    <3> QED BY <2>4, <3>3
  <2>5. ASSUME NEW t \in DOMAIN val PROVE Tells({}, q, t) \/ val[t] = TagValue(m, t)
    <3>1. t \in Tags /\ Tells(T, q, t)
      BY <2>1 DEF T
    <3>2. LastSays(T, val, q, t, TagValue(m, t))
      BY <2>3, <3>1
    <3>3. \/ LastSays({}, <<>>, q, t, TagValue(m, t))
          \/ val[t] = TagValue(m, t)
      BY <2>2, <3>2 DEF T
    <3> QED BY <3>3 DEF LastSays, Tells
  <2>6. \A t \in Tags \ DOMAIN val : Tells({}, q, t) <=> Tells(DOMAIN val, q, t)
    BY <2>1
  <2> QED BY <2>4, <2>5, <2>6
<1>3. /\ "mode" \in Tags /\ TagValue(m, "mode") = m.mode
      /\ "run" \in Tags /\ TagValue(m, "run") = m.run
  BY TagValues
<1>4. Stored(k, m, d, {}, <<>>, q)
  BY <1>1, <1>2, <1>3 DEF Stored, ReportsAreTrue, ModeIsKnown, RunIsKnown
<1> QED BY <1>4 DEF InStep, ClimateInStep, SettingInStep, Believed

-----------------------------------------------------------------------------
(* The steps.  What has to be shown of one, in terms of the handler h and  *)
(* the machine m that it leaves.                                           *)
LEMMA Established ==
  ASSUME NEW h \in Handlers, NEW m \in Machines, h = Handler(FALSE)', m = Machine',
         down' \in Seq(Cmds), up' \in Seq(Reports), configured' \in Nat, untold' \in BOOLEAN,
         FitSettings(m), HandlerOK(h),
         configured' = 0 => h.powerPrev = "unset",
         gotValues' /\ live' => h.power # "unset" /\ h.mode # "unset",
         live' /\ ~untold' => InStep(h, m, down', {}, <<>>, up')
  PROVE  AgreeInv'
<1> DEFINE g == Handler(FALSE)
<1>1. /\ g'.power = power' /\ g'.mode = mode' /\ g'.powerPrev = powerPrev'
  BY DEF Handler
<1>2. AgreeTypes'
  BY DEF AgreeTypes
<1>3. FitSettings(Machine)' /\ HandlerOK(Handler(FALSE))'
  OBVIOUS
<1>4. (live /\ ~untold)' => InStep(Handler(FALSE), Machine, down, {}, <<>>, up)'
  OBVIOUS
<1> QED BY <1>1, <1>2, <1>3, <1>4 DEF AgreeInv

\* The handler as its variables are, and the machine.
LEMMA HandlerFields ==
  ASSUME NEW late
  PROVE  LET h == Handler(late) IN
         /\ h.power = power /\ h.mode = mode /\ h.run = run /\ h.powerPrev = powerPrev
         /\ h.modePrev = modePrev /\ h.memory = memory /\ h.every = every /\ h.slow = slow
         /\ h.shownMode = shownMode /\ h.shownAction = shownAction
         /\ h.out = <<>> /\ h.late = late
BY DEF Handler

\* Whether the timer is late does not tell on what the handler holds.
LEMMA LateFits ==
  ASSUME NEW late, HandlerOK(Handler(FALSE))
  PROVE  HandlerOK(Handler(late))
<1> DEFINE f == Handler(FALSE)
           g == Handler(late)
<1>1. /\ g.power = f.power /\ g.mode = f.mode /\ g.powerPrev = f.powerPrev
      /\ g.modePrev = f.modePrev /\ g.every = f.every /\ g.slow = f.slow
      /\ g.shownMode = f.shownMode /\ g.shownAction = f.shownAction
  BY DEF Handler
<1> HIDE DEF f, g
<1>2. HandlerOK(f)
  BY DEF f
<1>3. HandlerOK(g)
  BY <1>1, <1>2 DEF HandlerOK
<1> QED BY <1>3 DEF g

LEMMA HandlerKept ==
  ASSUME UNCHANGED <<raw, climate>>
  PROVE  Handler(FALSE)' = Handler(FALSE)
BY DEF Handler, raw, climate

LEMMA MachineKept ==
  ASSUME UNCHANGED <<mPower, mMode, mRun, mSet>>
  PROVE  Machine' = Machine
BY DEF Machine

\* A handler that is configured and live has power and mode.
LEMMA ConfiguredKnows ==
  ASSUME AgreeInv, StartInv, live, configured # 0, NEW late \in BOOLEAN
  PROVE  Knows(Handler(late))
<1>1. gotValues
  BY DEF StartInv, Stages, InCaps, InValues, InMask, InProbe, Done
<1>2. power # "unset" /\ mode # "unset" /\ Handler(FALSE) \in Handlers /\ HandlerOK(Handler(FALSE))
  BY <1>1 DEF AgreeInv, AgreeTypes
<1>3. Handler(late) \in Handlers
  BY <1>2 DEF Handler, Handlers
<1>4. HandlerOK(Handler(late))
  BY <1>2, LateFits
<1>5. power \in OnOff /\ mode \in Modes
  BY <1>2 DEF Handler, Handlers
<1> QED BY <1>3, <1>4, <1>5, HandlerFields DEF Knows

\* A query, a question or nothing is sent, and a report that tells no tag is taken.
LEMMA PlainSent ==
  ASSUME AgreeInv, UNCHANGED <<mPower, mMode, mRun, mSet, untold, raw, climate, live, gotValues>>,
         configured' \in Nat, configured' = 0 => configured = 0,
         NEW c \in Cmds, c.cmd # "set", down' = down \/ down' = Append(down, c),
         \/ up' = up
         \/ up # <<>> /\ up' = Tail(up) /\ DOMAIN Head(up).val \cap Tags = {}
  PROVE  AgreeInv'
<1> DEFINE h == Handler(FALSE)
           m == Machine
<1>1. /\ h \in Handlers /\ m \in Machines /\ down \in Seq(Cmds) /\ up \in Seq(Reports)
      /\ untold \in BOOLEAN /\ FitSettings(m) /\ HandlerOK(h)
      /\ configured = 0 => h.powerPrev = "unset"
      /\ gotValues /\ live => h.power # "unset" /\ h.mode # "unset"
      /\ live /\ ~untold => InStep(h, m, down, {}, <<>>, up)
  BY HandlerFields DEF AgreeInv, AgreeTypes
<1>2. h = Handler(FALSE)' /\ m = Machine'
  BY HandlerKept, MachineKept
<1> HIDE DEF h, m
<1>3. up' \in Seq(Reports) /\ down' \in Seq(Cmds)
  <2>1. up' \in Seq(Reports)
    BY <1>1, NextReport
  <2>2. down' \in Seq(Cmds)
    BY <1>1, AppendedCommand
  <2> QED BY <2>1, <2>2
<1>4. ASSUME live, ~untold PROVE InStep(h, m, down, {}, <<>>, up')
  <2>1. CASE up' = up
    BY <1>1, <1>4, <2>1
  <2>2. CASE up # <<>> /\ up' = Tail(up) /\ DOMAIN Head(up).val \cap Tags = {}
    <3> DEFINE val == Head(up).val
               ts == DOMAIN val
    <3>1. InStep(h, m, down, ts, val, Tail(up))
      BY <1>1, <1>4, <2>2, InStepBegin
    <3> QED BY <2>2, <3>1, InStepEnd
  <2> QED BY <2>1, <2>2
<1>5. ASSUME live, ~untold PROVE InStep(h, m, down', {}, <<>>, up')
  BY <1>1, <1>4, <1>5, OtherCommandAdded
<1> QED BY <1>1, <1>2, <1>3, <1>5, Established

\* Questions are commands that change nothing.
LEMMA PlainCommands ==
  /\ \A name \in {"caps", "query", "mask", "filter"} : Ask(name) \in Cmds /\ Ask(name).cmd = name
  /\ \A d \in Seq(Cmds), c \in Cmds : d \o <<c>> = Append(d, c)
<1>1. ASSUME NEW name \in {"caps", "query", "mask", "filter"}
      PROVE  Ask(name) \in Cmds /\ Ask(name).cmd = name
  BY DEF Ask, Cmds, Plain
<1>2. \A d \in Seq(Cmds), c \in Cmds : d \o <<c>> = Append(d, c)
  OBVIOUS
<1> QED BY <1>1, <1>2

\* The timers only ask; the end of the start also makes the configuration.
LEMMA TimersAgree ==
  ASSUME AgreeInv, CapsRetry \/ ValuesRetry \/ Poll \/ FilterPoll
  PROVE  AgreeInv'
<1>1. PICK name \in {"caps", "query", "filter"} : down' = down \o <<Ask(name)>>
  BY DEF CapsRetry, ValuesRetry, Poll, FilterPoll, SendAlone, Send
<1>2. /\ UNCHANGED <<machine, raw, climate, start, up>>
  BY DEF CapsRetry, ValuesRetry, Poll, FilterPoll
<1>3. down \in Seq(Cmds) /\ configured \in Nat
  BY DEF AgreeInv, AgreeTypes
<1> DEFINE c == Ask(name)
<1>4. c \in Cmds /\ c.cmd # "set" /\ down' = Append(down, c)
  BY <1>1, <1>3, PlainCommands
<1> HIDE DEF c
<1>5. /\ UNCHANGED <<mPower, mMode, mRun, mSet, untold, live, gotValues, configured, up>>
  BY <1>2 DEF machine, start
<1> QED BY <1>2, <1>3, <1>4, <1>5, PlainSent

LEMMA ConfigAgrees ==
  ASSUME AgreeInv, MaskExpire \/ ProbeExpire \/ ReceiveFilter
  PROVE  AgreeInv'
<1>1. /\ UNCHANGED <<machine, raw, climate, live, gotValues>>
      /\ configured' = configured \/ configured' = configured + 1
      /\ \/ down' = down
         \/ \E name \in {"query", "filter"} : down' = down \o <<Ask(name)>>
  BY DEF MaskExpire, ProbeExpire, ReceiveFilter, MakeConfig, Send
<1>2. down \in Seq(Cmds) /\ up \in Seq(Reports) /\ configured \in Nat
  BY DEF AgreeInv, AgreeTypes
<1>3. \/ up' = up
      \/ up # <<>> /\ up' = Tail(up) /\ DOMAIN Head(up).val \cap Tags = {}
  <2>1. CASE MaskExpire \/ ProbeExpire
    BY <2>1 DEF MaskExpire, ProbeExpire
  <2>2. CASE ReceiveFilter
    <3>1. up # <<>> /\ up' = Tail(up) /\ Head(up).kind = "filter"
      BY <2>2 DEF ReceiveFilter
    <3>2. Head(up) \in Reports
      BY <1>2, <3>1, NextReport
    <3>3. DOMAIN Head(up).val = {"life"}
      BY <3>1, <3>2 DEF Reports, ReportOK
    <3>4. "life" \notin Tags
      BY AirConditionerAssumption DEF Tags
    <3> QED BY <3>1, <3>3, <3>4
  <2> QED BY <2>1, <2>2
<1>4. \E c \in Cmds : c.cmd # "set" /\ (down' = down \/ down' = Append(down, c))
  BY <1>1, <1>2, PlainCommands
<1>5. /\ UNCHANGED <<mPower, mMode, mRun, mSet, untold>>
      /\ configured' \in Nat /\ (configured' = 0 => configured = 0)
  BY <1>1, <1>2 DEF machine
<1> QED BY <1>1, <1>3, <1>4, <1>5, PlainSent

\* Nothing happens.
LEMMA StillAgrees == ASSUME AgreeInv, UNCHANGED vars PROVE AgreeInv'
<1>1. /\ UNCHANGED <<mPower, mMode, mRun, mSet, untold, raw, climate, live, gotValues, configured>>
      /\ UNCHANGED <<up, down>>
  BY DEF vars, machine, start
<1>2. configured \in Nat
  BY DEF AgreeInv, AgreeTypes
<1>3. \E c \in Cmds : c.cmd # "set"
  BY PlainCommands
<1> QED BY <1>1, <1>2, <1>3, PlainSent

\* Back to the long interval while nothing goes on.
LEMMA SlowDownAgrees == ASSUME AgreeInv, SlowDown PROVE AgreeInv'
<1> DEFINE g == Handler(FALSE)
           h == Handler(FALSE)'
           m == Machine
<1>1. /\ g \in Handlers /\ m \in Machines /\ down \in Seq(Cmds) /\ up \in Seq(Reports)
      /\ untold \in BOOLEAN /\ FitSettings(m) /\ HandlerOK(g) /\ configured \in Nat
      /\ configured = 0 => g.powerPrev = "unset"
      /\ gotValues /\ live => g.power # "unset" /\ g.mode # "unset"
      /\ live /\ ~untold => InStep(g, m, down, {}, <<>>, up)
      /\ g.slow
  BY HandlerFields DEF AgreeInv, AgreeTypes, SlowDown
<1>2. m = Machine'
  BY MachineKept DEF SlowDown, machine
<1>3. UNCHANGED <<untold, down, up, configured, live, gotValues>>
  BY DEF SlowDown, machine, start
<1>4. h \in Handlers
  BY <1>1 DEF SlowDown, raw, Handler, Handlers
<1>5. /\ h.power = g.power /\ h.mode = g.mode /\ h.run = g.run /\ h.powerPrev = g.powerPrev
      /\ h.modePrev = g.modePrev /\ h.memory = g.memory /\ h.shownAction = g.shownAction
      /\ h.shownMode = g.shownMode
  BY DEF SlowDown, raw, Handler
<1> HIDE DEF g, m
<1>6. h = Handler(FALSE)'
  OBVIOUS
<1> HIDE DEF h
<1>7. HandlerOK(h)
  BY <1>1, <1>5 DEF HandlerOK
<1>8. live /\ ~untold => InStep(h, m, down, {}, <<>>, up)
  BY <1>1, <1>5, SameHandler
<1> QED BY <1>1, <1>2, <1>3, <1>4, <1>5, <1>6, <1>7, <1>8, Established

\* The connection ends, and another begins.
LEMMA ForgottenIsBlank ==
  ASSUME Handler(FALSE) \in Handlers, Forgotten, every' \in {"none", "slow"}, slow' \in BOOLEAN
  PROVE  /\ Handler(FALSE)' \in Handlers /\ HandlerOK(Handler(FALSE)')
         /\ Handler(FALSE)'.powerPrev = "unset"
<1> DEFINE h == Handler(FALSE)'
<1>1. h = [power |-> "unset", mode |-> "unset", run |-> FALSE, powerPrev |-> "unset",
           modePrev |-> "unset", memory |-> [s \in Switches |-> FALSE], every |-> every',
           slow |-> slow', shownMode |-> "unset", shownAction |-> "unset", out |-> <<>>,
           late |-> FALSE]
  BY DEF Handler, Forgotten
<1> HIDE DEF h
<1>2. h \in Handlers
  BY <1>1 DEF Handlers, Actions
<1>3. HandlerOK(h) /\ h.powerPrev = "unset"
  BY <1>1 DEF HandlerOK, Active
<1> QED BY <1>2, <1>3 DEF h

LEMMA SessionsAgree == ASSUME AgreeInv, Drop \/ NewSession PROVE AgreeInv'
<1> DEFINE h == Handler(FALSE)'
           m == Machine'
<1>1. /\ Handler(FALSE) \in Handlers /\ Machine \in Machines /\ slow \in BOOLEAN
      /\ untold \in BOOLEAN /\ FitSettings(Machine) /\ configured \in Nat
  BY DEF AgreeInv, AgreeTypes, Handler, Handlers
<1>2. Forgotten /\ every' \in {"none", "slow"} /\ slow' \in BOOLEAN
  BY <1>1 DEF Drop, NewSession
<1>3. h \in Handlers /\ HandlerOK(h) /\ h.powerPrev = "unset"
  BY <1>1, <1>2, ForgottenIsBlank
<1>4. m \in Machines /\ FitSettings(m)
  <2>1. CASE Drop
    BY <1>1, <2>1, MachineKept DEF Drop, machine
  <2>2. CASE NewSession
    <3>1. m = [power |-> mPower', mode |-> mMode', run |-> mRun', set |-> mSet']
      BY DEF Machine
    <3>2. /\ mPower' \in OnOff /\ mMode' \in Modes /\ mRun' \in BOOLEAN
          /\ mSet' \in [Switches -> Values]
          /\ \A s \in Switches : mSet'[s] # 0 => /\ mPower' = "on" /\ mMode' \in ApplyModes[s]
                                                /\ mSet'[s] = Wire(s, TRUE, mMode')
      BY <2>2 DEF NewSession
    <3> HIDE DEF m
    <3>3. /\ m \in Machines /\ m.power = mPower' /\ m.mode = mMode' /\ m.set = mSet'
      BY <3>1, <3>2 DEF Machines
    <3> QED BY <3>2, <3>3 DEF FitSettings
  <2> QED BY <1>2, <2>1, <2>2
<1>5. /\ down' \in Seq(Cmds) /\ up' \in Seq(Reports) /\ configured' \in Nat /\ untold' \in BOOLEAN
  <2>1. Ask("caps") \in Cmds
    BY PlainCommands
  <2> HIDE DEF h, m
  <2>2. <<Ask("caps")>> \in Seq(Cmds) /\ <<>> \in Seq(Cmds) /\ <<>> \in Seq(Reports)
    BY <2>1
  <2>3. CASE Drop
    BY <1>1, <2>2, <2>3 DEF Drop, machine
  <2>4. CASE NewSession
    BY <1>1, <2>2, <2>4 DEF NewSession
  <2> QED BY <2>3, <2>4
<1>6. ~(gotValues' /\ live') /\ ~(live' /\ ~untold')
  BY DEF Drop, NewSession
<1> HIDE DEF h, m
<1>7. h = Handler(FALSE)' /\ m = Machine'
  BY DEF h, m
<1> QED BY <1>3, <1>4, <1>5, <1>6, <1>7, Established

\* A report: its tags are handled, and the start may ask for more.
LEMMA ReportHandled ==
  ASSUME AgreeInv, StartInv, live, NEW late \in BOOLEAN, up # <<>>, Head(up).kind # "filter",
         NEW k, k = ProcessTags(Handler(late), Head(up).val)
  PROVE  /\ k \in Handlers /\ HandlerOK(k)
         /\ configured = 0 => k.powerPrev = "unset"
         /\ gotValues \/ Head(up).kind = "values" => k.power # "unset" /\ k.mode # "unset"
         /\ ~untold => InStep(k, Machine, down \o k.out, {}, <<>>, Tail(up))
<1> DEFINE g == Handler(late)
           m == Machine
           val == Head(up).val
           kind == Head(up).kind
<1>1. /\ Handler(FALSE) \in Handlers /\ m \in Machines /\ down \in Seq(Cmds) /\ up \in Seq(Reports)
      /\ FitSettings(m) /\ HandlerOK(Handler(FALSE))
      /\ configured = 0 => powerPrev = "unset"
      /\ gotValues => power # "unset" /\ mode # "unset"
      /\ ~untold => InStep(Handler(FALSE), m, down, {}, <<>>, up)
  BY DEF AgreeInv, AgreeTypes
<1>2. Head(up) \in Reports /\ Tail(up) \in Seq(Reports)
  BY <1>1, NextReport
<1>3. /\ ValOK(val) /\ DOMAIN val \subseteq Tags
      /\ kind = "values" => {"power", "mode"} \subseteq DOMAIN val
  BY <1>2 DEF Reports, ReportOK
<1>4. g \in Handlers
  BY <1>1 DEF Handler, Handlers
<1>5. HandlerOK(g)
  BY <1>1, LateFits
<1>6. /\ g.power = power /\ g.mode = mode /\ g.powerPrev = powerPrev /\ g.out = <<>>
  BY HandlerFields
<1>7. ~untold => InStep(g, m, down \o g.out, DOMAIN val, val, Tail(up))
  <2> SUFFICES ASSUME ~untold PROVE InStep(g, m, down, DOMAIN val, val, Tail(up))
    BY <1>1, <1>6
  <2>1. InStep(g, m, down, {}, <<>>, up)
    <3> DEFINE f == Handler(FALSE)
    <3>1. InStep(f, m, down, {}, <<>>, up)
      BY <1>1
    <3>2. /\ g.power = f.power /\ g.mode = f.mode /\ g.run = f.run /\ g.powerPrev = f.powerPrev
          /\ g.modePrev = f.modePrev /\ g.memory = f.memory /\ g.shownAction = f.shownAction
      BY DEF Handler
    <3> HIDE DEF f, g, m
    <3> QED BY <3>1, <3>2, SameHandler
  <2> HIDE DEF g, m
  <2> DEFINE ts == DOMAIN val
  <2>2. InStep(g, m, down, ts, val, Tail(up))
    BY <1>1, <2>1, InStepBegin
  <2> QED BY <2>2
<1>8. k = ProcessTags(g, val)
  OBVIOUS
<1>9. configured # 0 => Knows(g)
  BY ConfiguredKnows
<1>10. configured = 0 => Blank(g)
  BY <1>1, <1>4, <1>5, <1>6 DEF Blank
<1> HIDE DEF g, m, val, kind
<1>11. CASE configured # 0
  <2>1. Knows(k)
    BY <1>3, <1>8, <1>9, <1>11, ReportKnows
  <2>2. ~untold => InStep(k, m, down \o k.out, {}, <<>>, Tail(up))
    BY <1>1, <1>3, <1>7, <1>8, <1>9, <1>11, ReportInStep
  <2>3. k.power # "unset" /\ k.mode # "unset"
    BY <2>1, AirConditionerAssumption DEF Knows, OnOff
  <2> QED BY <1>11, <2>1, <2>2, <2>3 DEF Knows, m
<1>12. CASE configured = 0
  <2>1. /\ Blank(k)
        /\ k.power = IF "power" \in DOMAIN val THEN val["power"] ELSE g.power
        /\ k.mode = IF "mode" \in DOMAIN val THEN val["mode"] ELSE g.mode
        /\ k.run = IF "run" \in DOMAIN val THEN val["run"] ELSE g.run
    BY <1>3, <1>8, <1>10, <1>12, ReportBlank
  <2>2. k.powerPrev = "unset" /\ k.out = <<>> /\ g.powerPrev = "unset" /\ g.out = <<>>
    BY <1>10, <1>12, <2>1 DEF Blank
  <2>3. ~untold => InStep(k, m, down \o k.out, {}, <<>>, Tail(up))
    <3>1. ~untold => InStep(g, m, down, DOMAIN val, val, Tail(up))
      <4>1. down \o g.out = down
        <5>1. down \o <<>> = down
          BY <1>1
        <5> QED BY <2>2, <5>1
      <4> QED BY <1>7, <4>1
    <3>2. ~untold => InStep(k, m, down, {}, <<>>, Tail(up))
      BY <1>1, <1>3, <2>1, <2>2, <3>1, ReportStored
    <3>3. down \o k.out = down
      <4>1. down \o <<>> = down
        BY <1>1
      <4> QED BY <2>2, <4>1
    <3> QED BY <3>2, <3>3
  <2>4. /\ "power" \in DOMAIN val => val["power"] # "unset"
        /\ "mode" \in DOMAIN val => val["mode"] # "unset"
    BY <1>3, AirConditionerAssumption DEF ValOK, OnOff
  <2>5. gotValues \/ kind = "values" => k.power # "unset" /\ k.mode # "unset"
    BY <1>1, <1>3, <1>6, <2>1, <2>4
  <2> QED BY <2>1, <2>2, <2>3, <2>5 DEF Blank, m, kind
<1> QED BY <1>11, <1>12

LEMMA KeptIsHandler ==
  ASSUME NEW k \in Handlers, Keep(k)
  PROVE  Handler(FALSE)' \in Handlers
<1> DEFINE h == Handler(FALSE)'
<1>1. /\ k.power \in OnOff \cup {"unset"} /\ k.mode \in Modes \cup {"unset"} /\ k.run \in BOOLEAN
      /\ k.powerPrev \in OnOff \cup {"unset"} /\ k.modePrev \in Modes \cup {"off", "unset"}
      /\ k.memory \in [Switches -> BOOLEAN] /\ k.every \in {"none", "slow", "fast"}
      /\ k.slow \in BOOLEAN /\ k.shownMode \in Modes \cup {"off", "unset"}
      /\ k.shownAction \in Actions
  BY DEF Handlers
<1>2. h = [power |-> k.power, mode |-> k.mode, run |-> k.run, powerPrev |-> k.powerPrev,
           modePrev |-> k.modePrev, memory |-> k.memory, every |-> k.every, slow |-> k.slow,
           shownMode |-> k.shownMode, shownAction |-> k.shownAction, out |-> <<>>,
           late |-> FALSE]
  BY DEF Keep, Handler
<1> HIDE DEF h
<1>3. h \in Handlers
  BY <1>1, <1>2 DEF Handlers
<1> QED BY <1>3 DEF h

LEMMA ReceiveTLVAgrees ==
  ASSUME AgreeInv, StartInv, NEW late \in BOOLEAN, ReceiveTLV(late)
  PROVE  AgreeInv'
<1> DEFINE k == ProcessTags(Handler(late), Head(up).val)
           h == Handler(FALSE)'
           m == Machine
           caps == capsTimer /\ Head(up).kind = "caps"
           values == ~capsTimer /\ Head(up).kind = "values"
           first == values /\ ~gotValues
           asked == IF caps THEN <<Ask("query")>> ELSE <<>>
           unmask == IF first THEN <<Ask("mask")>> ELSE <<>>
<1>1. /\ live /\ up # <<>> /\ Head(up).kind # "filter" /\ up' = Tail(up)
      /\ Keep(k) /\ gotValues' = (gotValues \/ values)
      /\ down' = down \o (k.out \o asked \o unmask)
      /\ UNCHANGED <<machine, live, configured>>
  BY DEF ReceiveTLV, Send
<1>2. /\ m \in Machines /\ down \in Seq(Cmds) /\ up \in Seq(Reports) /\ FitSettings(m)
      /\ untold \in BOOLEAN /\ configured \in Nat
  BY DEF AgreeInv, AgreeTypes
<1>3. up' \in Seq(Reports)
  BY <1>1, <1>2, NextReport
<1>4. /\ k \in Handlers /\ HandlerOK(k)
      /\ configured = 0 => k.powerPrev = "unset"
      /\ gotValues \/ Head(up).kind = "values" => k.power # "unset" /\ k.mode # "unset"
      /\ ~untold => InStep(k, m, down \o k.out, {}, <<>>, Tail(up))
  BY <1>1, ReportHandled
<1>5. m = Machine'
  BY <1>1, MachineKept DEF machine
<1>6. \/ asked = <<>> /\ unmask = <<>>
      \/ asked = <<Ask("query")>> /\ unmask = <<>>
      \/ asked = <<>> /\ unmask = <<Ask("mask")>>
  OBVIOUS
<1>7. /\ UNCHANGED <<untold, live, configured>>
      /\ gotValues' => gotValues \/ Head(up).kind = "values"
  BY <1>1 DEF machine
<1> HIDE DEF k, m, caps, values, first, asked, unmask
<1>8. /\ h.power = k.power /\ h.mode = k.mode /\ h.run = k.run /\ h.powerPrev = k.powerPrev
      /\ h.modePrev = k.modePrev /\ h.memory = k.memory /\ h.every = k.every
      /\ h.slow = k.slow /\ h.shownMode = k.shownMode /\ h.shownAction = k.shownAction
  BY <1>1 DEF Keep, Handler
<1>9. h \in Handlers
  BY <1>1, <1>4, KeptIsHandler
<1>10. h = Handler(FALSE)'
  OBVIOUS
<1> HIDE DEF h
<1>11. HandlerOK(h)
  BY <1>4, <1>8 DEF HandlerOK
<1>12. ~untold => InStep(h, m, down \o k.out, {}, <<>>, Tail(up))
  BY <1>4, <1>8, SameHandler
<1> DEFINE b == down \o k.out
<1>13. k.out \in Seq(Cmds)
  BY <1>4 DEF Handlers
<1>14. /\ b \in Seq(Cmds)
       /\ \/ down' = b
          \/ \E c \in Cmds : c.cmd # "set" /\ down' = Append(b, c)
  <2>1. /\ Ask("query") \in Cmds /\ Ask("mask") \in Cmds
        /\ Ask("query").cmd # "set" /\ Ask("mask").cmd # "set"
    BY PlainCommands
  <2>2. \/ k.out \o asked \o unmask = k.out
        \/ \E c \in {Ask("query"), Ask("mask")} : k.out \o asked \o unmask = Append(k.out, c)
    <3>1. k.out \o <<>> = k.out
      BY <1>13
    <3>2. \A c \in Cmds : /\ k.out \o <<c>> = Append(k.out, c)
                         /\ Append(k.out, c) \o <<>> = Append(k.out, c)
      BY <1>13
    <3> QED BY <1>6, <2>1, <3>1, <3>2
  <2>3. \A c \in Cmds : down \o Append(k.out, c) = Append(b, c) /\ b \in Seq(Cmds)
    BY <1>2, <1>13, Sending
  <2> QED BY <1>1, <2>1, <2>2, <2>3
<1>15. ~untold => InStep(h, m, b, {}, <<>>, up')
  BY <1>1, <1>12
<1> HIDE DEF b
<1>16. down' \in Seq(Cmds) /\ (~untold => InStep(h, m, down', {}, <<>>, up'))
  <2>1. CASE down' = b
    BY <1>14, <1>15, <2>1
  <2>2. CASE \E c \in Cmds : c.cmd # "set" /\ down' = Append(b, c)
    <3>1. PICK c \in Cmds : c.cmd # "set" /\ down' = Append(b, c)
      BY <2>2
    <3>2. Append(b, c) \in Seq(Cmds)
      BY <1>14, AppendedCommand
    <3>3. ~untold => InStep(h, m, Append(b, c), {}, <<>>, up')
      BY <1>14, <1>15, <3>1, OtherCommandAdded
    <3> QED BY <3>1, <3>2, <3>3
  <2> QED BY <1>14, <2>1, <2>2
<1>17. /\ configured' \in Nat /\ untold' \in BOOLEAN
       /\ configured' = 0 => h.powerPrev = "unset"
       /\ gotValues' /\ live' => h.power # "unset" /\ h.mode # "unset"
       /\ live' /\ ~untold' => InStep(h, m, down', {}, <<>>, up')
  <2>1. configured' \in Nat /\ untold' \in BOOLEAN
    BY <1>2, <1>7
  <2>2. configured' = 0 => h.powerPrev = "unset"
    BY <1>4, <1>7, <1>8
  <2>3. gotValues' /\ live' => h.power # "unset" /\ h.mode # "unset"
    BY <1>4, <1>7, <1>8
  <2>4. live' /\ ~untold' => InStep(h, m, down', {}, <<>>, up')
    BY <1>7, <1>16
  <2> QED BY <2>1, <2>2, <2>3, <2>4
<1> QED BY <1>2, <1>3, <1>5, <1>9, <1>10, <1>11, <1>16, <1>17, Established

-----------------------------------------------------------------------------
(* The user.                                                               *)

\* A setting is remembered, and written if it applies.
LEMMA SettingWritten ==
  ASSUME NEW g \in Handlers, NEW m \in Machines, NEW d \in Seq(Cmds), NEW q, g.mode \in Modes,
         g.out = <<>>, InStep(g, m, d, {}, <<>>, q),
         NEW s \in Switches, NEW on \in BOOLEAN, NEW k \in Handlers,
         k.power = g.power, k.mode = g.mode, k.run = g.run,
         k.powerPrev = g.powerPrev, k.modePrev = g.modePrev, k.shownAction = g.shownAction,
         k.memory = [g.memory EXCEPT ![s] = on], d \o k.out = Resent(k, d \o g.out, s)
  PROVE  InStep(k, m, d \o k.out, {}, <<>>, q)
<1>1. d \o g.out = d
  <2>1. d \o <<>> = d
    OBVIOUS
  <2> QED BY <2>1
<1>2. \A u \in Switches \ {s} : k.memory[u] = g.memory[u]
  <2>1. g.memory \in [Switches -> BOOLEAN]
    BY DEF Handlers
  <2> QED BY <2>1
<1>3. ClimateInStep(k, m, d, {}, <<>>, q)
  <2>1. ClimateInStep(g, m, d, {}, <<>>, q)
    BY DEF InStep
  <2>2. Stored(k, m, d, {}, <<>>, q)
    BY <2>1 DEF ClimateInStep, Stored, ModeIsKnown, RunIsKnown
  <2>3. \A p : p = k.powerPrev => (PowerTurns(k, d, {}, <<>>, q) <=> PowerTurns(g, d, {}, <<>>, q))
    BY DEF PowerTurns
  <2>4. ModeTurns(k, m, d, {}, <<>>, q) <=> ModeTurns(g, m, d, {}, <<>>, q)
    BY DEF ModeTurns
  <2>5. SeenAction(k) = SeenAction(g)
    BY DEF SeenAction
  <2>6. g.powerPrev # "unset" => Seen(g, m, d, {}, <<>>, q)
    BY <2>1 DEF ClimateInStep
  <2>7. k.powerPrev # "unset" => Seen(k, m, d, {}, <<>>, q)
    BY <2>3, <2>4, <2>5, <2>6
    DEF Seen, PowerIsSeen, ModeIsSeen, PowerAhead, ModeAhead, SeenFits, ActionFollows
  <2> QED BY <2>2, <2>7 DEF ClimateInStep
<1>4. ASSUME NEW u \in Switches \ {s} PROVE SettingInStep(k, m, d, {}, <<>>, q, u)
  <2>1. SettingInStep(g, m, d, {}, <<>>, q, u)
    BY DEF InStep
  <2>2. k.memory[u] = g.memory[u]
    BY <1>2
  <2> QED BY <2>1, <2>2 DEF SettingInStep, Believed, SettingFollows, PowerTurns, ModeTurns
<1> DEFINE e == Resent(k, d, s)
<1>5. /\ ClimateInStep(k, m, e, {}, <<>>, q)
      /\ SettingInStep(k, m, e, {}, <<>>, q, s)
      /\ \A u \in Switches \ {s} : SettingInStep(k, m, d, {}, <<>>, q, u)
                                  => SettingInStep(k, m, e, {}, <<>>, q, u)
  BY <1>3, ResentInStep
<1> HIDE DEF e
<1>6. InStep(k, m, e, {}, <<>>, q)
  BY <1>4, <1>5 DEF InStep
<1> QED BY <1>1, <1>6 DEF e

\* A setting, a mode and power, as the user chooses them.
LEMMA HASettingAgrees ==
  ASSUME AgreeInv, StartInv, NEW s \in Switches, NEW on \in BOOLEAN, HASetting(s, on)
  PROVE  AgreeInv'
<1> DEFINE g == Handler(FALSE)
           k == WriteSetting(g, s, on)
           h == Handler(FALSE)'
           m == Machine
<1>1. live /\ configured > 0 /\ Keep(k) /\ down' = down \o k.out /\ UNCHANGED <<machine, up, start>>
  BY DEF HASetting, UserMay, Send
<1>2. /\ m \in Machines /\ down \in Seq(Cmds) /\ up \in Seq(Reports) /\ FitSettings(m)
      /\ untold \in BOOLEAN /\ configured \in Nat
      /\ ~untold => InStep(g, m, down, {}, <<>>, up)
  BY <1>1 DEF AgreeInv, AgreeTypes
<1>3. configured # 0 /\ Knows(g) /\ g.out = <<>>
  <2>1. configured # 0
    BY <1>1, <1>2
  <2> QED BY <1>1, <2>1, ConfiguredKnows, HandlerFields
<1>4. m = Machine' /\ UNCHANGED <<untold, live, configured, gotValues, up>>
  BY <1>1, MachineKept DEF machine, start
<1> HIDE DEF g, m
<1>5. g \in Handlers /\ HandlerOK(g) /\ g.power \in OnOff /\ g.mode \in Modes
  BY <1>3 DEF Knows
<1>6. /\ k \in Handlers
      /\ k.power = g.power /\ k.mode = g.mode /\ k.run = g.run
      /\ k.powerPrev = g.powerPrev /\ k.modePrev = g.modePrev
      /\ k.shownMode = g.shownMode /\ k.shownAction = g.shownAction
      /\ k.every = g.every /\ k.slow = g.slow /\ k.late = g.late
      /\ k.memory = [g.memory EXCEPT ![s] = on]
      /\ down \o k.out = Resent(k, down \o g.out, s)
  BY <1>5, <1>2, WrittenFields
<1>7. ~untold => InStep(k, m, down \o k.out, {}, <<>>, up)
  BY <1>2, <1>3, <1>5, <1>6, SettingWritten
<1> HIDE DEF k
<1>8. /\ h.power = k.power /\ h.mode = k.mode /\ h.run = k.run /\ h.powerPrev = k.powerPrev
      /\ h.modePrev = k.modePrev /\ h.memory = k.memory /\ h.every = k.every
      /\ h.slow = k.slow /\ h.shownMode = k.shownMode /\ h.shownAction = k.shownAction
  BY <1>1 DEF Keep, Handler
<1>9. h \in Handlers
  BY <1>1, <1>6, KeptIsHandler
<1>10. h = Handler(FALSE)'
  OBVIOUS
<1> HIDE DEF h
<1>11. HandlerOK(h)
  BY <1>5, <1>6, <1>8 DEF HandlerOK
<1>12. ~untold => InStep(h, m, down', {}, <<>>, up')
  BY <1>1, <1>4, <1>7, <1>8, SameHandler
<1>13. down' \in Seq(Cmds) /\ up' \in Seq(Reports)
  <2>1. k.out \in Seq(Cmds)
    BY <1>6 DEF Handlers
  <2> QED BY <1>1, <1>2, <1>4, <2>1, QueryIsCommand, Sending
<1>14. /\ configured' \in Nat /\ untold' \in BOOLEAN
       /\ configured' = 0 => h.powerPrev = "unset"
       /\ h.power # "unset" /\ h.mode # "unset"
       /\ live' /\ ~untold' => InStep(h, m, down', {}, <<>>, up')
  <2>1. h.power # "unset" /\ h.mode # "unset"
    BY <1>5, <1>6, <1>8, AirConditionerAssumption DEF OnOff
  <2> QED BY <1>2, <1>3, <1>4, <1>12, <2>1
<1> QED BY <1>2, <1>4, <1>9, <1>10, <1>11, <1>13, <1>14, Established

\* A mode is ordered and stored.  Until it is reached or another report of the mode is
\* handled, the hooks of a mode that is left are still to come.
LEMMA ModeOrdered ==
  ASSUME NEW g, NEW m, NEW d \in Seq(Cmds), NEW q, NEW x \in Modes,
         NEW c \in Cmds, c = [cmd |-> "mode", mode |-> x],
         InStep(g, m, d, {}, <<>>, q),
         NEW k, k.power = g.power, k.mode = x, k.run = g.run, k.powerPrev = g.powerPrev,
         k.modePrev = g.modePrev, k.memory = g.memory, k.shownAction = g.shownAction
  PROVE  InStep(k, m, Append(d, c), {}, <<>>, q)
<1> DEFINE e == Append(d, c)
<1>1. Brings(c, x) /\ c.cmd # "set"
  BY DEF Brings
<1>2. InStep(g, m, e, {}, <<>>, q)
  BY <1>1, OtherCommandAdded
<1>3. Brought(e, x)
  BY <1>1, BroughtAppend
<1>4. ASSUME k.powerPrev # "unset", k.modePrev \in Modes, x # k.modePrev
      PROVE  ModeTurns(k, m, e, {}, <<>>, q)
  <2>1. m.mode = k.modePrev \/ TellsOther({}, <<>>, q, "mode", k.modePrev) \/ Brought(d, k.modePrev)
    BY <1>4 DEF InStep, ClimateInStep, Seen, ModeIsSeen
  <2>2. CASE TellsOther({}, <<>>, q, "mode", k.modePrev)
    BY <1>4, <2>2 DEF ModeTurns
  <2>3. CASE m.mode = k.modePrev \/ Brought(d, k.modePrev)
    <3>1. \E y \in Modes \ {k.modePrev} : Brings(c, y)
      BY <1>1, <1>4
    <3>2. Strays(e, k.modePrev, m.mode)
      BY <2>3, <3>1, StraysAppend
    <3> QED BY <1>4, <3>2 DEF ModeTurns
  <2> QED BY <2>1, <2>2, <2>3
<1> HIDE DEF e
<1>5. ClimateInStep(k, m, e, {}, <<>>, q)
  <2>1. ClimateInStep(g, m, e, {}, <<>>, q)
    BY <1>2 DEF InStep
  <2>2. Stored(k, m, e, {}, <<>>, q)
    BY <1>3, <2>1 DEF ClimateInStep, Stored, ModeIsKnown, RunIsKnown
  <2>3. PowerTurns(k, e, {}, <<>>, q) <=> PowerTurns(g, e, {}, <<>>, q)
    BY DEF PowerTurns
  <2>4. ModeTurns(k, m, e, {}, <<>>, q) <=> ModeTurns(g, m, e, {}, <<>>, q)
    BY DEF ModeTurns
  <2>5. SeenAction(k) = SeenAction(g)
    BY DEF SeenAction
  <2>6. ASSUME k.powerPrev # "unset" PROVE Seen(k, m, e, {}, <<>>, q)
    <3>1. Seen(g, m, e, {}, <<>>, q)
      BY <2>1, <2>6 DEF ClimateInStep
    <3>2. ModeAhead(k, m, e, {}, <<>>, q)
      BY <1>4, <2>6 DEF ModeAhead
    <3> QED BY <2>3, <2>4, <2>5, <3>1, <3>2
            DEF Seen, PowerIsSeen, ModeIsSeen, PowerAhead, SeenFits, ActionFollows
  <2> QED BY <2>2, <2>6 DEF ClimateInStep
<1>6. ASSUME NEW u \in Switches PROVE SettingInStep(k, m, e, {}, <<>>, q, u)
  <2>1. SettingInStep(g, m, e, {}, <<>>, q, u)
    BY <1>2 DEF InStep
  <2> QED BY <2>1 DEF SettingInStep, Believed, SettingFollows, PowerTurns, ModeTurns
<1>7. InStep(k, m, e, {}, <<>>, q)
  BY <1>5, <1>6 DEF InStep
<1> QED BY <1>7 DEF e

\* Power is ordered and stored.
LEMMA PowerOrdered ==
  ASSUME NEW g, NEW m, NEW d \in Seq(Cmds), NEW q,
         NEW c \in Cmds, c.cmd = "power",
         InStep(g, m, d, {}, <<>>, q),
         NEW k, k.power = c.power, k.mode = g.mode, k.run = g.run, k.powerPrev = g.powerPrev,
         k.modePrev = g.modePrev, k.memory = g.memory, k.shownAction = g.shownAction
  PROVE  InStep(k, m, Append(d, c), {}, <<>>, q)
<1> DEFINE e == Append(d, c)
<1>1. InStep(g, m, e, {}, <<>>, q)
  BY OtherCommandAdded
<1>2. k.power # k.powerPrev => PowerSent(e, k.powerPrev)
  BY PowerSentAppend
<1> HIDE DEF e
<1>3. ClimateInStep(k, m, e, {}, <<>>, q)
  <2>1. ClimateInStep(g, m, e, {}, <<>>, q)
    BY <1>1 DEF InStep
  <2>2. Stored(k, m, e, {}, <<>>, q)
    BY <2>1 DEF ClimateInStep, Stored, ModeIsKnown, RunIsKnown
  <2>3. PowerTurns(k, e, {}, <<>>, q) <=> PowerTurns(g, e, {}, <<>>, q)
    BY DEF PowerTurns
  <2>4. ModeTurns(k, m, e, {}, <<>>, q) <=> ModeTurns(g, m, e, {}, <<>>, q)
    BY DEF ModeTurns
  <2>5. SeenAction(k) = SeenAction(g)
    BY DEF SeenAction
  <2>6. ASSUME k.powerPrev # "unset" PROVE Seen(k, m, e, {}, <<>>, q)
    <3>1. Seen(g, m, e, {}, <<>>, q)
      BY <2>1, <2>6 DEF ClimateInStep
    <3>2. PowerAhead(k, e, {}, <<>>, q)
      BY <1>2 DEF PowerAhead, PowerTurns
    <3> QED BY <2>3, <2>4, <2>5, <3>1, <3>2
            DEF Seen, PowerIsSeen, ModeIsSeen, ModeAhead, SeenFits, ActionFollows
  <2> QED BY <2>2, <2>6 DEF ClimateInStep
<1>4. ASSUME NEW u \in Switches PROVE SettingInStep(k, m, e, {}, <<>>, q, u)
  <2>1. SettingInStep(g, m, e, {}, <<>>, q, u)
    BY <1>1 DEF InStep
  <2> QED BY <2>1 DEF SettingInStep, Believed, SettingFollows, PowerTurns, ModeTurns
<1>5. InStep(k, m, e, {}, <<>>, q)
  BY <1>3, <1>4 DEF InStep
<1> QED BY <1>5 DEF e

LEMMA HAModeAgrees ==
  ASSUME AgreeInv, StartInv, NEW x \in Modes, HAMode(x)
  PROVE  AgreeInv'
<1> DEFINE g == Handler(FALSE)
           h == Handler(FALSE)'
           m == Machine
           c == [cmd |-> "mode", mode |-> x]
<1>1. /\ live /\ configured > 0 /\ mode' = x /\ down' = down \o <<c>>
      /\ UNCHANGED <<machine, up, start, power, run, climate>>
  BY DEF HAMode, UserMay, Send
<1>2. /\ m \in Machines /\ down \in Seq(Cmds) /\ up \in Seq(Reports) /\ FitSettings(m)
      /\ untold \in BOOLEAN /\ configured \in Nat
      /\ ~untold => InStep(g, m, down, {}, <<>>, up)
  BY <1>1 DEF AgreeInv, AgreeTypes
<1>3. configured # 0 /\ Knows(g)
  <2>1. configured # 0
    BY <1>1, <1>2
  <2> QED BY <1>1, <2>1, ConfiguredKnows
<1>4. m = Machine' /\ UNCHANGED <<untold, live, configured, gotValues, up>>
  BY <1>1, MachineKept DEF machine, start
<1>5. c \in Cmds
  BY DEF Cmds, Moves
<1>6. /\ h.power = g.power /\ h.mode = x /\ h.run = g.run /\ h.powerPrev = g.powerPrev
      /\ h.modePrev = g.modePrev /\ h.memory = g.memory /\ h.every = g.every
      /\ h.slow = g.slow /\ h.shownMode = g.shownMode /\ h.shownAction = g.shownAction
  BY <1>1 DEF climate, Handler
<1>7. h \in Handlers
  BY <1>1, <1>3 DEF Knows, climate, Handler, Handlers
<1>8. h = Handler(FALSE)'
  OBVIOUS
<1> HIDE DEF g, h, m
<1>9. HandlerOK(h) /\ h.power # "unset" /\ h.mode # "unset"
  <2>1. h.power # "unset" /\ h.mode # "unset"
    BY <1>3, <1>6, AirConditionerAssumption DEF Knows, OnOff
  <2>2. HandlerOK(g)
    BY <1>3 DEF Knows
  <2> QED BY <1>6, <2>1, <2>2 DEF HandlerOK
<1>10. down' = Append(down, c) /\ down' \in Seq(Cmds)
  BY <1>1, <1>2, <1>5, PlainCommands, AppendedCommand
<1>11. ~untold => InStep(h, m, Append(down, c), {}, <<>>, up)
  BY <1>2, <1>5, <1>6, ModeOrdered
<1>12. /\ configured' \in Nat /\ untold' \in BOOLEAN /\ up' \in Seq(Reports)
       /\ configured' # 0
       /\ live' /\ ~untold' => InStep(h, m, down', {}, <<>>, up')
  BY <1>2, <1>3, <1>4, <1>10, <1>11
<1> QED BY <1>2, <1>4, <1>7, <1>8, <1>9, <1>10, <1>12, Established

LEMMA HAPowerAgrees ==
  ASSUME AgreeInv, StartInv, NEW p \in OnOff, HAPower(p)
  PROVE  AgreeInv'
<1> DEFINE g == Handler(FALSE)
           h == Handler(FALSE)'
           m == Machine
           c == [cmd |-> "power", power |-> p, mode |-> IF p = "on" THEN mode ELSE "unset"]
<1>1. /\ live /\ configured > 0 /\ power' = p /\ down' = down \o <<c>>
      /\ UNCHANGED <<machine, up, start, mode, run, climate>>
  BY DEF HAPower, UserMay, Send
<1>2. /\ m \in Machines /\ down \in Seq(Cmds) /\ up \in Seq(Reports) /\ FitSettings(m)
      /\ untold \in BOOLEAN /\ configured \in Nat
      /\ ~untold => InStep(g, m, down, {}, <<>>, up)
  BY <1>1 DEF AgreeInv, AgreeTypes
<1>3. configured # 0 /\ Knows(g)
  <2>1. configured # 0
    BY <1>1, <1>2
  <2> QED BY <1>1, <2>1, ConfiguredKnows
<1>4. m = Machine' /\ UNCHANGED <<untold, live, configured, gotValues, up>>
  BY <1>1, MachineKept DEF machine, start
<1>5. c \in Cmds /\ c.cmd = "power" /\ c.power = p
  <2>1. mode \in Modes
    BY <1>3, HandlerFields DEF Knows
  <2> QED BY <2>1 DEF Cmds, Moves, OnOff
<1>6. /\ h.power = p /\ h.mode = g.mode /\ h.run = g.run /\ h.powerPrev = g.powerPrev
      /\ h.modePrev = g.modePrev /\ h.memory = g.memory /\ h.every = g.every
      /\ h.slow = g.slow /\ h.shownMode = g.shownMode /\ h.shownAction = g.shownAction
  BY <1>1 DEF climate, Handler
<1>7. h \in Handlers
  BY <1>1, <1>3 DEF Knows, climate, Handler, Handlers
<1>8. h = Handler(FALSE)'
  OBVIOUS
<1> HIDE DEF g, h, m, c
<1>9. HandlerOK(h) /\ h.power # "unset" /\ h.mode # "unset"
  <2>1. h.power # "unset" /\ h.mode # "unset"
    BY <1>3, <1>6, AirConditionerAssumption DEF Knows, OnOff
  <2>2. HandlerOK(g)
    BY <1>3 DEF Knows
  <2> QED BY <1>6, <2>1, <2>2 DEF HandlerOK
<1>10. down' = Append(down, c) /\ down' \in Seq(Cmds)
  BY <1>1, <1>2, <1>5, PlainCommands, AppendedCommand
<1>11. ~untold => InStep(h, m, Append(down, c), {}, <<>>, up)
  BY <1>2, <1>5, <1>6, PowerOrdered
<1>12. /\ configured' \in Nat /\ untold' \in BOOLEAN /\ up' \in Seq(Reports)
       /\ configured' # 0
       /\ live' /\ ~untold' => InStep(h, m, down', {}, <<>>, up')
  BY <1>2, <1>3, <1>4, <1>10, <1>11
<1> QED BY <1>2, <1>4, <1>7, <1>8, <1>9, <1>10, <1>12, Established

-----------------------------------------------------------------------------
(* The machine.                                                            *)

\* A change is told as it is, or not at all.
LEMMA ChangeIsReport ==
  ASSUME NEW m2 \in Machines, NEW T \in SUBSET Tags, NEW r,
         r = [kind |-> "notify", val |-> [t \in T |-> TagValue(m2, t)]]
  PROVE  r \in Reports
<1> DEFINE val == [t \in T |-> TagValue(m2, t)]
<1>1. /\ m2.power \in OnOff /\ m2.mode \in Modes /\ m2.run \in BOOLEAN
      /\ \A s \in Switches : m2.set[s] \in Values
  BY DEF Machines
<1>2. /\ TagValue(m2, "power") \in OnOff /\ TagValue(m2, "mode") \in Modes
      /\ TagValue(m2, "run") \in BOOLEAN
      /\ \A s \in Switches : TagValue(m2, s) \in Values
  BY <1>1, TagValues
<1>3. \A t \in Tags : TagValue(m2, t) \in AllValues
  BY <1>2 DEF Tags, AllValues
<1>4. DOMAIN val = T /\ val \in [T -> AllValues] /\ \A t \in T : val[t] = TagValue(m2, t)
  BY <1>3
<1> HIDE DEF val
<1>5. val \in Vals
  BY <1>4 DEF Vals
<1>6. ValOK(val)
  BY <1>2, <1>4 DEF ValOK
<1>7. r = [kind |-> "notify", val |-> val]
  BY DEF val
<1> HIDE DEF val
<1>8. r.kind = "notify" /\ r.val = val /\ r \in [kind : Kinds, val : Vals]
  BY <1>5, <1>7 DEF Kinds
<1>9. ReportOK(r)
  BY <1>4, <1>6, <1>8 DEF ReportOK
<1> QED BY <1>8, <1>9 DEF Reports

LEMMA BecomesTold ==
  ASSUME Machine \in Machines, up \in Seq(Reports), untold \in BOOLEAN,
         NEW m2 \in Machines, Becomes(m2.power, m2.mode, m2.run, m2.set)
  PROVE  /\ Machine' = m2 /\ up' \in Seq(Reports) /\ untold' \in BOOLEAN
         /\ ~untold' => ~untold /\ Told(Machine, m2, up, up')
<1> DEFINE m == Machine
           new == TagsOf(m2.power, m2.mode, m2.run, m2.set)
           changed == {t \in Tags : new[t] # MachineTags[t]}
           r == [kind |-> "notify", val |-> [t \in changed |-> new[t]]]
<1>1. /\ mPower' = m2.power /\ mMode' = m2.mode /\ mRun' = m2.run /\ mSet' = m2.set
      /\ IF changed = {} THEN UNCHANGED <<up, untold>>
         ELSE \/ Report("notify", [t \in changed |-> new[t]]) /\ UNCHANGED untold
              \/ masked /\ untold' = TRUE /\ UNCHANGED up
  BY DEF Becomes
<1>2. Machine' = m2
  BY <1>1 DEF Machine, Machines
<1>3. \A t \in Tags : new[t] = TagValue(m2, t) /\ MachineTags[t] = TagValue(m, t)
  BY DEF TagsOf, MachineTags, TagValue, Machine
<1>4. CASE changed = {}
  <2>1. \A t \in Tags : TagValue(m2, t) = TagValue(m, t)
    BY <1>3, <1>4
  <2> HIDE DEF changed, new, m, r
  <2>2. /\ m2.power = m.power /\ m2.mode = m.mode /\ m2.run = m.run
        /\ \A s \in Switches : m2.set[s] = m.set[s]
    BY <2>1, TagValues
  <2>3. m \in Machines
    BY DEF m
  <2>4. m2 = m
    <3>1. m2.set = m.set
      BY <2>2, <2>3 DEF Machines
    <3> QED BY <2>2, <2>3, <3>1 DEF Machines
  <2>5. up' = up /\ untold' = untold
    BY <1>1, <1>4
  <2> QED BY <1>2, <2>4, <2>5 DEF Told, m
<1>5. CASE Report("notify", [t \in changed |-> new[t]]) /\ UNCHANGED untold
  <2>1. up' = Append(up, r) /\ untold' = untold
    BY <1>5 DEF Report
  <2>2. changed \in SUBSET Tags
    OBVIOUS
  <2>3. r = [kind |-> "notify", val |-> [t \in changed |-> TagValue(m2, t)]]
    BY <1>3
  <2>4. r \in Reports
    BY <2>2, <2>3, ChangeIsReport
  <2>5. DOMAIN r.val = changed /\ \A t \in changed : r.val[t] = TagValue(m2, t)
    BY <1>3
  <2>6. \A t \in Tags \ changed : TagValue(m2, t) = TagValue(m, t)
    BY <1>3
  <2> HIDE DEF r, changed
  <2>7. \A t \in Tags : IF t \in DOMAIN r.val THEN r.val[t] = TagValue(m2, t)
                        ELSE TagValue(m2, t) = TagValue(m, t)
    BY <2>5, <2>6
  <2>8. Told(Machine, m2, up, up')
    BY <2>1, <2>4, <2>7 DEF Told
  <2>9. up' \in Seq(Reports)
    BY <2>1, <2>4
  <2> QED BY <1>2, <2>1, <2>8, <2>9
<1>6. CASE changed # {} /\ masked /\ untold' = TRUE /\ UNCHANGED up
  BY <1>2, <1>6
<1> QED BY <1>1, <1>4, <1>5, <1>6

\* What every step of the machine comes to.
LEMMA MachineAgrees ==
  ASSUME AgreeInv, live, NotHandler, NEW m2 \in Machines, FitSettings(m2),
         Becomes(m2.power, m2.mode, m2.run, m2.set), ModalEnd(Machine, m2),
         TakesFrom(Machine, m2, down, down')
  PROVE  AgreeInv'
<1> DEFINE h == Handler(FALSE)
           m == Machine
<1>1. /\ h \in Handlers /\ m \in Machines /\ down \in Seq(Cmds) /\ up \in Seq(Reports)
      /\ untold \in BOOLEAN /\ HandlerOK(h) /\ configured \in Nat
      /\ configured = 0 => h.powerPrev = "unset"
      /\ gotValues => h.power # "unset" /\ h.mode # "unset"
      /\ ~untold => InStep(h, m, down, {}, <<>>, up)
  BY HandlerFields DEF AgreeInv, AgreeTypes
<1>2. h = Handler(FALSE)'
  BY HandlerKept DEF NotHandler
<1>3. UNCHANGED <<live, gotValues, configured>>
  BY DEF NotHandler, start
<1>4. /\ m2 = Machine' /\ up' \in Seq(Reports) /\ untold' \in BOOLEAN
      /\ ~untold' => ~untold /\ Told(m, m2, up, up')
  BY <1>1, BecomesTold
<1>5. TakesFrom(m, m2, down, down') /\ ModalEnd(m, m2)
  OBVIOUS
<1> HIDE DEF h, m
<1>6. down' \in Seq(Cmds)
  BY <1>1, <1>5, TakenCommand DEF TakesFrom
<1>7. ASSUME ~untold' PROVE InStep(h, m2, down', {}, <<>>, up')
  BY <1>1, <1>4, <1>5, <1>7, MachineStep
<1>8. /\ configured' \in Nat
      /\ configured' = 0 => h.powerPrev = "unset"
      /\ gotValues' /\ live' => h.power # "unset" /\ h.mode # "unset"
      /\ live' /\ ~untold' => InStep(h, m2, down', {}, <<>>, up')
  BY <1>1, <1>3, <1>7
<1> QED BY <1>1, <1>2, <1>4, <1>6, <1>8, Established

\* The machine as its variables are.
LEMMA MachineFields ==
  ASSUME AgreeInv
  PROVE  /\ Machine.power = mPower /\ Machine.mode = mMode /\ Machine.run = mRun
         /\ Machine.set = mSet
         /\ mPower \in OnOff /\ mMode \in Modes /\ mRun \in BOOLEAN /\ mSet \in [Switches -> Values]
         /\ \A s \in Switches : mSet[s] # 0 => /\ mPower = "on" /\ mMode \in ApplyModes[s]
                                              /\ mSet[s] = Wire(s, TRUE, mMode)
<1>1. Machine \in Machines /\ FitSettings(Machine)
  BY DEF AgreeInv, AgreeTypes
<1>2. /\ Machine.power = mPower /\ Machine.mode = mMode /\ Machine.run = mRun
      /\ Machine.set = mSet
  BY DEF Machine
<1> QED BY <1>1, <1>2 DEF Machines, FitSettings

\* The machines it becomes: off; in another mode; with a setting changed.
LEMMA TurnedOff ==
  ASSUME AgreeInv, NEW p \in OnOff, NEW m2, NEW r \in BOOLEAN,
         m2 = [power |-> p, mode |-> mMode, run |-> r, set |-> Reset]
  PROVE  m2 \in Machines /\ FitSettings(m2) /\ ModalEnd(Machine, m2)
<1>1. /\ Machine.mode = mMode /\ mMode \in Modes
  BY MachineFields
<1>2. Reset \in [Switches -> Values] /\ \A s \in Switches : Reset[s] = 0
  BY DEF Reset, Values
<1>3. m2 \in Machines /\ m2.mode = mMode /\ m2.set = Reset
  BY <1>1, <1>2 DEF Machines
<1> QED BY <1>1, <1>2, <1>3 DEF FitSettings, ModalEnd

LEMMA ModeEntered ==
  ASSUME AgreeInv, NEW x \in Modes, NEW m2,
         m2 = [power |-> "on", mode |-> x, run |-> mRun, set |-> Ended(x)]
  PROVE  m2 \in Machines /\ FitSettings(m2) /\ ModalEnd(Machine, m2)
<1>1. /\ Machine.mode = mMode /\ mMode \in Modes /\ mRun \in BOOLEAN
      /\ mSet \in [Switches -> Values]
      /\ \A s \in Switches : mSet[s] # 0 => /\ mPower = "on" /\ mMode \in ApplyModes[s]
                                           /\ mSet[s] = Wire(s, TRUE, mMode)
  BY MachineFields
<1>2. /\ Ended(x) \in [Switches -> Values]
      /\ \A s \in Switches : Ended(x)[s] # 0 =>
           /\ Ended(x)[s] = mSet[s]
           /\ x = mMode \/ s = "airclean"
  BY <1>1 DEF Ended, Values
<1> DEFINE set2 == Ended(x)
<1> HIDE DEF set2
<1>3. /\ m2 = [power |-> "on", mode |-> x, run |-> mRun, set |-> set2]
      /\ set2 \in [Switches -> Values]
      /\ \A s \in Switches : set2[s] # 0 => set2[s] = mSet[s] /\ (x = mMode \/ s = "airclean")
  BY <1>2 DEF set2
<1>4. m2 \in Machines /\ m2.mode = x /\ m2.set = set2 /\ m2.power = "on"
  BY <1>1, <1>3 DEF Machines, OnOff
<1>5. ASSUME NEW s \in Switches, set2[s] # 0
      PROVE  x \in ApplyModes[s] /\ set2[s] = Wire(s, TRUE, x)
  <2>1. CASE x = mMode
    BY <1>1, <1>3, <1>5, <2>1
  <2>2. CASE s = "airclean"
    BY <1>1, <1>3, <1>5, <2>2 DEF ApplyModes, Wire
  <2> QED BY <1>3, <1>5, <2>1, <2>2
<1>6. FitSettings(m2)
  BY <1>4, <1>5 DEF FitSettings
<1>7. ModalEnd(Machine, m2)
  BY <1>1, <1>3, <1>4 DEF ModalEnd, Modal
<1> QED BY <1>4, <1>6, <1>7

LEMMA SettingChanged ==
  ASSUME AgreeInv, mPower = "on", NEW s \in Switches, mMode \in ApplyModes[s],
         NEW v, v \in {0, Wire(s, TRUE, mMode)}, NEW m2,
         m2 = [power |-> "on", mode |-> mMode, run |-> mRun, set |-> [mSet EXCEPT ![s] = v]]
  PROVE  m2 \in Machines /\ FitSettings(m2) /\ ModalEnd(Machine, m2) /\ m2.set[s] = v
<1>1. /\ Machine.mode = mMode /\ mMode \in Modes /\ mRun \in BOOLEAN
      /\ mSet \in [Switches -> Values]
      /\ \A u \in Switches : mSet[u] # 0 => /\ mPower = "on" /\ mMode \in ApplyModes[u]
                                           /\ mSet[u] = Wire(u, TRUE, mMode)
  BY MachineFields
<1>2. v \in Values
  BY DEF Wire, Values
<1> DEFINE set2 == [mSet EXCEPT ![s] = v]
<1>3. set2 \in [Switches -> Values] /\ set2[s] = v /\ \A u \in Switches \ {s} : set2[u] = mSet[u]
  BY <1>1, <1>2
<1>4. m2 = [power |-> "on", mode |-> mMode, run |-> mRun, set |-> set2]
  OBVIOUS
<1> HIDE DEF set2
<1>5. m2 \in Machines /\ m2.mode = mMode /\ m2.set = set2 /\ m2.power = "on"
  BY <1>1, <1>3, <1>4 DEF Machines, OnOff
<1>6. \A u \in Switches : set2[u] # 0 => mMode \in ApplyModes[u] /\ set2[u] = Wire(u, TRUE, mMode)
  BY <1>1, <1>3
<1>7. FitSettings(m2)
  BY <1>5, <1>6 DEF FitSettings
<1>8. ModalEnd(Machine, m2)
  BY <1>1, <1>5 DEF ModalEnd
<1> QED BY <1>3, <1>5, <1>7, <1>8

LEMMA PanelAgrees ==
  ASSUME AgreeInv,
         \/ PanelPower \/ Thermostat
         \/ \E x \in Modes : PanelMode(x)
         \/ \E s \in Switches : PanelSetting(s)
  PROVE  AgreeInv'
<1>1. /\ mPower \in OnOff /\ mMode \in Modes /\ mRun \in BOOLEAN /\ mSet \in [Switches -> Values]
  BY MachineFields
<1>2. live /\ NotHandler /\ down' = down
  BY DEF PanelPower, PanelMode, PanelSetting, Thermostat, ByItself
<1>3. \A m2 : TakesFrom(Machine, m2, down, down')
  BY <1>2 DEF TakesFrom
<1>4. CASE PanelPower
  <2> DEFINE p == IF mPower = "on" THEN "off" ELSE "on"
             m2 == [power |-> p, mode |-> mMode, run |-> FALSE, set |-> Reset]
  <2>1. p \in OnOff /\ Becomes(p, mMode, FALSE, Reset)
    BY <1>4 DEF PanelPower, OnOff
  <2>2. Becomes(m2.power, m2.mode, m2.run, m2.set)
    BY <2>1
  <2> HIDE DEF p
  <2>3. m2 \in Machines /\ FitSettings(m2) /\ ModalEnd(Machine, m2)
    BY <2>1, TurnedOff
  <2> HIDE DEF m2
  <2> QED BY <1>2, <1>3, <2>2, <2>3, MachineAgrees
<1>5. CASE \E x \in Modes : PanelMode(x)
  <2>1. PICK x \in Modes : PanelMode(x)
    BY <1>5
  <2> DEFINE m2 == [power |-> "on", mode |-> x, run |-> mRun, set |-> Ended(x)]
  <2>2. Becomes(m2.power, m2.mode, m2.run, m2.set)
    BY <2>1 DEF PanelMode
  <2>3. m2 \in Machines /\ FitSettings(m2) /\ ModalEnd(Machine, m2)
    BY ModeEntered
  <2> HIDE DEF m2
  <2> QED BY <1>2, <1>3, <2>2, <2>3, MachineAgrees
<1>6. CASE \E s \in Switches : PanelSetting(s)
  <2>1. PICK s \in Switches : PanelSetting(s)
    BY <1>6
  <2> DEFINE v == IF mSet[s] = 0 THEN Wire(s, TRUE, mMode) ELSE 0
             m2 == [power |-> "on", mode |-> mMode, run |-> mRun, set |-> [mSet EXCEPT ![s] = v]]
  <2>2. /\ mPower = "on" /\ mMode \in ApplyModes[s]
        /\ Becomes("on", mMode, mRun, [mSet EXCEPT ![s] = v])
    BY <2>1 DEF PanelSetting
  <2>3. Becomes(m2.power, m2.mode, m2.run, m2.set)
    BY <2>2
  <2>4. v \in {0, Wire(s, TRUE, mMode)}
    OBVIOUS
  <2> HIDE DEF v
  <2>5. m2 \in Machines /\ FitSettings(m2) /\ ModalEnd(Machine, m2)
    BY <2>2, <2>4, SettingChanged
  <2> HIDE DEF m2
  <2> QED BY <1>2, <1>3, <2>3, <2>5, MachineAgrees
<1>7. CASE Thermostat
  <2> DEFINE m2 == [power |-> "on", mode |-> mMode, run |-> ~mRun, set |-> mSet]
  <2>1. mPower = "on" /\ Becomes("on", mMode, ~mRun, mSet)
    BY <1>7 DEF Thermostat
  <2>2. Becomes(m2.power, m2.mode, m2.run, m2.set)
    BY <2>1
  <2>3. m2 \in Machines /\ m2.power = mPower /\ m2.mode = mMode /\ m2.set = mSet
    BY <1>1, <2>1 DEF Machines, OnOff
  <2> HIDE DEF m2
  <2>4. FitSettings(m2) /\ ModalEnd(Machine, m2)
    BY <2>3, MachineFields DEF FitSettings, ModalEnd
  <2> QED BY <1>2, <1>3, <2>2, <2>3, <2>4, MachineAgrees
<1> QED BY <1>4, <1>5, <1>6, <1>7

\* A command is taken from the front.
LEMMA FrontTaken ==
  ASSUME AgreeInv, NEW name, Taken(name)
  PROVE  /\ live /\ down # <<>> /\ down' = Tail(down) /\ down' \in Seq(Cmds)
         /\ Head(down) \in Cmds /\ Head(down).cmd = name
BY TakenCommand DEF Taken, AgreeInv, AgreeTypes

\* Power, with the mode it may carry, and a mode are taken as they are.
LEMMA TakePowerAgrees ==
  ASSUME AgreeInv, TakePower
  PROVE  AgreeInv'
<1> DEFINE c == Head(down)
<1>1. /\ live /\ down # <<>> /\ down' = Tail(down) /\ c \in Cmds /\ c.cmd = "power" /\ NotHandler
  BY FrontTaken DEF TakePower
<1>2. /\ mPower \in OnOff /\ mMode \in Modes /\ mRun \in BOOLEAN /\ mSet \in [Switches -> Values]
  BY MachineFields
<1>3. \/ c.power = "on" /\ c.mode \in Modes
      \/ c.power = "off"
  BY <1>1 DEF Cmds, Plain, Sets, Moves
<1>4. /\ c.power = "off" => Becomes("off", mMode, FALSE, Reset)
      /\ c.power = "on" /\ c.mode \in Modes => Becomes("on", c.mode, mRun, Ended(c.mode))
  BY DEF TakePower
<1> HIDE DEF c
<1>5. CASE c.power = "off"
  <2> DEFINE m2 == [power |-> "off", mode |-> mMode, run |-> FALSE, set |-> Reset]
  <2>1. Becomes(m2.power, m2.mode, m2.run, m2.set) /\ m2.power = "off"
    BY <1>4, <1>5
  <2>2. m2 \in Machines /\ FitSettings(m2) /\ ModalEnd(Machine, m2)
    BY TurnedOff DEF OnOff
  <2> HIDE DEF m2
  <2>3. Obeys(c, Machine, m2)
    BY <1>1, <1>5, <2>1 DEF Obeys, Brings
  <2>4. TakesFrom(Machine, m2, down, down')
    BY <1>1, <2>3 DEF TakesFrom, c
  <2> QED BY <1>1, <2>1, <2>2, <2>4, MachineAgrees
<1>6. CASE c.power = "on" /\ c.mode \in Modes
  <2> DEFINE x == c.mode
             m2 == [power |-> "on", mode |-> x, run |-> mRun, set |-> Ended(x)]
  <2>1. Becomes(m2.power, m2.mode, m2.run, m2.set) /\ m2.power = "on" /\ m2.mode = x
    BY <1>4, <1>6
  <2>2. x \in Modes
    BY <1>6
  <2> HIDE DEF x
  <2>3. m2 \in Machines /\ FitSettings(m2) /\ ModalEnd(Machine, m2)
    BY <2>2, ModeEntered
  <2> HIDE DEF m2
  <2>4. Obeys(c, Machine, m2)
    BY <1>1, <1>6, <2>1 DEF Obeys, Brings, x
  <2>5. TakesFrom(Machine, m2, down, down')
    BY <1>1, <2>4 DEF TakesFrom, c
  <2> QED BY <1>1, <2>1, <2>3, <2>5, MachineAgrees
<1> QED BY <1>3, <1>5, <1>6

LEMMA TakeModeAgrees ==
  ASSUME AgreeInv, TakeMode
  PROVE  AgreeInv'
<1> DEFINE c == Head(down)
           x == c.mode
           m2 == [power |-> "on", mode |-> x, run |-> mRun, set |-> Ended(x)]
<1>1. /\ live /\ down # <<>> /\ down' = Tail(down) /\ c \in Cmds /\ c.cmd = "mode" /\ NotHandler
  BY FrontTaken DEF TakeMode
<1>2. Becomes(m2.power, m2.mode, m2.run, m2.set) /\ m2.mode = x
  BY DEF TakeMode
<1> HIDE DEF c
<1>3. x \in Modes
  BY <1>1 DEF Cmds, Plain, Sets, Moves
<1> HIDE DEF x
<1>4. m2 \in Machines /\ FitSettings(m2) /\ ModalEnd(Machine, m2)
  BY <1>3, ModeEntered
<1> HIDE DEF m2
<1>5. Obeys(c, Machine, m2)
  BY <1>1, <1>2 DEF Obeys, Brings, x
<1>6. TakesFrom(Machine, m2, down, down')
  BY <1>1, <1>5 DEF TakesFrom, c
<1> QED BY <1>1, <1>2, <1>4, <1>6, MachineAgrees

\* A setting that does not apply any more is ignored, but for 1 to Jet.
LEMMA TakeSettingAgrees ==
  ASSUME AgreeInv, TakeSetting
  PROVE  AgreeInv'
<1> DEFINE c == Head(down)
           s == c.setting
           v == c.value
<1>1. /\ live /\ down # <<>> /\ down' = Tail(down) /\ c \in Cmds /\ c.cmd = "set" /\ NotHandler
  BY FrontTaken DEF TakeSetting
<1>2. /\ Machine.power = mPower /\ Machine.mode = mMode /\ Machine.run = mRun
      /\ Machine.set = mSet
      /\ mPower \in OnOff /\ mMode \in Modes /\ mRun \in BOOLEAN /\ mSet \in [Switches -> Values]
      /\ Machine \in Machines /\ FitSettings(Machine)
  BY MachineFields DEF AgreeInv, AgreeTypes
<1>3. IF mPower = "on" /\ mMode \in ApplyModes[s] /\ v \in {0, Wire(s, TRUE, mMode)}
      THEN Becomes("on", mMode, mRun, [mSet EXCEPT ![s] = v])
      ELSE IF mPower = "off" /\ s = "jet" /\ v = 1
      THEN Becomes("on", "cool", FALSE, [Reset EXCEPT !["jet"] = 1])
      ELSE UNCHANGED <<mPower, mMode, mRun, mSet, up, untold>>
  BY DEF TakeSetting
<1> HIDE DEF c
<1>4. s \in Switches /\ (s = "jet" /\ v = 1 => "cool" \in JetModes)
  BY <1>1 DEF Cmds, Plain, Sets, Moves
<1>5. \A mm : ~Brings(c, mm)
  BY <1>1 DEF Brings
<1>6. CASE mPower = "on" /\ mMode \in ApplyModes[s] /\ v \in {0, Wire(s, TRUE, mMode)}
  <2> DEFINE m2 == [power |-> "on", mode |-> mMode, run |-> mRun, set |-> [mSet EXCEPT ![s] = v]]
  <2>1. Becomes(m2.power, m2.mode, m2.run, m2.set)
    BY <1>3, <1>6
  <2> HIDE DEF s, v
  <2>2. m2 \in Machines /\ FitSettings(m2) /\ ModalEnd(Machine, m2) /\ m2.set[s] = v
    BY <1>4, <1>6, SettingChanged
  <2> HIDE DEF m2
  <2>3. Obeys(c, Machine, m2)
    BY <1>1, <1>5, <2>2 DEF Obeys, s, v
  <2>4. TakesFrom(Machine, m2, down, down')
    BY <1>1, <2>3 DEF TakesFrom, c
  <2> QED BY <1>1, <2>1, <2>2, <2>4, MachineAgrees
<1>7. CASE mPower = "off" /\ s = "jet" /\ v = 1
  <2> DEFINE set2 == [Reset EXCEPT !["jet"] = 1]
             m2 == [power |-> "on", mode |-> "cool", run |-> FALSE, set |-> set2]
  <2>1. Becomes(m2.power, m2.mode, m2.run, m2.set)
    BY <1>3, <1>7
  <2>2. /\ set2 \in [Switches -> Values] /\ "jet" \in Switches /\ set2["jet"] = 1
        /\ \A u \in Switches : u # "jet" => set2[u] = 0
    BY <1>4, <1>7 DEF Reset, Values
  <2> HIDE DEF set2
  <2>3. m2 \in Machines /\ m2.power = "on" /\ m2.mode = "cool" /\ m2.set = set2
    BY <2>2, AirConditionerAssumption DEF Machines, OnOff
  <2> HIDE DEF m2
  <2>4. "cool" \in ApplyModes["jet"] /\ Wire("jet", TRUE, "cool") = 1
    BY <1>4, <1>7 DEF ApplyModes, Wire
  <2>5. FitSettings(m2)
    BY <2>2, <2>3, <2>4 DEF FitSettings
  <2>6. \A u \in Switches : mSet[u] = 0
    BY <1>2, <1>7 DEF FitSettings
  <2>7. ModalEnd(Machine, m2)
    BY <1>2, <2>6 DEF ModalEnd
  <2>8. Obeys(c, Machine, m2)
    BY <1>1, <1>2, <1>5, <1>7 DEF Obeys
  <2>9. TakesFrom(Machine, m2, down, down')
    BY <1>1, <2>8 DEF TakesFrom, c
  <2> QED BY <1>1, <2>1, <2>3, <2>5, <2>7, <2>9, MachineAgrees
<1>8. CASE /\ ~(mPower = "on" /\ mMode \in ApplyModes[s] /\ v \in {0, Wire(s, TRUE, mMode)})
           /\ ~(mPower = "off" /\ s = "jet" /\ v = 1)
  <2> DEFINE m2 == Machine
  <2>1. UNCHANGED <<mPower, mMode, mRun, mSet, up, untold>>
    BY <1>3, <1>8
  <2>2. Obeys(c, Machine, m2)
    BY <1>1, <1>2, <1>5, <1>8 DEF Obeys
  <2>3. TakesFrom(Machine, m2, down, down')
    BY <1>1, <2>2 DEF TakesFrom, c
  <2>4. Becomes(m2.power, m2.mode, m2.run, m2.set)
    BY <1>2, <2>1 DEF Becomes, MachineTags
  <2>5. ModalEnd(Machine, m2)
    BY DEF ModalEnd
  <2> QED BY <1>1, <1>2, <2>3, <2>4, <2>5, MachineAgrees
<1> QED BY <1>6, <1>7, <1>8

\* An answer to a query tells everything: handler and machine are in step whatever was.
LEMMA QueryTells ==
  ASSUME NEW h, NEW m, NEW d, NEW q \in Seq(Reports), NEW r \in Reports, DOMAIN r.val = Tags,
         \A t \in Tags : r.val[t] = TagValue(m, t)
  PROVE  InStep(h, m, d, {}, <<>>, Append(q, r))
<1> DEFINE p == Append(q, r)
<1>1. /\ \A t \in Tags : Tells({}, p, t) /\ LastSays({}, <<>>, p, t, TagValue(m, t))
      /\ \A t \in Tags : \A v : TagValue(m, t) # v => TellsOther({}, <<>>, p, t, v)
      /\ Covers({}, p)
  <2>1. /\ \A t : Tells({}, p, t) <=> Tells({}, q, t) \/ t \in DOMAIN r.val
        /\ \A t, v : \/ t \in DOMAIN r.val /\ r.val[t] = v
                     \/ t \notin DOMAIN r.val /\ LastSays({}, <<>>, q, t, v)
                     => LastSays({}, <<>>, p, t, v)
        /\ \A t, v : \/ t \in DOMAIN r.val /\ r.val[t] # v
                     \/ TellsOther({}, <<>>, q, t, v)
                     => TellsOther({}, <<>>, p, t, v)
        /\ Covers({}, q) \/ WholeTags \subseteq DOMAIN r.val => Covers({}, p)
    BY NewsAppend
  <2>2. WholeTags \subseteq Tags
    BY DEF WholeTags, Tags
  <2> HIDE DEF p
  <2> QED BY <2>1, <2>2
<1> HIDE DEF p
<1>2. Stored(h, m, d, {}, <<>>, p)
  BY <1>1, TagValues DEF Stored, ReportsAreTrue, ModeIsKnown, RunIsKnown
<1>3. Seen(h, m, d, {}, <<>>, p)
  BY <1>1, TagValues
  DEF Seen, PowerIsSeen, ModeIsSeen, PowerAhead, ModeAhead, SeenFits, ActionFollows
<1>4. InStep(h, m, d, {}, <<>>, p)
  BY <1>1, <1>2, <1>3 DEF InStep, ClimateInStep, SettingInStep
<1> QED BY <1>4 DEF p

\* Without a change of the machine.
LEMMA AnswerAgrees ==
  ASSUME AgreeInv, live, NotHandler, UNCHANGED <<mPower, mMode, mRun, mSet>>,
         down # <<>>, down' = Tail(down), Head(down).cmd \notin {"power", "mode", "set"},
         up' \in Seq(Reports), untold' \in BOOLEAN,
         ~untold' => ~untold /\ Told(Machine, Machine, up, up')
  PROVE  AgreeInv'
<1> DEFINE h == Handler(FALSE)
           m == Machine
<1>1. /\ h \in Handlers /\ m \in Machines /\ down \in Seq(Cmds) /\ up \in Seq(Reports)
      /\ HandlerOK(h) /\ configured \in Nat /\ FitSettings(m)
      /\ configured = 0 => h.powerPrev = "unset"
      /\ gotValues => h.power # "unset" /\ h.mode # "unset"
      /\ ~untold => InStep(h, m, down, {}, <<>>, up)
  BY HandlerFields DEF AgreeInv, AgreeTypes
<1>2. h = Handler(FALSE)' /\ m = Machine'
  BY HandlerKept, MachineKept DEF NotHandler
<1>3. UNCHANGED <<live, gotValues, configured>>
  BY DEF NotHandler, start
<1>4. TakesFrom(m, m, down, down') /\ ModalEnd(m, m)
  BY DEF TakesFrom, Obeys, Brings, ModalEnd
<1>5. ~untold' => ~untold /\ Told(m, m, up, up')
  OBVIOUS
<1> HIDE DEF h, m
<1>6. down' \in Seq(Cmds)
  BY <1>1, TakenCommand
<1>7. ASSUME ~untold' PROVE InStep(h, m, down', {}, <<>>, up')
  BY <1>1, <1>4, <1>5, <1>7, MachineStep
<1>8. /\ configured' \in Nat
      /\ configured' = 0 => h.powerPrev = "unset"
      /\ gotValues' /\ live' => h.power # "unset" /\ h.mode # "unset"
      /\ live' /\ ~untold' => InStep(h, m, down', {}, <<>>, up')
  BY <1>1, <1>3, <1>7
<1> QED BY <1>1, <1>2, <1>6, <1>8, Established

\* Answers that tell no tag.
SilentAnswers ==
  {[kind |-> "caps", val |-> <<>>], [kind |-> "filter", val |-> [life |-> TRUE]]}

LEMMA SilentReport ==
  ASSUME NEW r, r \in SilentAnswers
  PROVE  r \in Reports /\ DOMAIN r.val \cap Tags = {}
<1>1. "life" \notin Tags /\ "life" \notin Switches
  BY AirConditionerAssumption DEF Tags
<1>2. CASE r = [kind |-> "caps", val |-> <<>>]
  <2> DEFINE val == <<>>
  <2>1. DOMAIN val = {}
    OBVIOUS
  <2>2. val \in [{} -> AllValues]
    OBVIOUS
  <2>4. r = [kind |-> "caps", val |-> val]
    BY <1>2
  <2> HIDE DEF val
  <2>5. val \in Vals
    BY <2>2 DEF Vals
  <2>6. r.kind = "caps" /\ r.val = val /\ r \in [kind : Kinds, val : Vals]
    BY <2>4, <2>5 DEF Kinds
  <2>7. ValOK(val)
    BY <2>1 DEF ValOK
  <2> QED BY <2>1, <2>6, <2>7 DEF Reports, ReportOK
<1>3. CASE r = [kind |-> "filter", val |-> [life |-> TRUE]]
  <2> DEFINE val == [life |-> TRUE]
  <2>1. DOMAIN val = {"life"} /\ val["life"] = TRUE
    OBVIOUS
  <2>2. val \in [life : BOOLEAN]
    OBVIOUS
  <2>4. r = [kind |-> "filter", val |-> val]
    BY <1>3
  <2> HIDE DEF val
  <2>5. val \in Vals
    BY <2>2 DEF Vals
  <2>6. r.kind = "filter" /\ r.val = val /\ r \in [kind : Kinds, val : Vals]
    BY <2>4, <2>5 DEF Kinds
  <2>7. ValOK(val)
    BY <1>1, <2>1 DEF ValOK, Tags
  <2> QED BY <1>1, <2>1, <2>6, <2>7 DEF Reports, ReportOK
<1> QED BY <1>2, <1>3 DEF SilentAnswers

\* Answers that tell no tag, no answer, and the mask.
LEMMA AnswersAgree ==
  ASSUME AgreeInv, AnswerCaps \/ AnswerFilter \/ NoAnswer \/ TakeMask
  PROVE  AgreeInv'
<1>1. down \in Seq(Cmds) /\ up \in Seq(Reports) /\ untold \in BOOLEAN
  BY DEF AgreeInv, AgreeTypes
<1>2. /\ live /\ down # <<>> /\ down' = Tail(down) /\ NotHandler
      /\ Head(down).cmd \in {"caps", "query", "filter", "mask"}
      /\ UNCHANGED <<mPower, mMode, mRun, mSet, untold>>
  BY DEF AnswerCaps, AnswerFilter, NoAnswer, TakeMask, Taken
<1>3. \/ up' = up
      \/ \E r \in SilentAnswers :
           up' = Append(up, r)
  BY DEF AnswerCaps, AnswerFilter, NoAnswer, TakeMask, Report, SilentAnswers
<1>4. up' \in Seq(Reports) /\ Told(Machine, Machine, up, up')
  <2>1. CASE up' = up
    BY <1>1, <2>1 DEF Told
  <2>2. CASE \E r \in SilentAnswers :
               up' = Append(up, r)
    <3>1. PICK r \in SilentAnswers :
            up' = Append(up, r)
      BY <2>2
    <3>2. r \in Reports /\ DOMAIN r.val \cap Tags = {}
      BY SilentReport
    <3>3. \A t \in Tags : t \notin DOMAIN r.val
      BY <3>2
    <3>4. up' \in Seq(Reports)
      BY <1>1, <3>1, <3>2, AddedReport
    <3> QED BY <3>1, <3>2, <3>3, <3>4 DEF Told
  <2> QED BY <1>3, <2>1, <2>2
<1>5. Head(down).cmd \notin {"power", "mode", "set"} /\ untold' \in BOOLEAN
  BY <1>1, <1>2
<1> QED BY <1>2, <1>4, <1>5, AnswerAgrees

LEMMA AnswerQueryAgrees ==
  ASSUME AgreeInv, AnswerQuery
  PROVE  AgreeInv'
<1> DEFINE h == Handler(FALSE)
           m == Machine
           r == [kind |-> "values", val |-> MachineTags]
<1>1. /\ h \in Handlers /\ m \in Machines /\ down \in Seq(Cmds) /\ up \in Seq(Reports)
      /\ HandlerOK(h) /\ configured \in Nat /\ FitSettings(m)
      /\ configured = 0 => h.powerPrev = "unset"
      /\ gotValues /\ live => h.power # "unset" /\ h.mode # "unset"
  BY HandlerFields DEF AgreeInv, AgreeTypes
<1>2. /\ down' \in Seq(Cmds) /\ up' = Append(up, r) /\ untold' = FALSE
      /\ UNCHANGED <<mPower, mMode, mRun, mSet>> /\ NotHandler /\ UNCHANGED live
  BY FrontTaken DEF AnswerQuery, Report, NotHandler, start
<1>3. h = Handler(FALSE)' /\ m = Machine'
  BY <1>2, HandlerKept, MachineKept DEF NotHandler
<1>4. UNCHANGED <<live, gotValues, configured>>
  BY <1>2 DEF NotHandler, start
<1>5. DOMAIN r.val = Tags /\ \A t \in Tags : r.val[t] = TagValue(m, t)
  BY DEF MachineTags, TagsOf, TagValue, Machine
<1>6. r \in Reports
  <2> DEFINE val == MachineTags
  <2>1. /\ DOMAIN val = Tags /\ \A t \in Tags : val[t] = TagValue(m, t)
    BY <1>5
  <2>2. /\ m.power \in OnOff /\ m.mode \in Modes /\ m.run \in BOOLEAN
        /\ \A s \in Switches : m.set[s] \in Values
    BY <1>1 DEF Machines
  <2>3. val = [t \in Tags |-> TagValue(m, t)]
    BY <2>1 DEF MachineTags, TagsOf
  <2> HIDE DEF val, m
  <2>4. /\ val["power"] \in OnOff /\ val["mode"] \in Modes /\ val["run"] \in BOOLEAN
        /\ \A s \in Switches : val[s] \in Values
    BY <2>1, <2>2, TagValues
  <2>5. \A t \in Tags : val[t] \in AllValues
    BY <2>4 DEF Tags, AllValues
  <2>6. val \in [Tags -> AllValues]
    BY <2>1, <2>3, <2>5
  <2>7. val \in Vals
    BY <2>6 DEF Vals
  <2>8. ValOK(val)
    BY <2>1, <2>4 DEF ValOK
  <2>9. r.kind = "values" /\ r.val = val /\ r \in [kind : Kinds, val : Vals]
    BY <2>7 DEF Kinds, val
  <2> QED BY <2>1, <2>8, <2>9, TagNames DEF Reports, ReportOK
<1> HIDE DEF h, m, r
<1>7. InStep(h, m, down', {}, <<>>, up')
  BY <1>1, <1>2, <1>5, <1>6, QueryTells
<1>8. /\ up' \in Seq(Reports) /\ untold' \in BOOLEAN /\ configured' \in Nat
      /\ configured' = 0 => h.powerPrev = "unset"
      /\ gotValues' /\ live' => h.power # "unset" /\ h.mode # "unset"
  <2>1. up' \in Seq(Reports) /\ untold' \in BOOLEAN
    BY <1>1, <1>2, <1>6, AddedReport
  <2> QED BY <1>1, <1>4, <2>1
<1> QED BY <1>1, <1>2, <1>3, <1>7, <1>8, Established

\* The invariant holds at first and is kept by every step.
LEMMA AgreeInvInit == Init => AgreeInv
<1> SUFFICES ASSUME Init PROVE AgreeInv
  OBVIOUS
<1> DEFINE h == Handler(FALSE)
           m == Machine
<1>1. h = [power |-> "unset", mode |-> "unset", run |-> FALSE, powerPrev |-> "unset",
           modePrev |-> "unset", memory |-> [s \in Switches |-> FALSE], every |-> "none",
           slow |-> FALSE, shownMode |-> "unset", shownAction |-> "unset", out |-> <<>>,
           late |-> FALSE]
  BY DEF Handler, Init
<1>2. m = [power |-> "off", mode |-> "cool", run |-> FALSE, set |-> Reset]
  BY DEF Machine, Init
<1>3. /\ down = <<>> /\ up = <<>> /\ configured = 0 /\ untold = TRUE /\ live = FALSE
      /\ powerPrev = "unset"
  BY DEF Init
<1> HIDE DEF h, m
<1>4. h \in Handlers
  BY <1>1 DEF Handlers, Actions
<1>5. HandlerOK(h)
  BY <1>1 DEF HandlerOK, Active
<1>6. m \in Machines /\ FitSettings(m)
  <2>1. Reset \in [Switches -> Values] /\ \A s \in Switches : Reset[s] = 0
    BY DEF Reset, Values
  <2>2. "cool" \in Modes
    BY AirConditionerAssumption
  <2> QED BY <1>2, <2>1, <2>2 DEF Machines, FitSettings, OnOff
<1>7. AgreeTypes
  <2>1. <<>> \in Seq(Cmds) /\ <<>> \in Seq(Reports)
    OBVIOUS
  <2> QED BY <1>3, <1>4, <1>6, <2>1 DEF AgreeTypes, h, m
<1> QED BY <1>3, <1>5, <1>6, <1>7 DEF AgreeInv, h, m

LEMMA AgreeInvNext == AgreeInv /\ StartInv /\ [Next]_vars => AgreeInv'
<1> SUFFICES ASSUME AgreeInv, StartInv, [Next]_vars PROVE AgreeInv'
  OBVIOUS
<1>1. CASE StartTimers \/ Poll \/ FilterPoll
  BY <1>1, TimersAgree, ConfigAgrees DEF StartTimers
<1>2. CASE Receive
  BY <1>2, ConfigAgrees, ReceiveTLVAgrees DEF Receive
<1>3. CASE SlowDown
  BY <1>3, SlowDownAgrees
<1>4. CASE Drop \/ NewSession
  BY <1>4, SessionsAgree
<1>5. CASE \E s \in Switches, on \in BOOLEAN : HASetting(s, on)
  BY <1>5, HASettingAgrees
<1>6. CASE \E x \in Modes : HAMode(x)
  BY <1>6, HAModeAgrees
<1>7. CASE \E p \in OnOff : HAPower(p)
  BY <1>7, HAPowerAgrees
<1>8. CASE \/ PanelPower \/ Thermostat
           \/ \E x \in Modes : PanelMode(x)
           \/ \E s \in Switches : PanelSetting(s)
  BY <1>8, PanelAgrees
<1>9. CASE Take
  BY <1>9, AnswersAgree, AnswerQueryAgrees, TakePowerAgrees, TakeModeAgrees, TakeSettingAgrees
  DEF Take, Answers
<1>10. CASE UNCHANGED vars
  BY <1>10, StillAgrees
<1> QED BY <1>1, <1>2, <1>3, <1>4, <1>5, <1>6, <1>7, <1>8, <1>9, <1>10 DEF Next

\* With nothing under way, a handler that is in step shows the machine's state.
LEMMA NothingUnderWay ==
  ASSUME NEW s, NEW v, NEW mm, NEW now
  PROVE  /\ ~Tells({}, <<>>, s) /\ ~TellsOther({}, <<>>, <<>>, s, v) /\ ~Covers({}, <<>>)
         /\ ~PowerSent(<<>>, v) /\ ~Brought(<<>>, mm) /\ ~Strays(<<>>, mm, now)
         /\ ~SetTo(<<>>, s, v, mm, now)
<1>1. DOMAIN <<>> = {}
  OBVIOUS
<1>2. ~(WholeTags \subseteq {})
  BY DEF WholeTags
<1> QED BY <1>1, <1>2 DEF Tells, TellsOther, Covers, PowerSent, Brought, Strays, SetTo

\* A handler in step, with nothing under way, has what the machine has.
LEMMA InStepAgrees ==
  ASSUME NEW h \in Handlers, NEW m \in Machines, HandlerOK(h), FitSettings(m),
         InStep(h, m, <<>>, {}, <<>>, <<>>), h.powerPrev # "unset"
  PROVE  /\ h.shownMode = IF m.power = "off" THEN "off" ELSE m.mode
         /\ h.shownAction = ActionOf(m.power, m.mode, m.run)
         /\ m.power = "on" =>
              \A s \in Switches : m.mode \in ApplyModes[s] =>
                h.memory[s] = ReadOn(s, m.set[s], m.mode)
<1>1. /\ m.power \in OnOff /\ m.mode \in Modes
      /\ h.modePrev \in Modes \cup {"off", "unset"} /\ h.modePrev # "unset"
      /\ h.shownMode = h.modePrev
      /\ \A s \in Switches : h.memory[s] \in BOOLEAN
  BY DEF Machines, Handlers, HandlerOK
<1>2. /\ \A p : ~PowerTurns(h, <<>>, {}, <<>>, <<>>)
      /\ ~ModeTurns(h, m, <<>>, {}, <<>>, <<>>)
  BY NothingUnderWay DEF PowerTurns, ModeTurns
<1>3. Seen(h, m, <<>>, {}, <<>>, <<>>) /\ Stored(h, m, <<>>, {}, <<>>, <<>>)
  BY DEF InStep, ClimateInStep
<1>4. /\ m.power = h.powerPrev
      /\ h.modePrev \in Modes => m.mode = h.modePrev
      /\ (h.modePrev = "off") <=> (h.powerPrev = "off")
      /\ h.shownAction = SeenAction(h) /\ h.run = m.run
  BY <1>2, <1>3, NothingUnderWay
  DEF Seen, Stored, PowerIsSeen, ModeIsSeen, SeenFits, ActionFollows, RunIsKnown
<1>5. "off" \notin Modes
  BY AirConditionerAssumption
<1>6. m.power = "off" \/ (m.power = "on" /\ h.modePrev = m.mode)
  BY <1>1, <1>4 DEF OnOff
<1>7. h.shownMode = IF m.power = "off" THEN "off" ELSE m.mode
  BY <1>1, <1>4, <1>5, <1>6
<1>8. h.shownAction = ActionOf(m.power, m.mode, m.run)
  BY <1>1, <1>4, <1>5, <1>6 DEF SeenAction, ActionOf
<1>9. ASSUME m.power = "on", NEW s \in Switches, m.mode \in ApplyModes[s]
      PROVE  h.memory[s] = ReadOn(s, m.set[s], m.mode)
  <2>1. Believed(h, s) /\ h.modePrev = m.mode
    BY <1>4, <1>6, <1>9 DEF Believed
  <2>2. SettingFollows(h, m, <<>>, {}, <<>>, s)
    BY <1>2, <2>1, NothingUnderWay DEF InStep, SettingInStep
  <2>3. h.memory[s] = (m.set[s] # 0)
    BY <2>1, <2>2, NothingUnderWay DEF SettingFollows
  <2>4. m.set[s] # 0 => m.set[s] = Wire(s, TRUE, m.mode)
    BY DEF FitSettings
  <2> QED BY <2>3, <2>4 DEF ReadOn
<1> QED BY <1>7, <1>8, <1>9

LEMMA AgreeInvAgrees == AgreeInv => HandlerAgrees
<1> SUFFICES ASSUME AgreeInv PROVE HandlerAgrees
  OBVIOUS
<1> DEFINE h == Handler(FALSE)
           m == Machine
<1>1. /\ h \in Handlers /\ m \in Machines /\ HandlerOK(h) /\ FitSettings(m)
      /\ live /\ ~untold => InStep(h, m, down, {}, <<>>, up)
  BY DEF AgreeInv, AgreeTypes
<1>2. /\ h.powerPrev = powerPrev /\ h.shownMode = shownMode /\ h.shownAction = shownAction
      /\ h.memory = memory /\ h.every = every /\ h.slow = slow
      /\ m.power = mPower /\ m.mode = mMode /\ m.run = mRun /\ m.set = mSet
  BY HandlerFields, MachineFields
<1> HIDE DEF h, m
<1>3. ActiveIsPolledFast
  BY <1>1, <1>2 DEF ActiveIsPolledFast, HandlerOK
<1>4. ASSUME Settled
      PROVE  /\ shownMode = IF mPower = "off" THEN "off" ELSE mMode
             /\ shownAction = ActionOf(mPower, mMode, mRun)
             /\ mPower = "on" =>
                  \A s \in Switches : mMode \in ApplyModes[s] =>
                    memory[s] = ReadOn(s, mSet[s], mMode)
  <2>1. InStep(h, m, <<>>, {}, <<>>, <<>>) /\ h.powerPrev # "unset"
    BY <1>1, <1>2, <1>4 DEF Settled
  <2>2. /\ h.shownMode = IF m.power = "off" THEN "off" ELSE m.mode
        /\ h.shownAction = ActionOf(m.power, m.mode, m.run)
        /\ m.power = "on" =>
             \A s \in Switches : m.mode \in ApplyModes[s] =>
               h.memory[s] = ReadOn(s, m.set[s], m.mode)
    BY <1>1, <2>1, InStepAgrees
  <2> QED BY <1>2, <2>2
<1>5. ClimateAgrees /\ SettingsAgree
  BY <1>4 DEF ClimateAgrees, SettingsAgree
<1> QED BY <1>3, <1>5 DEF HandlerAgrees

\* Once all commands and reports have arrived, the mode and the action that
\* RAC_056905_WW.ts has published are the machine's, and jetMode, energySave and airClean
\* are what the machine has of the settings that apply: whichever side was changed, and
\* however the writes of the hooks at power-up and at a change of mode crossed with the
\* reports.  And the machine is polled fast while the action goes on.
THEOREM HandlerAlwaysAgrees == Spec => []HandlerAgrees
BY AgreeInvInit, AgreeInvNext, StartInvAlways, AgreeInvAgrees, PTL DEF Spec
=============================================================================
