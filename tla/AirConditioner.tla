--------------------------- MODULE AirConditioner ---------------------------
(***************************************************************************)
(* The handler of the RAC air conditioners                                 *)
(* (cloud/devices/RAC_056905_WW.ts on cloud/devices/tlv_device.ts): how it *)
(* starts, asking for what it needs and asking again until it has it, and  *)
(* how it then keeps Home Assistant, the machine and the settings it       *)
(* remembers for the machine in step, over a connection on which commands  *)
(* and reports cross.                                                      *)
(*                                                                         *)
(* A timer is a flag that says it is armed; it fires at any time while it  *)
(* is.  Temperature, fan speed, vanes, countdowns and sensors are left     *)
(* out: they are shown and written as they are.                            *)
(*                                                                         *)
(* The machine is external.  As the handler's comments have it, it forgets *)
(* the settings when it is switched off, and writing a mode, or 1 to Jet,  *)
(* switches it on.  Beyond them it is assumed that a change of mode ends   *)
(* Jet and energy saving, that a setting which does not apply is ignored,  *)
(* and that each change is reported once, in a frame of its own.           *)
(***************************************************************************)
EXTENDS Naturals, Sequences

CONSTANTS
  Modes,        \* the modes of this unit
  Switches,     \* the settings its capability bits unlock
  JetModes,     \* the modes its Jet has: cool, heat or both
  Units,        \* what kinds of filter management it may have
  MaxWaiting,   \* bound: a command of the user or of a timer waits behind so many at most
  MaxDown,      \* bound: the machine changes by itself with so many under way to it at most
  MaxUp,        \* bound: reports under way to the handler
  PanelActs     \* the machine is also operated by its remote control

ASSUME AirConditionerAssumption ==
  /\ Modes \subseteq {"cool", "dry", "fan", "heat", "auto"} /\ "cool" \in Modes
  /\ Switches \subseteq {"jet", "energysave", "airclean"}
  /\ JetModes \subseteq {"cool", "heat"}
  /\ Units \subseteq {"basic", "mfilter"}
  /\ MaxDown \in Nat /\ MaxWaiting \in Nat /\ MaxUp \in Nat
  /\ PanelActs \in BOOLEAN

VARIABLES
  unit,                       \* what filter management the machine has
  mPower, mMode, mRun, mSet,  \* the machine; mRun: the indoor unit is active
  masked,                     \* the modem still keeps some changes to itself
  down, up,                   \* commands and reports under way
  live,                       \* the handler is in haDevices
  capsTimer, valuesTimer,     \* query_caps_timeout, query_values_timeout
  gotValues,                  \* initialValuesReceived
  maskTimer, probeTimer,      \* tlvBlacklistDisableTimer, filterInitialQueryTimeout
  filterLife,                 \* filterLifeTime is not 0
  filterPoll,                 \* filterQueryTimer
  configured,                 \* how often initMakeSetConfig has run
  power, mode, run,           \* raw_clip_state of these tags
  powerPrev, modePrev,        \* powerStatePrev, modePrev
  memory,                     \* jetMode, energySave, airClean
  every,                      \* query_timer with query_last_interval
  slow,                       \* increasedQueryIntervalTimeout
  online,                     \* the availability topic
  shownMode, shownAction,     \* what this handler has published
  untold                      \* history: a change that no report has told

machine == <<unit, mPower, mMode, mRun, mSet, masked, untold>>
start == <<live, capsTimer, valuesTimer, gotValues, maskTimer, probeTimer, configured>>
filter == <<filterLife, filterPoll>>
raw == <<power, mode, run>>
climate == <<powerPrev, modePrev, memory, every, slow, shownMode, shownAction>>
vars == <<machine, down, up, start, filter, raw, climate, online>>

Tags == {"mode", "power", "run"} \cup Switches
OnOff == {"on", "off"}
Values == 0..2
Commands == [cmd : {"caps", "query", "mask", "filter"}]
            \cup [cmd : {"power"}, power : OnOff, mode : Modes \cup {"unset"}]
            \cup [cmd : {"mode"}, mode : Modes]
            \cup [cmd : {"set"}, setting : Switches, value : Values]
Kinds == {"caps", "values", "notify", "filter"}

TypeOK ==
  /\ unit \in Units
  /\ mPower \in OnOff /\ mMode \in Modes /\ mRun \in BOOLEAN /\ mSet \in [Switches -> Values]
  /\ masked \in BOOLEAN /\ untold \in BOOLEAN
  /\ down \in Seq(Commands)
  /\ Len(up) <= MaxUp /\ \A i \in DOMAIN up : up[i].kind \in Kinds
  /\ \A flag \in {live, capsTimer, valuesTimer, gotValues, maskTimer, probeTimer} :
       flag \in BOOLEAN
  /\ configured \in Nat /\ filterLife \in BOOLEAN /\ filterPoll \in BOOLEAN
  /\ power \in OnOff \cup {"unset"} /\ mode \in Modes \cup {"unset"} /\ run \in BOOLEAN
  /\ powerPrev \in OnOff \cup {"unset"} /\ modePrev \in Modes \cup {"off", "unset"}
  /\ memory \in [Switches -> BOOLEAN]
  /\ every \in {"none", "slow", "fast"} /\ slow \in BOOLEAN
  /\ online \in BOOLEAN
  /\ shownMode \in Modes \cup {"off", "unset"}
  /\ shownAction \in {"unset", "off", "idle", "None", "cooling", "drying", "fan", "heating"}

Ask(name) == [cmd |-> name]
WriteCmd(s, v) == [cmd |-> "set", setting |-> s, value |-> v]
Reset == [s \in Switches |-> 0]

-----------------------------------------------------------------------------
(* A definition whose name ends in _X and a word is a faulty variant of the  *)
(* definition that follows it.  No specification uses it: the variants     *)
(* are substituted one at a time to show that the properties can fail.     *)

(* Settings: what they apply to, how they are written and read.            *)

ApplyModes == [jet |-> JetModes, energysave |-> {"cool"}, airclean |-> Modes]
Wire(s, on, m) == IF ~on THEN 0 ELSE IF s = "jet" /\ m = "heat" THEN 2 ELSE 1
ReadOn(s, v, m) == v # 0 /\ (s = "jet" => v = Wire(s, TRUE, m))

(* What one report makes of the handler, as a record of what it changes.   *)

Handler(late) ==
  [power |-> power, mode |-> mode, run |-> run, powerPrev |-> powerPrev,
   modePrev |-> modePrev, memory |-> memory, every |-> every, slow |-> slow,
   shownMode |-> shownMode, shownAction |-> shownAction, out |-> <<>>, late |-> late]

\* setProperty of a switch: it is remembered, and sent if it applies now.
WriteSetting(h, s, on) ==
  [h EXCEPT !.memory[s] = on,
            !.out = IF h.power # "off" /\ h.mode \in ApplyModes[s]
                    THEN Append(@, WriteCmd(s, Wire(s, on, h.mode))) ELSE @]

Rewrite(h, s) == IF s \in Switches THEN WriteSetting(h, s, h.memory[s]) ELSE h
RewriteModal(h) == Rewrite(Rewrite(h, "jet"), "energysave")

ActionOf(p, m, r) ==
  IF p = "off" THEN "off"
  ELSE IF m \in {"cool", "dry", "heat", "auto"} /\ ~r THEN "idle"
  ELSE [auto |-> "None", cool |-> "cooling", dry |-> "drying", fan |-> "fan",
        heat |-> "heating"][m]

Active == {"None", "cooling", "drying", "heating"}

\* setQueryInterval asks at once when the last query is older than that.
UpdateQueryInterval(h, increase) ==
  IF increase
  THEN [h EXCEPT !.slow = FALSE, !.every = "fast", !.late = FALSE,
                 !.out = IF h.every # "fast" /\ h.late THEN Append(@, Ask("query")) ELSE @]
  ELSE [h EXCEPT !.slow = TRUE]

UpdateClimateAction(h) ==
  LET action == ActionOf(h.power, h.mode, h.run)
  IN UpdateQueryInterval([h EXCEPT !.shownAction = action], action \in Active)

\* The hooks run before modePrev is set, and see the new tags.
ProcessMode(h) ==
  LET shown == IF h.power = "off" THEN "off" ELSE h.mode
      hooked == IF h.modePrev # shown
                THEN UpdateClimateAction(RewriteModal(h)) ELSE h
  IN [hooked EXCEPT !.modePrev = shown, !.shownMode = shown]

PowerHooks(h) ==
  UpdateClimateAction(IF h.power = "off" THEN h
                      ELSE RewriteModal(Rewrite(h, "airclean")))

ProcessPower(h) ==
  LET moded == ProcessMode(h)
      hooked == IF h.powerPrev # h.power THEN PowerHooks(moded) ELSE moded
  IN [hooked EXCEPT !.powerPrev = h.power]

ProcessSetting_XStale(h, s, v) == h

\* What a switch reports counts while the machine runs in a mode that has it.
ProcessSetting(h, s, v) ==
  IF h.power = "on" /\ h.mode \in ApplyModes[s]
  THEN [h EXCEPT !.memory[s] = ReadOn(s, v, h.mode)] ELSE h

\* The value is stored; before the configuration no field is defined that would
\* make anything of it.
ProcessKeyValue(h, t, v) ==
  LET stored == IF t = "mode" THEN [h EXCEPT !.mode = v]
                ELSE IF t = "power" THEN [h EXCEPT !.power = v]
                ELSE IF t = "run" THEN [h EXCEPT !.run = v] ELSE h
  IN IF configured = 0 THEN stored
     ELSE IF t = "mode" THEN ProcessMode(stored)
     ELSE IF t = "power" THEN ProcessPower(stored)
     ELSE IF t = "run" THEN UpdateClimateAction(stored)
     ELSE ProcessSetting(stored, t, v)

\* The tags of a frame, in the order in which the machine puts them there (as the
\* frames of tests/cloud/devices/RAC_056905_WW.test.ts have them).
Tag(h, t, val) == IF t \in DOMAIN val THEN ProcessKeyValue(h, t, val[t]) ELSE h
ProcessTags(h, val) ==
  Tag(Tag(Tag(Tag(Tag(Tag(h, "mode", val), "power", val), "jet", val), "energysave", val),
          "airclean", val), "run", val)

Keep(h) ==
  /\ power' = h.power /\ mode' = h.mode /\ run' = h.run
  /\ powerPrev' = h.powerPrev /\ modePrev' = h.modePrev /\ memory' = h.memory
  /\ every' = h.every /\ slow' = h.slow
  /\ shownMode' = h.shownMode /\ shownAction' = h.shownAction

Send(cmds) == down' = down \o cmds
SendAlone(cmds) == Len(down) <= MaxWaiting /\ Send(cmds)

-----------------------------------------------------------------------------
(* The start.                                                              *)

\* Nothing is connected yet.
Init ==
  /\ unit \in Units /\ mPower = "off" /\ mMode = "cool" /\ mRun = FALSE /\ mSet = Reset
  /\ masked = TRUE /\ untold = TRUE
  /\ down = <<>> /\ up = <<>>
  /\ live = FALSE /\ capsTimer = FALSE /\ valuesTimer = FALSE /\ gotValues = FALSE
  /\ maskTimer = FALSE /\ probeTimer = FALSE /\ configured = 0
  /\ filterLife = FALSE /\ filterPoll = FALSE
  /\ power = "unset" /\ mode = "unset" /\ run = FALSE
  /\ powerPrev = "unset" /\ modePrev = "unset" /\ memory = [s \in Switches |-> FALSE]
  /\ every = "none" /\ slow = FALSE
  /\ online = FALSE /\ shownMode = "unset" /\ shownAction = "unset"

\* A new handler knows nothing yet, and a dropped one, which nothing but its timers
\* refers to, need not: they read none of these.
Forgotten ==
  /\ power' = "unset" /\ mode' = "unset" /\ run' = FALSE
  /\ powerPrev' = "unset" /\ modePrev' = "unset" /\ memory' = [s \in Switches |-> FALSE]
  /\ shownMode' = "unset" /\ shownAction' = "unset"

\* The machine connects, in any state; a handler is constructed and started.
NewSession ==
  /\ ~live
  /\ mPower' \in OnOff /\ mMode' \in Modes /\ mRun' \in BOOLEAN
  /\ mRun' => mPower' = "on"
  /\ mSet' \in [Switches -> Values]
  /\ \A s \in Switches : mSet'[s] # 0 => /\ mPower' = "on" /\ mMode' \in ApplyModes[s]
                                        /\ mSet'[s] = Wire(s, TRUE, mMode')
  /\ masked' = TRUE /\ untold' = TRUE
  /\ down' = <<Ask("caps")>> /\ up' = <<>>
  /\ live' = TRUE /\ capsTimer' = TRUE /\ gotValues' = FALSE /\ configured' = 0
  /\ filterLife' = FALSE /\ every' = "slow" /\ Forgotten
  /\ UNCHANGED <<unit, valuesTimer, maskTimer, probeTimer, filterPoll, slow, online>>

CapsRetry_XSilent == capsTimer /\ UNCHANGED vars

CapsRetry ==
  /\ capsTimer /\ SendAlone(<<Ask("caps")>>)
  /\ UNCHANGED <<machine, up, start, filter, raw, climate, online>>

ValuesRetry ==
  /\ valuesTimer /\ SendAlone(<<Ask("query")>>)
  /\ UNCHANGED <<machine, up, start, filter, raw, climate, online>>

\* initMakeSetConfig, for a filter that is known or not.
MakeConfig(life) ==
  /\ configured' = configured + 1
  /\ online' = TRUE
  /\ filterPoll' = (filterPoll \/ life)
  /\ Send(<<Ask("query")>>)

\* 500 ms after setMaskingInfo.
MaskExpire ==
  /\ maskTimer /\ maskTimer' = FALSE
  /\ IF unit = "mfilter" THEN MakeConfig(filterLife) /\ UNCHANGED probeTimer
     ELSE /\ probeTimer' = TRUE /\ Send(<<Ask("filter")>>)
          /\ UNCHANGED <<configured, online, filterPoll>>
  /\ UNCHANGED <<machine, up, live, capsTimer, valuesTimer, gotValues, filterLife, raw,
                 climate>>

ProbeExpire ==
  /\ probeTimer /\ probeTimer' = FALSE
  /\ MakeConfig(filterLife)
  /\ UNCHANGED <<machine, up, live, capsTimer, valuesTimer, gotValues, maskTimer, filterLife,
                 raw, climate>>

ReceiveFilter_XLate ==
  /\ live /\ up # <<>> /\ Head(up).kind = "filter" /\ up' = Tail(up)
  /\ filterLife' = Head(up).val.life
  /\ MakeConfig(filterLife') /\ probeTimer' = FALSE
  /\ UNCHANGED <<machine, live, capsTimer, valuesTimer, gotValues, maskTimer, raw, climate>>

\* processFilterData: the answer to the probe ends the start, another does not.
ReceiveFilter ==
  /\ live /\ up # <<>> /\ Head(up).kind = "filter" /\ up' = Tail(up)
  /\ filterLife' = Head(up).val.life
  /\ IF probeTimer THEN MakeConfig(filterLife') /\ probeTimer' = FALSE
     ELSE UNCHANGED <<configured, online, filterPoll, down, probeTimer>>
  /\ UNCHANGED <<machine, live, capsTimer, valuesTimer, gotValues, maskTimer, raw, climate>>

\* processTLV: the tags, then the two stages of the start.
ReceiveTLV(late) ==
  /\ live /\ up # <<>> /\ Head(up).kind # "filter" /\ up' = Tail(up)
  /\ LET h == ProcessTags(Handler(late), Head(up).val)
         caps == capsTimer /\ Head(up).kind = "caps"
         values == ~capsTimer /\ Head(up).kind = "values"
         first == values /\ ~gotValues
     IN /\ Keep(h)
        /\ capsTimer' = (capsTimer /\ ~caps)
        /\ valuesTimer' = (~values /\ (valuesTimer \/ caps))
        /\ gotValues' = (gotValues \/ values)
        /\ maskTimer' = (maskTimer \/ first)
        /\ Send(h.out \o (IF caps THEN <<Ask("query")>> ELSE <<>>)
                      \o (IF first THEN <<Ask("mask")>> ELSE <<>>))
  /\ UNCHANGED <<machine, live, probeTimer, configured, filter, online>>

-----------------------------------------------------------------------------
(* Timers of a handler that is configured, and the end of a connection.    *)

Poll ==
  /\ every # "none" /\ SendAlone(<<Ask("query")>>)
  /\ UNCHANGED <<machine, up, start, filter, raw, climate, online>>

FilterPoll ==
  /\ filterPoll /\ SendAlone(<<Ask("filter")>>)
  /\ UNCHANGED <<machine, up, start, filter, raw, climate, online>>

\* 15 minutes of rest: back to the default interval.
SlowDown ==
  /\ slow /\ slow' = FALSE /\ every' = "slow"
  /\ UNCHANGED <<machine, down, up, start, filter, raw, powerPrev, modePrev, memory,
                 shownMode, shownAction, online>>

Drop_XProbe ==
  /\ live /\ live' = FALSE /\ online' = FALSE
  /\ capsTimer' = FALSE /\ valuesTimer' = FALSE /\ maskTimer' = FALSE
  /\ filterPoll' = FALSE /\ every' = "none" /\ slow' = FALSE /\ Forgotten
  /\ down' = <<>> /\ up' = <<>>
  /\ UNCHANGED <<machine, gotValues, configured, filterLife, probeTimer>>

\* The connection ends, and with it what is under way.
Drop ==
  /\ live /\ live' = FALSE /\ online' = FALSE
  /\ capsTimer' = FALSE /\ valuesTimer' = FALSE /\ maskTimer' = FALSE /\ probeTimer' = FALSE
  /\ filterPoll' = FALSE /\ every' = "none" /\ slow' = FALSE /\ Forgotten
  /\ down' = <<>> /\ up' = <<>>
  /\ UNCHANGED <<machine, gotValues, configured, filterLife>>

-----------------------------------------------------------------------------
(* The user in Home Assistant.                                             *)

UserMay == live /\ configured > 0 /\ Len(down) <= MaxWaiting

HASetting(s, on) ==
  /\ UserMay
  /\ LET h == WriteSetting(Handler(FALSE), s, on) IN Keep(h) /\ Send(h.out)
  /\ UNCHANGED <<machine, up, start, filter, online>>

\* Written values are taken as the machine's before it tells.
HAMode(m) ==
  /\ UserMay /\ mode' = m /\ Send(<<[cmd |-> "mode", mode |-> m]>>)
  /\ UNCHANGED <<machine, up, start, filter, power, run, climate, online>>

\* The mode goes with "on"; mode "off" is power "off".
HAPower(p) ==
  /\ UserMay /\ power' = p
  /\ Send(<<[cmd |-> "power", power |-> p, mode |-> IF p = "on" THEN mode ELSE "unset"]>>)
  /\ UNCHANGED <<machine, up, start, filter, mode, run, climate, online>>

-----------------------------------------------------------------------------
(* The machine.                                                            *)

TagsOf(p, m, r, set) ==
  [t \in Tags |-> IF t = "power" THEN p ELSE IF t = "mode" THEN m ELSE IF t = "run" THEN r
                  ELSE set[t]]
MachineTags == TagsOf(mPower, mMode, mRun, mSet)
Report(kind, val) == up' = Append(up, [kind |-> kind, val |-> val]) /\ Len(up') <= MaxUp

\* The machine changes and tells of it; while it is masked it may not tell.
Becomes(p, m, r, set) ==
  /\ mPower' = p /\ mMode' = m /\ mRun' = r /\ mSet' = set
  /\ LET new == TagsOf(p, m, r, set)
         changed == {t \in Tags : new[t] # MachineTags[t]}
     IN IF changed = {} THEN UNCHANGED <<up, untold>>
        ELSE \/ Report("notify", [t \in changed |-> new[t]]) /\ UNCHANGED untold
             \/ masked /\ untold' = TRUE /\ UNCHANGED up

Ended(m) == IF m = mMode THEN mSet
            ELSE [s \in Switches |-> IF s = "airclean" THEN mSet[s] ELSE 0]

NotHandler == UNCHANGED <<unit, start, filter, raw, climate, online>>

ByItself == live /\ Len(down) <= MaxDown

PanelPower ==
  /\ ByItself /\ PanelActs
  /\ Becomes(IF mPower = "on" THEN "off" ELSE "on", mMode, FALSE, Reset)
  /\ UNCHANGED <<masked, down>> /\ NotHandler

PanelMode(m) ==
  /\ ByItself /\ PanelActs /\ mPower = "on" /\ m # mMode
  /\ Becomes("on", m, mRun, Ended(m))
  /\ UNCHANGED <<masked, down>> /\ NotHandler

PanelSetting(s) ==
  /\ ByItself /\ PanelActs /\ mPower = "on" /\ mMode \in ApplyModes[s]
  /\ Becomes("on", mMode, mRun, [mSet EXCEPT ![s] = IF @ = 0 THEN Wire(s, TRUE, mMode) ELSE 0])
  /\ UNCHANGED <<masked, down>> /\ NotHandler

\* The thermostat starts or stops the indoor unit.
Thermostat ==
  /\ ByItself /\ mPower = "on"
  /\ Becomes("on", mMode, ~mRun, mSet)
  /\ UNCHANGED <<masked, down>> /\ NotHandler

Taken(name) == live /\ down # <<>> /\ Head(down).cmd = name /\ down' = Tail(down)

\* Answers may fail to come.
AnswerCaps ==
  /\ Taken("caps") /\ Report("caps", <<>>)
  /\ UNCHANGED <<mPower, mMode, mRun, mSet, masked, untold>> /\ NotHandler

AnswerQuery ==
  /\ Taken("query") /\ Report("values", MachineTags) /\ untold' = FALSE
  /\ UNCHANGED <<mPower, mMode, mRun, mSet, masked>> /\ NotHandler

AnswerFilter ==
  /\ Taken("filter") /\ unit = "basic" /\ Report("filter", [life |-> TRUE])
  /\ UNCHANGED <<mPower, mMode, mRun, mSet, masked, untold>> /\ NotHandler

NoAnswer ==
  /\ Len(up) < MaxUp /\ (Taken("caps") \/ Taken("query") \/ Taken("filter"))
  /\ UNCHANGED <<mPower, mMode, mRun, mSet, masked, untold, up>> /\ NotHandler

TakeMask ==
  /\ Taken("mask") /\ masked' = FALSE
  /\ UNCHANGED <<mPower, mMode, mRun, mSet, untold, up>> /\ NotHandler

TakePower ==
  /\ Taken("power")
  /\ LET m == IF Head(down).mode \in Modes THEN Head(down).mode ELSE mMode
     IN IF Head(down).power = "off" THEN Becomes("off", mMode, FALSE, Reset)
        ELSE Becomes("on", m, mRun, Ended(m))
  /\ UNCHANGED masked /\ NotHandler

TakeMode ==
  /\ Taken("mode")
  /\ Becomes("on", Head(down).mode, mRun, Ended(Head(down).mode))
  /\ UNCHANGED masked /\ NotHandler

\* A setting reaches a machine that may have changed since it was sent.
TakeSetting ==
  /\ Taken("set")
  /\ LET s == Head(down).setting
         v == Head(down).value
     IN IF mPower = "on" /\ mMode \in ApplyModes[s] /\ v \in {0, Wire(s, TRUE, mMode)}
        THEN Becomes("on", mMode, mRun, [mSet EXCEPT ![s] = v])
        ELSE IF mPower = "off" /\ s = "jet" /\ v = 1
        THEN Becomes("on", "cool", FALSE, [Reset EXCEPT !["jet"] = 1])
        ELSE UNCHANGED <<mPower, mMode, mRun, mSet, up, untold>>
  /\ UNCHANGED masked /\ NotHandler

-----------------------------------------------------------------------------
StartTimers == CapsRetry \/ ValuesRetry \/ MaskExpire \/ ProbeExpire
Receive == ReceiveFilter \/ \E late \in BOOLEAN : ReceiveTLV(late)
Answers == AnswerCaps \/ AnswerQuery \/ AnswerFilter
Take == Answers \/ NoAnswer \/ TakeMask \/ TakePower \/ TakeMode \/ TakeSetting

Next ==
  \/ StartTimers \/ Receive
  \/ Poll \/ FilterPoll \/ SlowDown \/ Drop \/ NewSession
  \/ \E s \in Switches, on \in BOOLEAN : HASetting(s, on)
  \/ \E m \in Modes : HAMode(m)
  \/ \E p \in OnOff : HAPower(p)
  \/ PanelPower \/ (\E m \in Modes : PanelMode(m)) \/ (\E s \in Switches : PanelSetting(s))
  \/ Thermostat \/ Take

Spec == Init /\ [][Next]_vars

\* Only Receive takes a report from the front of up while the connection lasts.
Delivered == live /\ live' = TRUE /\ up # <<>> /\ up' = Tail(up)

\* Timers fire (SF, for MaxWaiting may hold them up), what is delivered is handled,
\* commands are taken, and a machine that is asked again and again answers at last.
Fairness ==
  /\ SF_vars(StartTimers) /\ WF_up(Delivered) /\ WF_vars(Take)
  /\ SF_vars(AnswerCaps) /\ SF_vars(AnswerQuery)

FairSpec == Spec /\ Fairness

-----------------------------------------------------------------------------
(* Properties.                                                             *)

Armed(caps, values, mask, probe) ==
  /\ capsTimer = caps /\ valuesTimer = values /\ maskTimer = mask /\ probeTimer = probe

\* Until the configuration is published exactly one step of the start waits for
\* something that will come, an answer that is asked for again or a time-out; after
\* it none does, so that it is published once.
StartIsPending ==
  live => IF configured = 0
          THEN \/ Armed(TRUE, FALSE, FALSE, FALSE) \/ Armed(FALSE, TRUE, FALSE, FALSE)
               \/ Armed(FALSE, FALSE, TRUE, FALSE) \/ Armed(FALSE, FALSE, FALSE, TRUE)
          ELSE configured = 1 /\ Armed(FALSE, FALSE, FALSE, FALSE)

\* An appliance that is gone stays offline: no timer of its handler is left that
\* would publish its configuration, or ask it for anything.
GoneStaysOffline == ~live => ~online /\ ~filterPoll /\ every = "none" /\ down = <<>>

\* While it shows an action that goes on it is polled at the short interval, and no
\* earlier rest may bring the long one back.
ActiveIsPolledFast == live /\ shownAction \in Active => every = "fast" /\ ~slow

Settled ==
  /\ live /\ configured > 0 /\ down = <<>> /\ up = <<>> /\ ~untold /\ powerPrev # "unset"

\* Once all commands and reports have arrived, mode and action are the machine's.
ClimateAgrees ==
  Settled => /\ shownMode = IF mPower = "off" THEN "off" ELSE mMode
             /\ shownAction = ActionOf(mPower, mMode, mRun)

\* And what the handler remembers of a setting that applies is what the machine has:
\* whichever of the two was changed, and in whatever order the writes at power-up
\* and the reports crossed.
SettingsAgree ==
  Settled /\ mPower = "on" =>
    \A s \in Switches : mMode \in ApplyModes[s] => memory[s] = ReadOn(s, mSet[s], mMode)

\* Together: what is shown, remembered and polled follows the machine.
HandlerAgrees == ClimateAgrees /\ SettingsAgree /\ ActiveIsPolledFast

\* A machine that stays connected is configured, however many answers are lost.
IsConfigured == (live /\ configured = 0) ~> (configured > 0 \/ ~live)

\* Comment at RAC_056905_WW.ts:820-825: writing 1 to Jet in the off state seems to
\* power on into cooling, so Jet may only be enabled when running in the right mode.
JetKeepsOff ==
  [][mPower = "off" /\ mPower' = "on" /\ live /\ down' # down => Head(down).cmd # "set"]_vars
=============================================================================
