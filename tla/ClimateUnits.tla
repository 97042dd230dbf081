---------------------------- MODULE ClimateUnits ----------------------------
(***************************************************************************)
(* The handlers of the portable and of the window air conditioner          *)
(* (cloud/devices/POT_056905_WW.ts and WIN_056905_WW.ts, on                *)
(* cloud/devices/tlv_device.ts).  Unlike the handler of AirConditioner     *)
(* they remember nothing for the machine, and a command carries, beside    *)
(* the field that was asked, the last known values of others.              *)
(*                                                                         *)
(* A field is named for what its tag holds.  Vanes and measured            *)
(* temperature are shown as they are and left out.  The machine is         *)
(* external: it takes the fields of a command as they are written and      *)
(* reports those that changed in one frame.                                *)
(***************************************************************************)
EXTENDS Naturals, Sequences

CONSTANTS
  Models,    \* those considered, of "POT" and "WIN"
  Settings,  \* the settings considered, of "fan", "temp" and "swing"
  None,      \* undefined
  MaxFlight  \* bound: nobody asks for anything with so much under way

VARIABLES
  model,
  machine,     \* what each field is in the machine
  down, up,    \* commands and reports under way
  raw,         \* raw_clip_state
  valuesTold,  \* the handler has had the answer to query()
  shown,       \* what Home Assistant shows of mode and settings
  wish         \* history: the mode last asked, while nothing can have overtaken it

vars == <<model, machine, down, up, raw, valuesTold, shown, wish>>

Fields == {"power", "mode"} \cup Settings

\* modes2ha of the two handlers
ModeNamesPOT == [c \in 0 .. 2 |-> <<"cool", "dry", "fan_only">>[c + 1]]
ModeNamesWIN == [c \in {0, 2, 4} |-> <<"cool", None, "fan_only", None, "heat">>[c + 1]]

ModeNames == IF model = "POT" THEN ModeNamesPOT ELSE ModeNamesWIN

\* What the machine can be set to here; a window unit also knows a mode, 8,
\* that its handler has no name for.
Codes(f) == CASE f = "power" -> {0, 1}
              [] f = "mode"  -> IF model = "POT" THEN {0, 2} ELSE {0, 2, 8}
              [] OTHER       -> {2, 6}

Init ==
  /\ model \in Models
  /\ machine \in [Fields -> 0 .. 8] /\ \A f \in Fields : machine[f] \in Codes(f)
  /\ down = <<>> /\ up = <<>>
  /\ raw = [f \in Fields |-> None]
  /\ valuesTold = FALSE
  /\ shown = [f \in Fields \ {"power"} |-> None]
  /\ wish = None

Free == Len(down) + Len(up) < MaxFlight

-----------------------------------------------------------------------------
(* Reports.                                                                *)

\* read_xform of the mode: None is not published.
ReadMode(r) == IF r["power"] = 0 THEN "off"
               ELSE IF r["mode"] \in DOMAIN ModeNames THEN ModeNames[r["mode"]] ELSE None

ReadSetting(v) == IF v \in {2, 6} THEN v ELSE None

Publish(s, f, v) == IF v = None THEN s ELSE [s EXCEPT ![f] = v]

ProcessKeyValue_XNotStored(h, f, v) ==
  LET r == IF f = "power" THEN h.raw ELSE [h.raw EXCEPT ![f] = v]
  IN [raw   |-> r,
      shown |-> IF f \in {"power", "mode"} THEN Publish(h.shown, "mode", ReadMode(r))
                ELSE Publish(h.shown, f, ReadSetting(v))]

\* The power is not shown: its read_callback shows the mode instead.
ProcessKeyValue(h, f, v) ==
  LET r == [h.raw EXCEPT ![f] = v]
  IN [raw   |-> r,
      shown |-> IF f \in {"power", "mode"} THEN Publish(h.shown, "mode", ReadMode(r))
                ELSE Publish(h.shown, f, ReadSetting(v))]

\* A frame has its tags in the order of their numbers.
ProcessTags(h, fields) ==
  LET Tag(a, f) == IF f \in DOMAIN fields THEN ProcessKeyValue(a, f, fields[f]) ELSE a
  IN Tag(Tag(Tag(Tag(Tag(h, "power"), "mode"), "fan"), "temp"), "swing")

ProcessTLV ==
  /\ up # <<>>
  /\ LET h == ProcessTags([raw |-> raw, shown |-> shown], Head(up).fields)
     IN raw' = h.raw /\ shown' = h.shown
  /\ valuesTold' = (valuesTold \/ Head(up).full)
  /\ up' = Tail(up)
  /\ UNCHANGED <<model, machine, down, wish>>

\* The appliance connects anew: the handler starts with nothing known.
NewHandler ==
  /\ raw' = [f \in DOMAIN raw |-> None]
  /\ valuesTold' = FALSE
  /\ up' = <<>> /\ down' = <<>> /\ wish' = None
  /\ UNCHANGED <<model, machine, shown>>

\* query() is repeated until it is answered.
AnswerQuery ==
  /\ ~valuesTold /\ \A i \in DOMAIN up : ~up[i].full
  /\ Free
  /\ up' = Append(up, [fields |-> machine, full |-> TRUE])
  /\ UNCHANGED <<model, machine, down, raw, valuesTold, shown, wish>>

-----------------------------------------------------------------------------
(* Commands.                                                               *)

\* TLV.build: an undefined value fails every comparison and is written as 0.
Byte(v) == IF v = None THEN 0 ELSE v

\* write_attach
AttachPOT(f, v) == CASE f = "power" -> IF v = 1 THEN {"mode"} ELSE {}
                     [] f = "mode"  -> {"power", "fan", "temp"}
                     [] f = "fan"   -> {"mode", "temp"}
                     [] OTHER       -> {"mode", "fan"}
AttachWIN(f, v) == CASE f = "power" -> IF v = 1 THEN {"mode"} ELSE {}
                     [] f = "mode"  -> {"power", "fan", "temp", "swing"}
                     [] f = "fan"   -> {"mode", "temp"}
                     [] OTHER       -> {"mode", "fan"}

Attach(f, v) == {f} \cup (IF model = "POT" THEN AttachPOT(f, v) ELSE AttachWIN(f, v))

InStep == valuesTold /\ up = <<>> /\ down = <<>>

Send(f, fields) ==
  down' = Append(down, [fields |-> fields, for |-> f, inStep |-> InStep])

\* The end of setProperty, once the handler has r for raw_clip_state.
Write(f, v, r) ==
  LET s == [r EXCEPT ![f] = v]
  IN /\ raw' = s
     /\ Send(f, [g \in Attach(f, v) \cap DOMAIN raw |-> Byte(s[g])])

\* The portable unit's modes: what it keeps of the power is set first, and
\* for 'off' nothing but the power is written.
WriteModePOT(m) ==
  IF m = "off"
  THEN raw' = [raw EXCEPT !["power"] = 0] /\ Send("mode", [f \in {"power"} |-> 0])
  ELSE \E c \in DOMAIN ModeNames : ModeNames[c] = m /\ Write("mode", c, [raw EXCEPT !["power"] = 1])

\* The window unit's modes: it calls setProperty('power', ..), but the field
\* is called climate-power, so nothing comes of it; 'off' has no code.
WriteModeWIN(m) ==
  IF m = "off" THEN UNCHANGED <<raw, down>>
  ELSE \E c \in DOMAIN ModeNames : ModeNames[c] = m /\ Write("mode", c, raw)

SetMode(m) ==
  /\ Free
  /\ IF model = "POT" THEN WriteModePOT(m) ELSE WriteModeWIN(m)
  /\ wish' = IF InStep THEN m ELSE None
  /\ UNCHANGED <<model, machine, up, valuesTold, shown>>

SetPower(v) ==
  /\ Free /\ Write("power", v, raw)
  /\ wish' = None
  /\ UNCHANGED <<model, machine, up, valuesTold, shown>>

SetSetting(f, v) ==
  /\ Free /\ Write(f, v, raw)
  /\ UNCHANGED <<model, machine, up, valuesTold, shown, wish>>

-----------------------------------------------------------------------------
(* The machine.                                                            *)

Changed(new) == {f \in DOMAIN machine : new[f] # machine[f]}

Becomes(new) ==
  /\ machine' = new
  /\ up' = IF Changed(new) = {} THEN up
           ELSE Append(up, [fields |-> [f \in Changed(new) |-> new[f]], full |-> FALSE])

Receive ==
  /\ down # <<>>
  /\ Becomes([f \in DOMAIN machine |->
                IF f \in DOMAIN Head(down).fields THEN Head(down).fields[f] ELSE machine[f]])
  /\ down' = Tail(down)
  /\ UNCHANGED <<model, raw, valuesTold, shown, wish>>

\* Its remote control; a command that it crosses was not sent in step.
Operated(f, v) ==
  /\ Free /\ v # machine[f] /\ Becomes([machine EXCEPT ![f] = v])
  /\ down' = [i \in DOMAIN down |-> [down[i] EXCEPT !.inStep = FALSE]]
  /\ wish' = None
  /\ UNCHANGED <<model, raw, valuesTold, shown>>

Next ==
  \/ ProcessTLV \/ NewHandler \/ AnswerQuery \/ Receive
  \/ \E m \in {"off", "cool", "fan_only"} : SetMode(m)
  \/ \E v \in {0, 1} : SetPower(v)
  \/ \E f \in Settings, v \in {2, 6} : SetSetting(f, v)
  \/ \E f \in Fields : \E v \in Codes(f) : Operated(f, v)

Spec == Init /\ [][Next]_vars

-----------------------------------------------------------------------------
MachineMode == IF machine["power"] = 0 THEN "off" ELSE ModeNames[machine["mode"]]
ModeIsNamed == machine["power"] = 0 \/ machine["mode"] \in DOMAIN ModeNames

\* Once every report has been read, Home Assistant shows the mode the machine
\* runs in, 'off' when it does not, and its settings, although the power is
\* reported apart from the mode and in any order with it.
SettledAgrees ==
  InStep => /\ ModeIsNamed => shown["mode"] = MachineMode
            /\ \A f \in Settings : machine[f] # 0 => shown[f] = machine[f]

\* A command that was sent in step with the machine, and that no remote
\* control has crossed, changes nothing that was not asked for, although it
\* writes other fields beside (a mode may switch the machine on or off).
OnlyTheAskedChanges ==
  [][down # <<>> /\ model \in Models /\ Len(down') < Len(down) /\ machine' # machine /\ Head(down).inStep
       => \A f \in DOMAIN machine :
            machine'[f] # machine[f]
              => f = Head(down).for \/ (Head(down).for = "mode" /\ f = "power" /\ model = "POT")]_vars

ModeIsSet == InStep /\ wish # None /\ ModeIsNamed => MachineMode = wish

\* The mode that was last chosen in Home Assistant, 'off' being one, is the
\* one a portable unit then runs in, whatever settings were changed since.
AskedModeIsSet == model = "POT" => ModeIsSet

\* What the window unit's handler says of the mode 'off' and the others:
\* they switch the machine off and on.
ModeSwitchesPower == ModeIsSet
=============================================================================
