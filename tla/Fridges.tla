------------------------------- MODULE Fridges -------------------------------
(***************************************************************************)
(* The handlers of the refrigerators (cloud/devices/2RES1VE600FWC.ts,      *)
(* 2RES1VE61NFA2.ts, 2REB1GLVB1__2.ts, 2REF11EIDA__4.ts and                *)
(* 2REF11EBIVPC4.ts, with fridge_common.ts on aabb_device.ts): setpoints   *)
(* that are bytes for the machine and degrees for Home Assistant, in a     *)
(* unit that is chosen at the machine and that only its status tells.      *)
(*                                                                         *)
(* A run looks at one setpoint, of the fridge or of the freezer.  Of the   *)
(* switches, the drawer and the door, which are shown as they are, only    *)
(* what their commands carry beside is kept.  Temperatures that are shown  *)
(* count half degrees, as one handler decodes to them.  The machine is     *)
(* external: it takes the bytes of a command other than 0xff, ignores a    *)
(* setpoint that is none of its own, gives the setpoint a value of the new *)
(* unit when the unit changes, and answers each command with its status.   *)
(* A byte means the same to it in a command and in its status, also to     *)
(* 2REF11EBIVPC4, whose handler has a formula for each.                    *)
(* 2REB1GLVB1__2.ts differs from 2RES1VE61NFA2.ts in the length of a frame *)
(* alone: "61NFA2" stands for both.                                        *)
(***************************************************************************)
EXTENDS Integers, SequencesExt, FiniteSetsExt

CONSTANTS
  Fridges,    \* the handlers considered
  Setpoints,  \* of "fridge" and "freezer", those considered
  None,       \* undefined, or 0xff in a command
  MaxFlight   \* bound: nobody does anything with so much under way, but that
              \* Home Assistant may ask with up to two messages under way to it

VARIABLES
  model, setpoint,
  machine,          \* its unit, 0 is Fahrenheit, and the byte of the setpoint
  down, up,         \* commands and status frames under way
  temperatureUnit,  \* of the handler
  publishCache,     \* what the handler published last
  out,              \* published and not yet delivered
  shown,            \* Home Assistant: the unit of the configuration, the setpoint
  wish              \* history: the setpoint last asked, while nothing can have overtaken it

vars == <<model, setpoint, machine, down, up, temperatureUnit, publishCache, out, shown, wish>>

-----------------------------------------------------------------------------
(* Ranges and conversions.                                                 *)

FridgeRange(u) == IF u = "F" THEN 33 .. 43 ELSE 1 .. 7
FreezerRange(u) == IF u = "F" THEN -7 .. 5 ELSE -23 .. -15
FridgeRangeFWC(u) == IF u = "F" THEN 33 .. 46 ELSE 1 .. 7
FreezerRangeFWC(u) == IF u = "F" THEN -17 .. 7 ELSE -24 .. -14

\* What Home Assistant lets one choose.
HaRange(u) == IF model = "600FWC"
              THEN IF setpoint = "fridge" THEN FridgeRangeFWC(u) ELSE FreezerRangeFWC(u)
              ELSE IF setpoint = "fridge" THEN FridgeRange(u) ELSE FreezerRange(u)

ConvertFridge(u, x) == IF u = "F" THEN 44 - x ELSE 8 - x
ConvertFreezer(u, x) == IF u = "F" THEN 6 - x ELSE -14 - x
ConvertFridgeFWC(u, x) == IF u = "F" THEN 47 - x ELSE 8 - x

\* The freezer of 600FWC has only some of the Fahrenheit values.
FromFreezerFWC(u, raw) ==
  IF u = "F" THEN <<7, 7, 6, 5, 4, 3, 2, 1, 0, -1, -2, -3, -7, -12, -15, -17>>[raw + 1] ELSE -13 - raw
ToFreezerFWC_XInclusive(u, x) ==
  IF u # "F" THEN -13 - x
  ELSE IF x <= -15 THEN 15 ELSE IF x <= -12 THEN 14 ELSE IF x <= -7 THEN 13
  ELSE IF x <= -3 THEN 12 ELSE 8 - x
ToFreezerFWC(u, x) ==
  IF u # "F" THEN -13 - x
  ELSE IF x < -15 THEN 15 ELSE IF x < -12 THEN 14 ELSE IF x < -7 THEN 13
  ELSE IF x < -3 THEN 12 ELSE 8 - x

Byte(x) == x % 256

\* setProperty: the byte for x degrees.
Encode(u, x) ==
  Byte(IF setpoint = "fridge"
       THEN IF model = "600FWC" THEN ConvertFridgeFWC(u, x) ELSE ConvertFridge(u, x)
       ELSE IF model = "600FWC" THEN ToFreezerFWC(u, x) ELSE ConvertFreezer(u, x))

\* processStatus of 2REF11EBIVPC4, in half degrees.
DecodeEBI(raw) == IF setpoint = "fridge" THEN 13 - raw ELSE -(raw + 29)

\* processStatus: half degrees for a byte.
Decode(u, raw) ==
  IF model = "EBIVPC4" THEN DecodeEBI(raw)
  ELSE 2 * IF setpoint = "fridge"
           THEN IF model = "600FWC" THEN ConvertFridgeFWC(u, raw) ELSE ConvertFridge(u, raw)
           ELSE IF model = "600FWC" THEN FromFreezerFWC(u, raw) ELSE ConvertFreezer(u, raw)

-----------------------------------------------------------------------------
(* The machine's own values: those that its status shows in the range.     *)

Unit(code) == IF code = 1 THEN "C" ELSE "F"
Bytes(code) ==
  {raw \in 1 .. 15 : \E x \in HaRange(Unit(code)) : Decode(Unit(code), raw) = 2 * x}
Corners(S) == {Min(S), Max(S)}

Units == IF model = "EBIVPC4" THEN {1} ELSE {0, 1}

Query == [unit |-> None, raw |-> None]

\* start(): all but 2REF11EBIVPC4 ask for the status; that one tells it by itself.
Start == IF model = "EBIVPC4" THEN <<>> ELSE <<Query>>

Init ==
  /\ model \in Fridges /\ setpoint \in Setpoints
  /\ \E u \in Units : \E raw \in Corners(Bytes(u)) : machine = [unit |-> u, raw |-> raw]
  /\ down = Start
  /\ up = (IF model = "EBIVPC4" THEN <<machine>> ELSE <<>>)
  /\ temperatureUnit = (IF model = "EBIVPC4" THEN "C" ELSE None)
  /\ publishCache = None
  /\ shown = [unit |-> temperatureUnit, setpoint |-> None]
  /\ out = <<>> /\ wish = None

-----------------------------------------------------------------------------
(* Status frames.                                                          *)

\* setTemperatureUnit: a new unit publishes a new configuration.
SetTemperatureUnit(u) == IF temperatureUnit = u THEN <<>> ELSE <<<<"unit", u>>>>

ProcessStatus(s) ==
  LET u == Unit(s.unit)
      degrees == Decode(u, s.raw)
  IN /\ temperatureUnit' = IF SetTemperatureUnit(u) = <<>> THEN temperatureUnit ELSE u
     /\ publishCache' = degrees
     /\ out' = out \o SetTemperatureUnit(u)
                   \o IF publishCache = degrees THEN <<>> ELSE <<<<"setpoint", degrees>>>>

\* Of a frame with two statuses the second, which is the current one, is read.
ProcessFrame ==
  /\ up # <<>>
  /\ ProcessStatus(Head(up))
  /\ up' = Tail(up)
  /\ UNCHANGED <<model, setpoint, machine, down, shown, wish>>

Deliver ==
  /\ out # <<>>
  /\ shown' = [shown EXCEPT ![Head(out)[1]] = Head(out)[2]]
  /\ out' = Tail(out)
  /\ UNCHANGED <<model, setpoint, machine, down, up, temperatureUnit, publishCache, wish>>

-----------------------------------------------------------------------------
(* Commands.  Each carries the unit the handler knows, but for a switch of *)
(* 2REF11EBIVPC4.                                                          *)

Free == Len(down) + Len(up) + Len(out) < MaxFlight
MayAsk == Free \/ (down = <<>> /\ up = <<>> /\ Len(out) <= 2)
InStep == down = <<>> /\ up = <<>> /\ out = <<>>

HandlerUnit == IF temperatureUnit = None THEN "C" ELSE temperatureUnit
UnitCode == IF HandlerUnit = "C" THEN 1 ELSE 0

Send(c) == down' = Append(down, c)

\* Home Assistant shows a setpoint once there is a configuration, and offers
\* the range of that one; the command arrives after it may have changed.
\* Bound: with something under way only the ends of the range are chosen.
SetSetpoint(x) ==
  /\ MayAsk /\ shown.unit # None
  /\ x \in IF InStep THEN HaRange(shown.unit) ELSE Corners(HaRange(shown.unit))
  /\ Send([unit |-> UnitCode, raw |-> Encode(HandlerUnit, x)])
  /\ wish' = IF InStep THEN x ELSE None
  /\ UNCHANGED <<model, setpoint, machine, up, temperatureUnit, publishCache, out, shown>>

SetOther ==
  /\ Free /\ shown.unit # None
  /\ Send([unit |-> IF model = "EBIVPC4" THEN None ELSE UnitCode, raw |-> None])
  /\ UNCHANGED <<model, setpoint, machine, up, temperatureUnit, publishCache, out, shown, wish>>

-----------------------------------------------------------------------------
(* The machine.                                                            *)

Becomes(m) ==
  /\ machine' = m
  /\ up' = Append(up, m)
  /\ UNCHANGED <<model, setpoint, temperatureUnit, publishCache, out, shown>>

\* A setpoint the machine takes is one it has; else it keeps a value of its own.
Taken(c, u) == IF c.raw \in Bytes(u) THEN {c.raw}
               ELSE IF u = machine.unit THEN {machine.raw} ELSE Corners(Bytes(u))

Receive ==
  /\ down # <<>>
  /\ LET u == IF Head(down).unit = None THEN machine.unit ELSE Head(down).unit
     IN \E raw \in Taken(Head(down), u) : Becomes([unit |-> u, raw |-> raw])
  /\ down' = Tail(down)
  /\ UNCHANGED wish

\* Its panel: another setpoint, or another unit.
Operated ==
  /\ Free
  /\ \E u \in Units : \E raw \in Corners(Bytes(u)) :
       Becomes([unit |-> u, raw |-> raw])
  /\ wish' = None
  /\ UNCHANGED down

Next ==
  \/ ProcessFrame \/ Deliver \/ SetOther \/ Receive \/ Operated
  \/ \E x \in -24 .. 46 : SetSetpoint(x)

Spec == Init /\ [][Next]_vars

-----------------------------------------------------------------------------
(* The values a setpoint can have, of those Home Assistant offers.         *)
Representable(u) ==
  IF model = "600FWC" /\ setpoint = "freezer" /\ u = "F"
  THEN {-17, -15, -12, -7} \cup (-3 .. 7) ELSE HaRange(u)

\* Once everything is delivered Home Assistant offers the range of the unit
\* the machine is set to and shows its setpoint in that unit, within that
\* range, however the unit was changed meanwhile.
SettledAgrees ==
  InStep => LET u == Unit(machine.unit)
            IN /\ shown.unit = u
               /\ shown.setpoint = Decode(u, machine.raw)
               /\ model # "EBIVPC4" => \E x \in Representable(u) : shown.setpoint = 2 * x

WishIsShown ==
  InStep /\ wish # None
    => shown.setpoint = 2 * Max({x \in Representable(shown.unit) : x <= wish})

\* 2REF11EBIVPC4 sends the byte of one formula and reads that of another: of
\* the bytes the machine has, 3 degrees in the fridge are sent as 5, which is
\* shown as 4, 7 as 1, which is shown as 6.  Again in half degrees.
WishIsShifted ==
  InStep /\ wish # None /\ Encode("C", wish) \in Bytes(1)
    => shown.setpoint = IF setpoint = "fridge" THEN wish + 5 ELSE wish - 15

\* A setpoint that was chosen while nothing was under way is shown in the
\* end, or, where the machine has no such value, the next colder one it has;
\* but with 2REF11EBIVPC4, where it is shown shifted: there only 5 degrees in
\* the fridge and -15 in the freezer are shown as they were chosen.
AskedIsSet == IF model = "EBIVPC4" THEN WishIsShifted ELSE WishIsShown
=============================================================================
