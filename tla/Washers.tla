------------------------------- MODULE Washers -------------------------------
(***************************************************************************)
(* The handlers of the washing machines (cloud/devices/F_VB_F___W.B_2QEUK, *)
(* F_V__F___W.B_1QEUK, F_V8_Y___W.B_2QEUK, Y_V8_Y___W.B32QEUK, WTDN3 and   *)
(* VCDWL2QEUK on aabb_device.ts): what they make of the frames of the      *)
(* machine and how that reaches Home Assistant, one message after the      *)
(* other and over a connection that may lose what it has not delivered.    *)
(*                                                                         *)
(* Topics that a handler always publishes together, and that are shown as  *)
(* the machine has them, form a group with one value; power, error,        *)
(* message, status and door have a group each.  A value stands for one the *)
(* machine's codes have a name for; only status and error message also     *)
(* take codes without one.  The machine is external.                       *)
(* It reports each change in a status frame, WTDN3 and the F class with    *)
(* the new state, VCDWL with the old and the new; VCDWL reports its door   *)
(* apart, while it is on, and the start of a cycle beforehand.             *)
(***************************************************************************)
EXTENDS Naturals, Sequences

CONSTANTS
  Washers,    \* the handlers considered
  None,       \* no value
  MaxFlight,  \* bound: nothing happens with so much under way to and from the machine;
              \* and with a message to Home Assistant under way only a reconnection
  MaxLosses   \* bound: how often the connection to Home Assistant breaks

VARIABLES
  model,
  machine,       \* what the machine does
  down, up,      \* commands and frames under way
  told,          \* history: groups whose state the machine has told this handler
  publishCache,  \* what the handler published last
  out,           \* published and not yet delivered
  topics,        \* what came on the topics last
  shown,         \* what the entities of Home Assistant show
  lost,          \* history: groups whose last value was lost on the way
  losses

vars == <<model, machine, down, up, told, publishCache, out, topics, shown, lost, losses>>

(* The topics of each handler: what its configuration declares.            *)
Basic == {"power", "error_message", "error", "status", "course", "spin", "temp", "cycles",
          "remote_start", "door_lock", "initial_time", "remaining_time"}

EntitiesF_VB == Basic \cup {"drying_mode", "child_lock", "energy", "delay_end", "detergent",
                            "softener", "extra_rinse", "turbowash", "eco_hybrid", "prewash", "steam"}
EntitiesF_V == Basic \cup {"drying_mode", "energy"}
EntitiesF_V8 == Basic \cup {"energy"}
EntitiesY_V8 == Basic \cup {"energy"}
EntitiesWTDN3 == Basic \cup {"drying_mode"}
EntitiesVCDWL == {"power", "status", "course", "temp", "spin", "energy", "initial_time",
                  "remaining_time", "door", "detergent_dispenser", "softener_dispenser",
                  "detergent_dose", "softener_dose", "soil", "rinse", "prewash", "turbowash",
                  "steam", "child_lock", "remote_start", "tub_clean_count"}

Entities == [F_VB |-> EntitiesF_VB, F_V |-> EntitiesF_V, F_V8 |-> EntitiesF_V8,
             Y_V8 |-> EntitiesY_V8, WTDN3 |-> EntitiesWTDN3, VCDWL |-> EntitiesVCDWL][model]

(* What the groups stand for: the topics the handler publishes in them.    *)
Readings == {"course", "spin", "temp", "cycles", "remote_start", "door_lock", "initial_time",
             "remaining_time"}

ReadingsF_VB == Readings \cup {"drying_mode", "child_lock", "energy", "delay_end", "detergent",
                               "softener", "extra_rinse", "turbowash", "eco_hybrid", "prewash", "steam"}
ReadingsF_V == Readings \cup {"drying_mode", "energy"}
ReadingsF_V8 == Readings \cup {"energy"}
ReadingsY_V8 == Readings \cup {"energy"}
ReadingsWTDN3 == Readings \cup {"drying_mode"}
ReadingsVCDWL == {"soil", "rinse", "temp", "spin", "course", "energy", "detergent_dispenser",
                  "softener_dispenser", "detergent_dose", "softener_dose", "prewash", "turbowash",
                  "steam"}
PersistentVCDWL == {"child_lock", "remote_start", "tub_clean_count"}

ReadingsOf == [F_VB |-> ReadingsF_VB, F_V |-> ReadingsF_V, F_V8 |-> ReadingsF_V8,
               Y_V8 |-> ReadingsY_V8, WTDN3 |-> ReadingsWTDN3, VCDWL |-> ReadingsVCDWL]

Topics(g) == CASE g = "readings"   -> ReadingsOf[model]
               [] g = "times"      -> {"remaining_time", "initial_time"}
               [] g = "persistent" -> PersistentVCDWL
               [] OTHER            -> {g}

RecordGroups == IF model = "VCDWL" THEN {"power", "status", "readings", "times", "persistent"}
                ELSE {"power", "error_message", "error", "status", "readings"}
Groups == RecordGroups \cup (IF model = "VCDWL" THEN {"door"} ELSE {})

-----------------------------------------------------------------------------
(* The machine: code of its status, of its error and, in the VCDWL, of the *)
(* soil level; what stands for all its readings; and the door.  13 and 10  *)
(* are codes without a name.                                               *)
State(s, e, w, d, o) == [status |-> s, error |-> e, soil |-> w, data |-> d, door |-> o]

States == {State(0, 0, 0, 0, 2), State(1, 0, 0, 0, 2), State(1, 0, 0, 1, 2),
           State(6, 1, 0, 1, 2), State(13, 10, 0, 1, 2)}
StatesVCDWL == UNION {{State(0, 0, 0, 0, o), State(0, 0, 0, 1, o), State(1, 0, 1, 1, o),
                       State(13, 0, 0, 1, o), State(0, 0, 1, 0, o)} : o \in {1, 2}}

Machines == IF model = "VCDWL" THEN StatesVCDWL ELSE States

IsOn(m) == m.status # 0 \/ m.soil # 0

\* start(): all but VCDWL ask for the state.
Start == IF model = "VCDWL" THEN <<>> ELSE <<"query">>

Init ==
  /\ model \in Washers
  /\ machine \in Machines
  /\ down = Start /\ up = <<>>
  /\ told = {}
  /\ publishCache = [g \in Groups |-> None]
  /\ topics = [g \in Groups |-> None] /\ shown = topics
  /\ out = <<>> /\ lost = {} /\ losses = 0

-----------------------------------------------------------------------------
(* Frames.                                                                 *)

\* ERRORS, STATES and STATUS, with what is published for any other code
ErrorName(c) == IF c = 0 THEN "OK" ELSE IF c = 1 THEN "Door lock error (DE2)" ELSE "unknown"
StateName(c) == IF c = 0 THEN "Off" ELSE IF c = 1 THEN "Ready" ELSE IF c = 6 THEN "Washing" ELSE "unknown"
StatusVCDWL(c) == IF c = 1 THEN "Detecting" ELSE "Running"

OnOff(b) == IF b THEN "ON" ELSE "OFF"

(* publishProperty: nothing is published twice in a row.  h holds what it  *)
(* changes, and a report is the publications of a frame in their order.    *)
Publish(h, g, v) ==
  IF h.cache[g] = v THEN h
  ELSE [cache |-> [h.cache EXCEPT ![g] = v], out |-> Append(h.out, <<g, v>>), lost |-> h.lost \ {g}]

\* The F class and WTDN3.
ReportF_XErrorFirst(h, m) ==
  LET power  == Publish(h, "power", OnOff(m.status > 0))
      error  == Publish(power, "error", OnOff(m.error # 0))
      named  == Publish(error, "error_message", ErrorName(m.error))
      status == Publish(named, "status", StateName(m.status))
  IN Publish(status, "readings", m.data)
ReportF(h, m) ==
  LET power  == Publish(h, "power", OnOff(m.status > 0))
      named  == Publish(power, "error_message", ErrorName(m.error))
      error  == Publish(named, "error", OnOff(m.error # 0))
      status == Publish(error, "status", StateName(m.status))
  IN Publish(status, "readings", m.data)

\* processStatus of VCDWL, for record B of a frame.
ReportOff(h, m) ==
  LET power  == Publish(h, "power", "OFF")
      status == Publish(power, "status", "Off")
      times  == Publish(status, "times", 0)
  IN Publish(times, "persistent", m.data)
ReportOn(h, m) ==
  LET power    == Publish(h, "power", "ON")
      status   == Publish(power, "status", StatusVCDWL(m.status))
      readings == Publish(status, "readings", m.data)
      times    == Publish(readings, "times", m.data + 1)
  IN Publish(times, "persistent", m.data)
ReportVCDWL(h, m) == IF m.soil = 0 /\ m.status = 0 THEN ReportOff(h, m) ELSE ReportOn(h, m)

\* processConfig and processDoor; 5 is a door that is not known yet.
ReportConfig(h) == Publish(h, "power", "ON")
ReportDoor(h, d) == IF d \in {1, 2} THEN Publish(h, "door", OnOff(d = 1)) ELSE h

Report_XRecordA(h, frame) ==
  CASE frame.kind = "status" -> IF model = "VCDWL" THEN ReportVCDWL(h, frame.old)
                                ELSE ReportF(h, frame.new)
    [] frame.kind = "config" -> ReportConfig(h)
    [] frame.kind = "door"   -> ReportDoor(h, frame.new)

\* Of VCDWL's two records the second is read.
Report(h, frame) ==
  CASE frame.kind = "status" -> IF model = "VCDWL" THEN ReportVCDWL(h, frame.new)
                                ELSE ReportF(h, frame.new)
    [] frame.kind = "config" -> ReportConfig(h)
    [] frame.kind = "door"   -> ReportDoor(h, frame.new)

ProcessFrame ==
  /\ up # <<>>
  /\ LET h == Report([cache |-> publishCache, out |-> out, lost |-> lost], Head(up))
     IN publishCache' = h.cache /\ out' = h.out /\ lost' = h.lost
  /\ up' = Tail(up)
  /\ UNCHANGED <<model, machine, down, told, topics, shown, losses>>

\* Status and error message are enumerations of the names above; VCDWL's
\* status is free text.  An enumeration rejects any other value.
Options(g) == IF g = "status" THEN {"Off", "Ready", "Washing"} ELSE {"OK", "Door lock error (DE2)"}
Accepts(g, v) == model = "VCDWL" \/ g \notin {"status", "error_message"} \/ v \in Options(g)

Deliver ==
  /\ out # <<>>
  /\ LET g == Head(out)[1]
         v == Head(out)[2]
     IN /\ topics' = [topics EXCEPT ![g] = v]
        /\ shown' = IF Accepts(g, v) THEN [shown EXCEPT ![g] = v] ELSE shown
  /\ out' = Tail(out)
  /\ UNCHANGED <<model, machine, down, up, told, publishCache, lost, losses>>

\* The connection to Home Assistant breaks: the cache does not hear of it.
Lose ==
  /\ losses < MaxLosses /\ out # <<>>
  /\ out' = <<>> /\ losses' = losses + 1
  /\ lost' = lost \cup {out[i][1] : i \in DOMAIN out}
  /\ UNCHANGED <<model, machine, down, up, told, publishCache, topics, shown>>

-----------------------------------------------------------------------------
(* The appliance connects anew, and commands.                              *)

\* A new handler with an empty cache; the machine may have changed meanwhile.
NewHandler ==
  /\ Len(out) <= 1
  /\ machine' \in Machines
  /\ publishCache' = [g \in Groups |-> None]
  /\ down' = Start /\ up' = <<>> /\ told' = {}
  /\ UNCHANGED <<model, out, topics, shown, lost, losses>>

Free == Len(down) + Len(up) < MaxFlight /\ out = <<>>

\* setProperty; VCDWL declares nothing that could be set.
SetProperty(c) ==
  /\ model # "VCDWL" /\ Free
  /\ down' = Append(down, c)
  /\ UNCHANGED <<model, machine, up, told, publishCache, out, topics, shown, lost, losses>>

-----------------------------------------------------------------------------
(* The machine.                                                            *)

StatusFrame(m) == [kind |-> "status", old |-> machine, new |-> m]
DoorFrame(d) == [kind |-> "door", old |-> d, new |-> d]
ConfigFrame == [kind |-> "config", old |-> machine, new |-> machine]

Becomes(m) ==
  /\ machine' = m
  /\ told' = told \cup RecordGroups
  /\ up' = IF model = "VCDWL" /\ IsOn(m) /\ ~IsOn(machine)
           THEN up \o <<ConfigFrame, StatusFrame(m)>> ELSE Append(up, StatusFrame(m))
  /\ UNCHANGED <<model, publishCache, out, topics, shown, lost, losses>>

Changes ==
  /\ Free
  /\ \E m \in Machines \ {machine} : m.door = machine.door /\ Becomes(m)
  /\ UNCHANGED down

\* The door of VCDWL, and that it is not known just after power-on.
Door(d) ==
  /\ model = "VCDWL" /\ Free
  /\ d \in {5, 3 - machine.door}
  /\ machine' = IF d = 5 THEN machine ELSE [machine EXCEPT !.door = d]
  /\ up' = IF IsOn(machine) THEN Append(up, DoorFrame(d)) ELSE up
  /\ told' = IF d = 5 THEN told ELSE IF IsOn(machine) THEN told \cup {"door"} ELSE told \ {"door"}
  /\ UNCHANGED <<model, down, publishCache, out, topics, shown, lost, losses>>

\* What a command makes of the machine: a query is answered, the others act
\* if they apply.
Obeys(c, m) == CASE c = "query" -> m = machine
                 [] c = "ON" -> IF IsOn(machine) THEN m = machine ELSE m.status = 1
                 [] c = "OFF" -> m.status = 0
                 [] c \in {"start", "pause"} -> IF IsOn(machine) THEN IsOn(m) ELSE m = machine

Receive ==
  /\ down # <<>>
  /\ \E m \in Machines : Obeys(Head(down), m) /\ Becomes(m)
  /\ down' = Tail(down)

Next ==
  \/ ProcessFrame \/ Deliver \/ Lose \/ NewHandler \/ Changes \/ Receive
  \/ \E c \in {"ON", "OFF", "start", "pause"} : SetProperty(c)
  \/ \E d \in {1, 2, 5} : Door(d)

Spec == Init /\ [][Next]_vars

-----------------------------------------------------------------------------
Drained == down = <<>> /\ up = <<>> /\ out = <<>>

\* What Home Assistant is to show of a group.
IsRight(g) ==
  CASE g = "power"         -> shown[g] = OnOff(IsOn(machine))
    [] g = "status"        -> (shown[g] = "Off") <=> ~IsOn(machine)
    [] g = "error"         -> shown[g] = OnOff(machine.error # 0)
    [] g = "error_message" -> (shown[g] = "OK") <=> machine.error = 0
    [] g = "readings"      -> (IsOn(machine) \/ model # "VCDWL") => shown[g] = machine.data
    [] g = "times"         -> shown[g] = IF IsOn(machine) THEN machine.data + 1 ELSE 0
    [] g = "persistent"    -> shown[g] = machine.data
    [] g = "door"          -> shown[g] = OnOff(machine.door = 1)

\* The machine's status or error is one the handler has a name for.
HasName(g) ==
  /\ g = "status" /\ model # "VCDWL" => StateName(machine.status) # "unknown"
  /\ g = "error_message" => ErrorName(machine.error) # "unknown"

\* Once nothing is under way Home Assistant shows every group as the machine
\* has it, unless the message was lost: an off machine has no time left and
\* no other status, one that is on is not shown as off.  All handlers but
\* VCDWL's owe this after a reconnection too, VCDWL's for what it was told.
\* Nothing is claimed of a status or error without a name: "unknown" is no
\* option of its enumeration, and Home Assistant keeps what it showed before.
ShowsTheMachine ==
  Drained => \A g \in (IF model = "VCDWL" THEN told ELSE Groups) \ lost : HasName(g) => IsRight(g)

\* When an error turns on in Home Assistant its message is there already,
\* also if the connection has lost messages in between; but for an error
\* without a name, whose message Home Assistant has rejected.
ErrorIsExplained ==
  [][(model \in Washers \ {"VCDWL"}) /\ shown["error"] # "ON" /\ shown'["error"] = "ON"
       => shown["error_message"] \notin {None, "OK"} \/ topics["error_message"] = "unknown"]_vars

\* An entity is fed if and only if it is declared: once the machine has
\* been on and has told everything, in codes with a name, every declared
\* topic has a value and no topic without an entity has one.
EntitiesAreFed ==
  Drained /\ lost = {} /\ told = Groups /\ IsOn(machine) /\ (\A g \in Groups : HasName(g))
    => UNION {Topics(g) : g \in {h \in Groups : shown[h] # None}} = Entities
=============================================================================
