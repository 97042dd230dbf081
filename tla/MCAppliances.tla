---------------------------- MODULE MCAppliances ----------------------------
(* One appliance at a time, as "model" says: an instance of ClimateUnits,  *)
(* of Washers or of Fridges.  What only the others use stays None.         *)
EXTENDS Naturals
CONSTANTS Models, Settings, Washers, MaxLosses, Fridges, Setpoints, MaxFlight, None
VARIABLES model, machine, down, up, shown, publishCache, out, wish,
          raw, valuesTold, told, topics, lost, losses, setpoint, temperatureUnit

\* The handlers and settings there are, and that None is no value of anything.
ASSUME AppliancesAssumption ==
  /\ Models \subseteq {"POT", "WIN"} /\ Settings \subseteq {"fan", "temp", "swing"}
  /\ Washers \subseteq {"F_VB", "F_V", "F_V8", "Y_V8", "WTDN3", "VCDWL"}
  /\ Fridges \subseteq {"600FWC", "61NFA2", "EIDA", "EBIVPC4"}
  /\ Setpoints \subseteq {"fridge", "freezer"}
  /\ None \notin 0 .. 255
  /\ None \notin {"C", "F", "off", "cool", "dry", "fan_only", "heat", "ON", "OFF", "OK",
                  "Door lock error (DE2)", "unknown", "Off", "Ready", "Washing", "Detecting",
                  "Running"}

C == INSTANCE ClimateUnits
W == INSTANCE Washers WITH MaxFlight <- 1
F == INSTANCE Fridges

shared == <<model, machine, down, up, shown, publishCache, out, wish>>
own == <<raw, valuesTold, told, topics, lost, losses, setpoint, temperatureUnit>>

MCInit ==
  \/ /\ C!Init
     /\ publishCache = None /\ out = None /\ told = None /\ topics = None /\ lost = None
     /\ losses = None
     /\ setpoint = None /\ temperatureUnit = None
  \/ /\ W!Init
     /\ wish = None /\ raw = None /\ valuesTold = None
     /\ setpoint = None /\ temperatureUnit = None
  \/ /\ F!Init
     /\ raw = None /\ valuesTold = None /\ told = None /\ topics = None /\ lost = None
     /\ losses = None

MCNext ==
  \/ /\ model \in Models /\ C!Next
     /\ UNCHANGED <<publishCache, out, told, topics, lost, losses, setpoint, temperatureUnit>>
  \/ /\ model \in Washers /\ W!Next
     /\ UNCHANGED <<wish, raw, valuesTold, setpoint, temperatureUnit>>
  \/ /\ model \in Fridges /\ F!Next
     /\ UNCHANGED <<raw, valuesTold, told, topics, lost, losses>>
MCSpec == MCInit /\ [][MCNext]_<<shared, own>>

\* Once nothing is under way Home Assistant shows what the appliance does, and
\* a topic of a washing machine has a value if and only if it is declared; a
\* status or error that a washing machine's handler has no name for apart.
SettledAgrees ==
  /\ model \in Models => C!SettledAgrees
  /\ model \in Washers => W!ShowsTheMachine /\ W!EntitiesAreFed
  /\ model \in Fridges => F!SettledAgrees

\* What was asked last, with nothing to overtake it, is what there is then; of
\* 2REF11EBIVPC4 by the shift between the two formulas its handler has.
AskedIsSet ==
  /\ model \in Models => C!AskedModeIsSet
  /\ model \in Fridges => F!AskedIsSet

\* A command in step with an air conditioner changes nothing but what was asked.
OnlyTheAskedChanges == C!OnlyTheAskedChanges

\* An error of a washing machine that has a name is shown together with it.
ErrorIsExplained == W!ErrorIsExplained
=============================================================================
