-------------------------- MODULE MCDryerPrograms --------------------------
(* Two instances of DryerPrograms side by side, as "focus" says: one with  *)
(* downloaded cycles and one command under way, and, as Wire, one without  *)
(* such cycles but with more commands under way and a second session.      *)
EXTENDS DryerPrograms

CONSTANTS misti
VARIABLE focus

MCPrograms == {Cotone, misti}

Wire == INSTANCE DryerPrograms WITH Downloads <- {}, MaxWire <- 2, MaxLater <- 1, MaxSessions <- 2

MCInit == (focus = "cycles" /\ Init) \/ (focus = "wire" /\ Wire!Init)
MCNext == ((focus = "cycles" /\ Next) \/ (focus = "wire" /\ Wire!Next)) /\ UNCHANGED focus
MCSpec == MCInit /\ [][MCNext]_<<vars, focus>>

\* The instance of the run that looks at the settings alone.
SettingsSpec == (Init /\ focus = "cycles") /\ [][Next /\ UNCHANGED focus]_<<vars, focus>>
=============================================================================
