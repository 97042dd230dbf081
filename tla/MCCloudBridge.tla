--------------------------- MODULE MCCloudBridge ---------------------------
(* Two instances of CloudBridge side by side, as "focus" says: a ThinQ2    *)
(* appliance with a switch, and, as Page, a ThinQ1 appliance.  Both have   *)
(* calls of enable() under way while everything else happens, and power    *)
(* may fail in a write.                                                    *)
EXTENDS CloudBridge, TLC

VARIABLE focus

Page == INSTANCE CloudBridge WITH Platform <- "thinq1"

MCInit == (focus = "switch" /\ Init) \/ (focus = "page" /\ Page!Init)
MCNext == ((focus = "switch" /\ Next) \/ (focus = "page" /\ Page!Next)) /\ UNCHANGED focus
MCSpec == MCInit /\ [][MCNext]_<<vars, focus>>

\* The instance of the run that looks at the switch alone.
RaceSpec == (Init /\ focus = "switch") /\ [][Next /\ UNCHANGED focus]_<<vars, focus>>

\* Device objects and calls are only ever taken by \E; the objects of the two
\* pools are taken by CHOOSE and stay out of the symmetry.
MCSymmetry == Permutations(Devs) \cup Permutations(Calls)
=============================================================================
