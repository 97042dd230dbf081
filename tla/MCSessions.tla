----------------------------- MODULE MCSessions -----------------------------
(***************************************************************************)
(* Instances of Sessions.  An appliance that only reports handled models,  *)
(* and one that may report both kinds over its life.  The two protocols    *)
(* share no appliance and no connection, so a behaviour looks at those of  *)
(* one, as "focus" says.                                                   *)
(***************************************************************************)
EXTENDS Sessions

CONSTANTS w1, w2, f1, f2, a1, b1
VARIABLE focus

FirstRelabels == [i \in Ids |-> IF i \in {w1, f1} THEN Models ELSE {"handled"}]

OtherConns == IF focus = "thinq1" THEN T2Conns ELSE T1Conns

MCInit == Init /\ focus \in {"thinq1", "thinq2"}
MCNext ==
  /\ Next
  /\ \A c \in OtherConns : sock'[c] = sock[c]
  /\ focus = "thinq2" => UNCHANGED deviceMeta
  /\ UNCHANGED focus
MCSpec == MCInit /\ [][MCNext]_<<vars, focus>> /\ Fairness

\* GoneIsDropped of every connection: those of a protocol are interchangeable.
GoneAreDropped == GoneIsDropped(a1) /\ GoneIsDropped(b1)
=============================================================================
