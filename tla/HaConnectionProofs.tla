------------------------- MODULE HaConnectionProofs -------------------------
(***************************************************************************)
(* What is proved of HaConnection, for any appliances, values and bounds   *)
(* and for both styles of availability: nothing is shown once the program  *)
(* is gone, and while it is connected the retained topics become what the  *)
(* handlers have said, whatever an earlier connection or run left there.   *)
(***************************************************************************)
EXTENDS HaConnection, FiniteSetTheorems, TLAPS

(* What is published on the connection reaches the broker only while it    *)
(* holds the session that has the will, and the will is the last word of   *)
(* a session: without LinkHasSession the 'online' of connected() could be  *)
(* taken after the will.                                                   *)
LinkHasSession == link => session
NobodyIsOnline == ~session => rethink # "online"
IInv == LinkHasSession /\ NobodyIsOnline

LEMMA InitHolds == Init => IInv
  BY DEF Init, IInv, LinkHasSession, NobodyIsOnline

LEMMA StepKeeps == IInv /\ [Next]_vars => IInv'
<1> SUFFICES ASSUME IInv, [Next]_vars PROVE IInv'
  OBVIOUS
<1> USE DEF IInv, LinkHasSession, NobodyIsOnline, topics
\* Handlers publish, and no more.
<1>1. ASSUME NEW i \in Ids, NewDevice(i) \/ SetConfig(i) \/ DropDevice(i) \/ Report(i) \/ ReceiveRetained(i)
      PROVE  IInv'
  BY <1>1 DEF NewDevice, SetConfig, DropDevice, Report, ReceiveRetained
<1>2. CASE Connect
  BY <1>2 DEF Connect
<1>3. CASE Disconnected \/ ReceiveBirth
  BY <1>3 DEF Disconnected, ReceiveBirth
<1>4. CASE Take
  \* The broker has the session of what it takes.
  <2>1. session /\ session' = session
    BY <1>4 DEF Take
  <2> QED BY <2>1
<1>5. CASE PublishWill
  BY <1>5 DEF PublishWill, Will
<1>6. CASE Break \/ Crash \/ Start
  BY <1>6 DEF Break, Crash, Start
<1>7. CASE UNCHANGED vars
  BY <1>7 DEF vars
<1> QED BY <1>1, <1>2, <1>3, <1>4, <1>5, <1>6, <1>7 DEF Next

\* Once the broker knows that the program is gone, no appliance is shown as
\* available, whichever of its own topics stayed 'online' (note 2 at the head of
\* homeassistant.ts; the will of the constructor).
THEOREM StoppedNeverShown == Spec => []StoppedIsNotShown
<1>1. IInv => StoppedIsNotShown
  BY DEF IInv, NobodyIsOnline, StoppedIsNotShown, Shown
<1> QED BY <1>1, InitHolds, StepKeeps, PTL DEF Spec

-----------------------------------------------------------------------------
(* What is under way says about a topic.                                   *)

\* A message of the kind, about the appliance.
About(m, kind, i) == m[1] = kind /\ m[2] = i

Mentions(q, kind, i) == \E n \in 1 .. Len(q) : About(q[n], kind, i)
Holds(q, kind) == \E n \in 1 .. Len(q) : q[n][1] = kind

\* The last message of the kind about the appliance says v.
LastIs(q, kind, i, v) ==
  \E n \in 1 .. Len(q) : /\ About(q[n], kind, i) /\ q[n][3] = v
                         /\ \A l \in n + 1 .. Len(q) : ~About(q[l], kind, i)

LEMMA MessageCases ==
  ASSUME NEW m \in Msgs
  PROVE  /\ m[1] = "avail" => m[2] \in Ids /\ m[3] \in {"online", "offline"}
         /\ m[1] = "value" => m[2] \in Ids /\ m[3] \in Values
         /\ m[1] = "config" => m[2] \in Ids
<1>1. CASE m \in {<<"subscribe">>, <<"rethink">>}
  BY <1>1
<1>2. CASE m \in {"config"} \X Ids
  BY <1>2
<1>3. CASE m \in {"avail"} \X Ids \X {"online", "offline"}
  BY <1>3
<1>4. CASE m \in {"value"} \X Ids \X Values
  BY <1>4
<1> QED BY <1>1, <1>2, <1>3, <1>4 DEF Msgs

\* One message more, at the end.
LEMMA Joined ==
  ASSUME NEW p \in Seq(Msgs), NEW q \in Seq(Msgs), NEW kind, NEW i
  PROVE  /\ p \o q \in Seq(Msgs)
         /\ Mentions(p \o q, kind, i) <=> Mentions(p, kind, i) \/ Mentions(q, kind, i)
         /\ Holds(p \o q, kind) <=> Holds(p, kind) \/ Holds(q, kind)
         /\ \A v : LastIs(q, kind, i, v) => LastIs(p \o q, kind, i, v)
         /\ \A v : LastIs(p, kind, i, v) /\ ~Mentions(q, kind, i) => LastIs(p \o q, kind, i, v)
<1> DEFINE z == p \o q
<1>1. /\ z \in Seq(Msgs) /\ Len(p) \in Nat /\ Len(q) \in Nat
      /\ Len(z) = Len(p) + Len(q)
      /\ \A n \in 1 .. Len(p) : z[n] = p[n]
      /\ \A n \in 1 .. Len(q) : z[n + Len(p)] = q[n]
  OBVIOUS
<1> HIDE DEF z
<1>2. \A n \in 1 .. Len(z) : \/ n \in 1 .. Len(p)
                             \/ n - Len(p) \in 1 .. Len(q) /\ z[n] = q[n - Len(p)]
  BY <1>1
<1>0. /\ \A n \in 1 .. Len(p) : n \in 1 .. Len(z) /\ z[n] = p[n]
      /\ \A n \in 1 .. Len(q) : n + Len(p) \in 1 .. Len(z) /\ z[n + Len(p)] = q[n]
  BY <1>1
<1>3. Mentions(z, kind, i) <=> Mentions(p, kind, i) \/ Mentions(q, kind, i)
  <2>1. ASSUME Mentions(z, kind, i) PROVE Mentions(p, kind, i) \/ Mentions(q, kind, i)
    <3>1. PICK n \in 1 .. Len(z) : About(z[n], kind, i)
      BY <2>1 DEF Mentions
    <3> QED BY <1>0, <1>2, <3>1 DEF Mentions
  <2>2. ASSUME Mentions(p, kind, i) PROVE Mentions(z, kind, i)
    BY <1>0, <2>2 DEF Mentions
  <2>3. ASSUME Mentions(q, kind, i) PROVE Mentions(z, kind, i)
    <3>1. PICK n \in 1 .. Len(q) : About(q[n], kind, i)
      BY <2>3 DEF Mentions
    <3> QED BY <1>0, <3>1 DEF Mentions
  <2> QED BY <2>1, <2>2, <2>3
<1>4. Holds(z, kind) <=> Holds(p, kind) \/ Holds(q, kind)
  <2>1. ASSUME Holds(z, kind) PROVE Holds(p, kind) \/ Holds(q, kind)
    <3>1. PICK n \in 1 .. Len(z) : z[n][1] = kind
      BY <2>1 DEF Holds
    <3> QED BY <1>0, <1>2, <3>1 DEF Holds
  <2>2. ASSUME Holds(p, kind) PROVE Holds(z, kind)
    BY <1>0, <2>2 DEF Holds
  <2>3. ASSUME Holds(q, kind) PROVE Holds(z, kind)
    <3>1. PICK n \in 1 .. Len(q) : q[n][1] = kind
      BY <2>3 DEF Holds
    <3> QED BY <1>0, <3>1 DEF Holds
  <2> QED BY <2>1, <2>2, <2>3
<1>5. ASSUME NEW v, LastIs(q, kind, i, v) PROVE LastIs(z, kind, i, v)
  <2>1. PICK n \in 1 .. Len(q) : /\ About(q[n], kind, i) /\ q[n][3] = v
                                 /\ \A l \in n + 1 .. Len(q) : ~About(q[l], kind, i)
    BY <1>5 DEF LastIs
  <2>2. n + Len(p) \in 1 .. Len(z) /\ z[n + Len(p)] = q[n]
    BY <1>1
  <2>3. \A l \in n + Len(p) + 1 .. Len(z) : ~About(z[l], kind, i)
    <3> TAKE l \in n + Len(p) + 1 .. Len(z)
    <3>1. l - Len(p) \in n + 1 .. Len(q) /\ z[l] = q[l - Len(p)]
      BY <1>1, <1>2
    <3> QED BY <2>1, <3>1
  <2> QED BY <2>1, <2>2, <2>3 DEF LastIs
<1>6. ASSUME NEW v, LastIs(p, kind, i, v), ~Mentions(q, kind, i) PROVE LastIs(z, kind, i, v)
  <2>1. PICK n \in 1 .. Len(p) : /\ About(p[n], kind, i) /\ p[n][3] = v
                                 /\ \A l \in n + 1 .. Len(p) : ~About(p[l], kind, i)
    BY <1>6 DEF LastIs
  <2>2. n \in 1 .. Len(z) /\ z[n] = p[n]
    BY <1>1
  <2>3. \A l \in n + 1 .. Len(z) : ~About(z[l], kind, i)
    <3> TAKE l \in n + 1 .. Len(z)
    <3>1. CASE l \in 1 .. Len(p)
      BY <1>1, <2>1, <3>1
    <3>2. CASE l - Len(p) \in 1 .. Len(q) /\ z[l] = q[l - Len(p)]
      BY <1>6, <3>2 DEF Mentions
    <3> QED BY <1>1, <1>2, <3>1, <3>2
  <2> QED BY <2>1, <2>2, <2>3 DEF LastIs
<1> QED BY <1>1, <1>3, <1>4, <1>5, <1>6 DEF z

\* One message fewer, at the front.
LEMMA Taken ==
  ASSUME NEW q \in Seq(Msgs), q # <<>>, NEW kind, NEW i
  PROVE  /\ Tail(q) \in Seq(Msgs) /\ Head(q) \in Msgs
         /\ Mentions(q, kind, i) <=> About(Head(q), kind, i) \/ Mentions(Tail(q), kind, i)
         /\ Holds(q, kind) <=> Head(q)[1] = kind \/ Holds(Tail(q), kind)
         /\ \A v : LastIs(q, kind, i, v) =>
              \/ LastIs(Tail(q), kind, i, v)
              \/ /\ ~Mentions(Tail(q), kind, i)
                 /\ About(Head(q), kind, i) /\ Head(q)[3] = v
<1> DEFINE z == Tail(q)
           h == Head(q)
<1>1. /\ z \in Seq(Msgs) /\ h \in Msgs /\ h = q[1] /\ Len(z) \in Nat
      /\ Len(q) = Len(z) + 1
      /\ \A n \in 1 .. Len(z) : z[n] = q[n + 1]
      /\ \A n \in 2 .. Len(q) : z[n - 1] = q[n]
  OBVIOUS
<1> HIDE DEF z, h
<1>2. \A n \in 1 .. Len(q) : n = 1 \/ (n - 1 \in 1 .. Len(z) /\ z[n - 1] = q[n])
  BY <1>1
<1>0. 1 \in 1 .. Len(q) /\ \A n \in 1 .. Len(z) : n + 1 \in 1 .. Len(q) /\ q[n + 1] = z[n]
  BY <1>1
<1>3. Mentions(q, kind, i) <=> About(h, kind, i) \/ Mentions(z, kind, i)
  <2>1. ASSUME Mentions(q, kind, i) PROVE About(h, kind, i) \/ Mentions(z, kind, i)
    <3>1. PICK n \in 1 .. Len(q) : About(q[n], kind, i)
      BY <2>1 DEF Mentions
    <3> QED BY <1>1, <1>2, <3>1 DEF Mentions
  <2>2. ASSUME About(h, kind, i) PROVE Mentions(q, kind, i)
    BY <1>0, <1>1, <2>2 DEF Mentions
  <2>3. ASSUME Mentions(z, kind, i) PROVE Mentions(q, kind, i)
    <3>1. PICK n \in 1 .. Len(z) : About(z[n], kind, i)
      BY <2>3 DEF Mentions
    <3> QED BY <1>0, <3>1 DEF Mentions
  <2> QED BY <2>1, <2>2, <2>3
<1>4. Holds(q, kind) <=> h[1] = kind \/ Holds(z, kind)
  <2>1. ASSUME Holds(q, kind) PROVE h[1] = kind \/ Holds(z, kind)
    <3>1. PICK n \in 1 .. Len(q) : q[n][1] = kind
      BY <2>1 DEF Holds
    <3> QED BY <1>1, <1>2, <3>1 DEF Holds
  <2>2. ASSUME h[1] = kind PROVE Holds(q, kind)
    BY <1>0, <1>1, <2>2 DEF Holds
  <2>3. ASSUME Holds(z, kind) PROVE Holds(q, kind)
    <3>1. PICK n \in 1 .. Len(z) : z[n][1] = kind
      BY <2>3 DEF Holds
    <3> QED BY <1>0, <3>1 DEF Holds
  <2> QED BY <2>1, <2>2, <2>3
<1>5. ASSUME NEW v, LastIs(q, kind, i, v)
      PROVE  LastIs(z, kind, i, v) \/ /\ ~Mentions(z, kind, i)
                                      /\ About(h, kind, i) /\ h[3] = v
  <2>1. PICK n \in 1 .. Len(q) : /\ About(q[n], kind, i) /\ q[n][3] = v
                                 /\ \A l \in n + 1 .. Len(q) : ~About(q[l], kind, i)
    BY <1>5 DEF LastIs
  <2>2. CASE n = 1
    <3>1. ~Mentions(z, kind, i)
      BY <1>1, <2>1, <2>2 DEF Mentions
    <3> QED BY <1>1, <2>1, <2>2, <3>1
  <2>3. CASE n # 1
    <3>1. n - 1 \in 1 .. Len(z) /\ z[n - 1] = q[n]
      BY <1>2, <2>3
    <3>2. \A l \in (n - 1) + 1 .. Len(z) : ~About(z[l], kind, i)
      BY <1>1, <2>1
    <3> QED BY <2>1, <3>1, <3>2 DEF LastIs
  <2> QED BY <2>2, <2>3
<1> QED BY <1>1, <1>3, <1>4, <1>5 DEF z, h

LEMMA EmptySays ==
  /\ <<>> \in Seq(Msgs)
  /\ \A kind, i : ~Mentions(<<>>, kind, i)
  /\ \A kind : ~Holds(<<>>, kind)
  BY DEF Mentions, Holds

LEMMA LastMentions ==
  ASSUME NEW q, NEW kind, NEW i, NEW v, LastIs(q, kind, i, v)
  PROVE  Mentions(q, kind, i)
  BY DEF LastIs, Mentions

LEMMA OnlineSays ==
  ASSUME NEW i \in Ids
  PROVE  /\ Online(i) \in Seq(Msgs)
         /\ LastIs(Online(i), "avail", i, "online")
         /\ Mentions(Online(i), "config", i)
         /\ \A j \in Ids : /\ j # i => ~Mentions(Online(i), "avail", j)
                           /\ ~Mentions(Online(i), "value", j)
<1> DEFINE q == Online(i)
<1> DEFINE a == <<"avail", i, "online">>
           c == <<"config", i>>
<1>1. a \in Msgs /\ c \in Msgs
  BY DEF Msgs
<1>2. q = <<a, c>>
  BY DEF Online
<1> HIDE DEF a, c, q
<1>3. q \in Seq(Msgs) /\ Len(q) = 2 /\ q[1] = a /\ q[2] = c
  BY <1>1, <1>2
<1> HIDE DEF q
<1>4. /\ About(q[1], "avail", i) /\ q[1][3] = "online" /\ About(q[2], "config", i)
      /\ \A j : ~About(q[2], "avail", j) /\ ~About(q[1], "value", j) /\ ~About(q[2], "value", j)
      /\ \A j : About(q[1], "avail", j) => j = i
  BY <1>3 DEF About, a, c
<1>5. LastIs(q, "avail", i, "online")
  BY <1>3, <1>4 DEF LastIs
<1>6. /\ Mentions(q, "config", i)
      /\ \A j \in Ids : /\ j # i => ~Mentions(q, "avail", j)
                        /\ ~Mentions(q, "value", j)
  BY <1>3, <1>4 DEF Mentions
<1> QED BY <1>3, <1>5, <1>6 DEF q

LEMMA OfflineSays ==
  ASSUME NEW i \in Ids
  PROVE  /\ Offline(i) \in Seq(Msgs)
         /\ LastIs(Offline(i), "avail", i, "offline")
         /\ \A j \in Ids : /\ j # i => ~Mentions(Offline(i), "avail", j)
                           /\ ~Mentions(Offline(i), "value", j)
<1> DEFINE q == Offline(i)
<1> DEFINE a == <<"avail", i, "offline">>
<1>1. a \in Msgs
  BY DEF Msgs
<1>2. q = <<a>>
  BY DEF Offline
<1> HIDE DEF a, q
<1>3. q \in Seq(Msgs) /\ Len(q) = 1 /\ q[1] = a
  BY <1>1, <1>2
<1>4. /\ About(q[1], "avail", i) /\ q[1][3] = "offline"
      /\ \A j : ~About(q[1], "value", j)
      /\ \A j : About(q[1], "avail", j) => j = i
  BY <1>3 DEF About, a
<1>5. LastIs(q, "avail", i, "offline")
  BY <1>3, <1>4 DEF LastIs
<1>6. \A j \in Ids : /\ j # i => ~Mentions(q, "avail", j)
                     /\ ~Mentions(q, "value", j)
  BY <1>3, <1>4 DEF Mentions
<1> QED BY <1>3, <1>5, <1>6 DEF q

LEMMA ValueSays ==
  ASSUME NEW i \in Ids, NEW v \in Values
  PROVE  LET q == <<<<"value", i, v>>>> IN
         /\ q \in Seq(Msgs)
         /\ LastIs(q, "value", i, v)
         /\ \A j \in Ids : /\ j # i => ~Mentions(q, "value", j)
                           /\ ~Mentions(q, "avail", j)
<1> DEFINE q == <<<<"value", i, v>>>>
<1>1. Len(q) = 1 /\ q[1] = <<"value", i, v>> /\ q[1] \in Msgs /\ q \in Seq(Msgs)
  <2>1. <<"value", i, v>> \in Msgs
    BY DEF Msgs
  <2> QED BY <2>1
<1> HIDE DEF q
<1>2. /\ About(q[1], "value", i) /\ q[1][3] = v
      /\ \A j : ~About(q[1], "avail", j)
      /\ \A j : About(q[1], "value", j) => j = i
  BY <1>1 DEF About
<1>3. LastIs(q, "value", i, v)
  BY <1>1, <1>2 DEF LastIs
<1>4. \A j \in Ids : /\ j # i => ~Mentions(q, "value", j)
                     /\ ~Mentions(q, "avail", j)
  BY <1>1, <1>2 DEF Mentions
<1> QED BY <1>1, <1>3, <1>4 DEF q

\* The event 'discovery' names the appliances with a configuration, each of them once.
LEMMA DiscoveryOrder ==
  LET order == SetToSeq(Configured)
      n == Len(order)
  IN /\ n \in Nat
     /\ order \in [1 .. n -> Configured]
     /\ \A k, l \in 1 .. n : order[k] = order[l] => k = l
     /\ \A i \in Configured : \E k \in 1 .. n : order[k] = i
<1> DEFINE C == Configured
           n == Cardinality(C)
           order == SetToSeq(C)
<1>1. IsFiniteSet(C)
  BY FS_Subset, HaAssumption DEF Configured
<1>2. n \in Nat /\ ExistsBijection(1 .. n, C)
  BY <1>1, FS_CardinalityType
<1>3. \E g \in [1 .. n -> C] : IsInjective(g)
  BY <1>2 DEF ExistsBijection, Bijection, Injection
<1>4. order \in [1 .. n -> C] /\ IsInjective(order)
  BY <1>3 DEF SetToSeq
<1>5. IsFiniteSet(1 .. n) /\ Cardinality(1 .. n) = n
  BY <1>2, FS_Interval
<1> HIDE DEF order, C, n
<1>6. order \in Injection(1 .. n, C)
  BY <1>4 DEF Injection
<1>7. order \in Surjection(1 .. n, C)
  <2>1. Cardinality(1 .. n) = Cardinality(C)
    BY <1>5 DEF n
  <2> QED BY <1>1, <1>6, <2>1, FS_Injection
<1>8. Len(order) = n
  BY <1>2, <1>4
<1>9. \A k, l \in 1 .. n : order[k] = order[l] => k = l
  BY <1>4 DEF IsInjective
<1>10. \A i \in C : \E k \in 1 .. n : order[k] = i
  BY <1>7 DEF Surjection
<1> QED BY <1>2, <1>4, <1>8, <1>9, <1>10 DEF order, C

LEMMA DiscoverySays ==
  /\ Discovery \in Seq(Msgs)
  /\ \A i \in Configured : /\ LastIs(Discovery, "avail", i, "online")
                           /\ Mentions(Discovery, "config", i)
  /\ \A i \in Ids : /\ i \notin Configured => ~Mentions(Discovery, "avail", i)
                    /\ ~Mentions(Discovery, "value", i)
<1> DEFINE order == SetToSeq(Configured)
           n == Len(order)
           d == [k \in 1 .. 2 * n |-> Online(order[(k + 1) \div 2])[2 - (k % 2)]]
           half(k) == (k + 1) \div 2
<1>1. /\ n \in Nat
      /\ order \in [1 .. n -> Configured]
      /\ \A k, l \in 1 .. n : order[k] = order[l] => k = l
      /\ \A i \in Configured : \E k \in 1 .. n : order[k] = i
  BY DiscoveryOrder
<1>2. Discovery = d
  BY DEF Discovery
<1> HIDE DEF order, n
<1>3. \A k \in Nat : /\ half(k) \in Nat /\ k % 2 \in {0, 1}
                     /\ k = 2 * half(k) - (k % 2)
  OBVIOUS
<1>4. \A k \in 1 .. 2 * n : half(k) \in 1 .. n
  <2> TAKE k \in 1 .. 2 * n
  <2>1. /\ half(k) \in Nat /\ k % 2 \in {0, 1} /\ k = 2 * half(k) - (k % 2)
    BY <1>1, <1>3
  <2> HIDE DEF half
  <2> QED BY <1>1, <2>1
<1>5. \A i : Online(i)[1] = <<"avail", i, "online">> /\ Online(i)[2] = <<"config", i>>
  BY DEF Online
<1>6. \A k \in 1 .. 2 * n :
        d[k] = IF k % 2 = 1 THEN <<"avail", order[half(k)], "online">>
                            ELSE <<"config", order[half(k)]>>
  <2> TAKE k \in 1 .. 2 * n
  <2>1. d[k] = Online(order[half(k)])[2 - (k % 2)]
    OBVIOUS
  <2>2. k % 2 \in {0, 1}
    BY <1>1, <1>3
  <2> HIDE DEF d, half
  <2>3. CASE k % 2 = 1
    <3>1. 2 - (k % 2) = 1
      BY <2>3
    <3> QED BY <1>5, <2>1, <2>3, <3>1
  <2>4. CASE k % 2 = 0
    <3>1. 2 - (k % 2) = 2
      BY <2>4
    <3> QED BY <1>5, <2>1, <2>4, <3>1
  <2> QED BY <2>2, <2>3, <2>4
<1>7. DOMAIN d = 1 .. 2 * n /\ 2 * n \in Nat
  BY <1>1
<1> HIDE DEF d
<1>8. \A k \in 1 .. n : /\ 2 * k - 1 \in 1 .. 2 * n /\ half(2 * k - 1) = k /\ (2 * k - 1) % 2 = 1
                        /\ 2 * k \in 1 .. 2 * n /\ half(2 * k) = k /\ (2 * k) % 2 = 0
  BY <1>1
<1> HIDE DEF half
<1>9. \A k \in 1 .. 2 * n : d[k] \in Msgs
  <2> TAKE k \in 1 .. 2 * n
  <2>1. order[half(k)] \in Ids
    BY <1>1, <1>4 DEF Configured
  <2> DEFINE o == order[half(k)]
  <2> HIDE DEF o
  <2>2. o \in Ids => <<"avail", o, "online">> \in Msgs /\ <<"config", o>> \in Msgs
    BY DEF Msgs
  <2> QED BY <1>6, <2>1, <2>2 DEF o
<1>10. d \in Seq(Msgs) /\ Len(d) = 2 * n
  <2>1. \E f : f = d /\ DOMAIN f = 1 .. 2 * n
    BY <1>7
  <2>2. d = [k \in 1 .. 2 * n |-> d[k]]
    BY DEF d
  <2> QED BY <1>7, <1>9, <2>2
<1>11. ASSUME NEW i \in Configured
       PROVE  LastIs(d, "avail", i, "online") /\ Mentions(d, "config", i)
  <2>1. PICK j \in 1 .. n : order[j] = i
    BY <1>1
  <2>2. 2 * j - 1 \in 1 .. Len(d) /\ d[2 * j - 1] = <<"avail", i, "online">>
    BY <1>6, <1>8, <1>10, <2>1
  <2>3. 2 * j \in 1 .. Len(d) /\ d[2 * j] = <<"config", i>>
    BY <1>6, <1>8, <1>10, <2>1
  <2>4. \A l \in 2 * j - 1 + 1 .. Len(d) : ~About(d[l], "avail", i)
    <3> SUFFICES ASSUME NEW l \in 2 * j - 1 + 1 .. Len(d), About(d[l], "avail", i)
                 PROVE  FALSE
      OBVIOUS
    <3>1. l \in 1 .. 2 * n /\ l > 2 * j - 1
      BY <1>1, <1>10
    <3>2. l % 2 = 1 /\ order[half(l)] = i
      <4>1. d[l] = IF l % 2 = 1 THEN <<"avail", order[half(l)], "online">>
                                ELSE <<"config", order[half(l)]>>
        BY <1>6, <3>1
      <4>2. d[l][1] = "avail" /\ d[l][2] = i
        BY DEF About
      <4>3. l % 2 = 1
        BY <4>1, <4>2
      <4> QED BY <4>1, <4>2, <4>3
    <3>3. half(l) = j
      BY <1>1, <1>4, <2>1, <3>1, <3>2
    <3>4. l = 2 * half(l) - (l % 2)
      BY <1>1, <1>3, <3>1 DEF half
    <3> QED BY <3>1, <3>2, <3>3, <3>4
  <2>5. /\ About(d[2 * j - 1], "avail", i) /\ d[2 * j - 1][3] = "online"
        /\ About(d[2 * j], "config", i)
    BY <2>2, <2>3 DEF About
  <2>6. LastIs(d, "avail", i, "online")
    BY <2>2, <2>4, <2>5 DEF LastIs
  <2> QED BY <2>3, <2>5, <2>6 DEF Mentions
<1>12. ASSUME NEW i \in Ids
       PROVE  /\ i \notin Configured => ~Mentions(d, "avail", i)
              /\ ~Mentions(d, "value", i)
  <2>1. \A k \in 1 .. Len(d) : /\ order[half(k)] \in Configured
                               /\ About(d[k], "avail", i) => i = order[half(k)]
                               /\ ~About(d[k], "value", i)
    <3> TAKE k \in 1 .. Len(d)
    <3>1. k \in 1 .. 2 * n /\ half(k) \in 1 .. n
      BY <1>4, <1>10
    <3>2. order[half(k)] \in Configured
      BY <1>1, <3>1
    <3>3. \/ d[k] = <<"avail", order[half(k)], "online">>
          \/ d[k] = <<"config", order[half(k)]>>
      BY <1>6, <3>1
    <3>4. ~About(d[k], "value", i) /\ (About(d[k], "avail", i) => i = order[half(k)])
      BY <3>3 DEF About
    <3> QED BY <3>2, <3>4
  <2> QED BY <2>1 DEF Mentions
<1> QED BY <1>2, <1>10, <1>11, <1>12

-----------------------------------------------------------------------------
(* Where the retained topics are on their way to.                          *)

\* The client's idea of its connection, and where the broker's answers can be.
ClientOK ==
  /\ out \in Seq(Msgs)
  /\ handler \in [Ids -> {"none", "new", "configured"}]
  /\ publishCache \in [Ids -> Values \cup {None}]
  /\ value \in [Ids -> Values \cup {None}]
  /\ avail \in [Ids -> {"none", "online", "offline"}]
  /\ link => isConnected
  /\ isConnected => running
  /\ ~isConnected => inbox = {}
  /\ link => rethink = "online" \/ Holds(out, "rethink")

Truth(i) == IF i \in Configured THEN "online" ELSE "offline"

\* The last word under way about an appliance is the truth about its handler; where
\* nothing is under way the topic itself is true, or is about to be cleaned up.
TopicOK(i) ==
  /\ Mentions(out, "avail", i) => LastIs(out, "avail", i, Truth(i))
  /\ isConnected =>
       /\ i \in Configured =>
            /\ i \in publishedAvailability
            /\ Mentions(out, "avail", i) \/ avail[i] = "online"
            /\ i \in config \/ Mentions(out, "config", i)
       /\ i \in publishedAvailability \ Configured =>
            Mentions(out, "avail", i) \/ avail[i] # "online"
       /\ i \notin publishedAvailability =>
            \/ Mentions(out, "avail", i) \/ avail[i] # "online"
            \/ i \in inbox \/ Holds(out, "subscribe")

\* The cache of a handler says what will be retained, unless that was lost.
CacheOK(i) ==
  \/ publishCache[i] = None \/ i \in lost
  \/ LastIs(out, "value", i, publishCache[i])
  \/ ~Mentions(out, "value", i) /\ value[i] = publishCache[i]

TopicInv == ClientOK /\ \A i \in Ids : TopicOK(i) /\ CacheOK(i)

LEMMA TopicInit == Init => TopicInv
<1> SUFFICES ASSUME Init PROVE TopicInv
  OBVIOUS
<1>1. out = <<>> /\ \A i \in Ids : publishCache[i] = None
  BY DEF Init, Nobody
<1>2. ClientOK
  BY EmptySays DEF Init, Nobody, ClientOK
<1>3. \A i \in Ids : TopicOK(i) /\ CacheOK(i)
  BY <1>1, EmptySays DEF Init, TopicOK, CacheOK
<1> QED BY <1>2, <1>3 DEF TopicInv

\* Messages about other appliances change nothing for this one, and the clean-up of a
\* topic on which this connection has published is skipped.
LEMMA Untouched ==
  ASSUME NEW i \in Ids, NEW q \in Seq(Msgs), out \in Seq(Msgs), TopicOK(i),
         ~Mentions(q, "avail", i), out' = out \o q,
         isConnected' = isConnected, avail' = avail, config' = config,
         i \in Configured' <=> i \in Configured,
         i \in publishedAvailability' <=> i \in publishedAvailability,
         i \notin publishedAvailability /\ i \in inbox => i \in inbox'
  PROVE  TopicOK(i)'
<1>1. /\ Mentions(out', "avail", i) <=> Mentions(out, "avail", i)
      /\ Mentions(out, "config", i) => Mentions(out', "config", i)
      /\ Holds(out, "subscribe") => Holds(out', "subscribe")
      /\ \A v : LastIs(out, "avail", i, v) => LastIs(out', "avail", i, v)
  BY Joined
<1>2. Truth(i)' = Truth(i)
  BY DEF Truth
<1> QED BY <1>1, <1>2 DEF TopicOK

\* The truth, told last, and a configuration with it.
LEMMA Spoken ==
  ASSUME NEW i \in Ids, NEW q \in Seq(Msgs), out \in Seq(Msgs), out' = out \o q,
         LastIs(q, "avail", i, Truth(i)'),
         i \in Configured' => i \in publishedAvailability' /\ Mentions(q, "config", i)
  PROVE  TopicOK(i)'
<1>1. /\ LastIs(out', "avail", i, Truth(i)')
      /\ Mentions(q, "config", i) => Mentions(out', "config", i)
  BY Joined
<1>2. Mentions(out', "avail", i)
  BY <1>1, LastMentions
<1> QED BY <1>1, <1>2 DEF TopicOK

LEMMA Uncached ==
  ASSUME NEW i \in Ids, NEW q \in Seq(Msgs), out \in Seq(Msgs), CacheOK(i),
         ~Mentions(q, "value", i), out' = out \o q,
         publishCache'[i] \in {None, publishCache[i]}, value' = value,
         i \in lost => i \in lost'
  PROVE  CacheOK(i)'
<1>1. /\ Mentions(out', "value", i) <=> Mentions(out, "value", i)
      /\ \A v : LastIs(out, "value", i, v) => LastIs(out', "value", i, v)
  BY Joined
<1> QED BY <1>1 DEF CacheOK

\* What is appended keeps the client's side in order.
LEMMA ClientAppends ==
  ASSUME NEW q \in Seq(Msgs), ClientOK, out' = out \o q,
         handler' \in [Ids -> {"none", "new", "configured"}],
         publishCache' \in [Ids -> Values \cup {None}],
         UNCHANGED <<running, isConnected, link, topics>>, inbox' \subseteq inbox
  PROVE  ClientOK'
<1>1. out' \in Seq(Msgs) /\ (Holds(out, "rethink") => Holds(out', "rethink"))
  BY Joined DEF ClientOK
<1> QED BY <1>1 DEF ClientOK, topics

LEMMA NewDeviceKeeps ==
  ASSUME TopicInv, NEW i \in Ids, NewDevice(i)
  PROVE  TopicInv'
<1>1. PICK s \in {"new", "configured"} :
        LET old == IF handler[i] # "none" THEN Offline(i) ELSE <<>>
            new == IF s = "configured" THEN Online(i) ELSE <<>>
        IN /\ handler' = [handler EXCEPT ![i] = s]
           /\ out' = out \o old \o new
           /\ publishedAvailability' = publishedAvailability \cup (IF old \o new # <<>> THEN {i} ELSE {})
  BY DEF NewDevice
<1> DEFINE old == IF handler[i] # "none" THEN Offline(i) ELSE <<>>
           new == IF s = "configured" THEN Online(i) ELSE <<>>
           q == old \o new
<1>2. /\ old \in Seq(Msgs)
      /\ handler[i] # "none" => LastIs(old, "avail", i, "offline")
      /\ handler[i] = "none" => old = <<>>
      /\ \A j \in Ids : /\ j # i => ~Mentions(old, "avail", j)
                        /\ ~Mentions(old, "value", j)
  BY OfflineSays, EmptySays
<1>3. /\ new \in Seq(Msgs)
      /\ s = "configured" => LastIs(new, "avail", i, "online") /\ Mentions(new, "config", i)
      /\ s # "configured" => new = <<>>
      /\ \A j \in Ids : /\ j # i => ~Mentions(new, "avail", j)
                        /\ ~Mentions(new, "value", j)
  BY OnlineSays, EmptySays
<1>4. /\ handler' = [handler EXCEPT ![i] = s]
      /\ out' = (out \o old) \o new
      /\ publishedAvailability' = publishedAvailability \cup (IF q # <<>> THEN {i} ELSE {})
  BY <1>1
<1>5. /\ out \in Seq(Msgs) /\ ClientOK
      /\ handler \in [Ids -> {"none", "new", "configured"}]
      /\ publishCache' = [publishCache EXCEPT ![i] = None]
      /\ publishCache \in [Ids -> Values \cup {None}]
      /\ UNCHANGED <<running, isConnected, inbox, link, topics, lost>>
  BY DEF TopicInv, ClientOK, NewDevice
<1> HIDE DEF old, new
<1>6. /\ q \in Seq(Msgs)
      /\ \A j \in Ids : /\ j # i => ~Mentions(q, "avail", j)
                        /\ ~Mentions(q, "value", j)
      /\ s = "configured" => LastIs(q, "avail", i, "online") /\ Mentions(q, "config", i)
      /\ handler[i] # "none" /\ s # "configured" => LastIs(q, "avail", i, "offline")
      /\ handler[i] = "none" /\ s # "configured" => q = <<>>
  <2>1. ASSUME NEW j \in Ids
        PROVE  /\ j # i => ~Mentions(q, "avail", j)
               /\ ~Mentions(q, "value", j)
    BY <1>2, <1>3, Joined
  <2>2. q \in Seq(Msgs)
    BY <1>2, <1>3
  <2>3. s = "configured" => LastIs(q, "avail", i, "online") /\ Mentions(q, "config", i)
    BY <1>2, <1>3, Joined
  <2>4. s # "configured" => q = old
    BY <1>2, <1>3
  <2> QED BY <1>2, <2>1, <2>2, <2>3, <2>4
<1>7. out' = out \o q
  BY <1>2, <1>3, <1>4, <1>5
<1> HIDE DEF q
<1>8. /\ handler' \in [Ids -> {"none", "new", "configured"}]
      /\ publishCache' \in [Ids -> Values \cup {None}]
      /\ \A j \in Ids : /\ handler'[j] = IF j = i THEN s ELSE handler[j]
                        /\ publishCache'[j] \in {None, publishCache[j]}
  BY <1>4, <1>5
<1>9. ClientOK'
  BY <1>5, <1>6, <1>7, <1>8, ClientAppends
<1>10. i \in Configured' <=> s = "configured"
  BY <1>8 DEF Configured
<1>11. \A j \in Ids : j # i => (j \in Configured' <=> j \in Configured)
  BY <1>8 DEF Configured
<1>12. ASSUME NEW j \in Ids PROVE TopicOK(j)'
  <2>0. TopicOK(j) /\ isConnected' = isConnected /\ avail' = avail /\ config' = config /\ inbox' = inbox
    BY <1>5 DEF TopicInv, topics
  <2>1. CASE j # i
    <3>1. j \in publishedAvailability' <=> j \in publishedAvailability
      BY <1>4, <2>1
    <3>2. ~Mentions(q, "avail", j)
      BY <1>6, <2>1
    <3> QED BY <1>5, <1>6, <1>7, <1>11, <2>0, <2>1, <3>1, <3>2, Untouched
  <2>2. CASE j = i /\ q = <<>>
    <3>1. s # "configured" /\ ~Mentions(q, "avail", i)
      BY <1>6, <2>2, EmptySays, LastMentions
    <3>2. handler[i] # "configured"
      BY <1>6, <2>2, <3>1, EmptySays, LastMentions
    <3>3. i \in Configured' <=> i \in Configured
      BY <1>10, <3>1, <3>2 DEF Configured
    <3>4. publishedAvailability' = publishedAvailability
      BY <1>4, <2>2
    <3> QED BY <1>5, <1>6, <1>7, <2>0, <2>2, <3>1, <3>3, <3>4, Untouched
  <2>3. CASE j = i /\ q # <<>>
    <3>1. i \in publishedAvailability'
      BY <1>4, <2>3
    <3>2. LastIs(q, "avail", i, Truth(i)')
      BY <1>6, <1>10, <2>3 DEF Truth
    <3>3. i \in Configured' => i \in publishedAvailability' /\ Mentions(q, "config", i)
      BY <1>6, <1>10, <3>1
    <3> QED BY <1>5, <1>6, <1>7, <2>3, <3>2, <3>3, Spoken
  <2> QED BY <2>1, <2>2, <2>3
<1>13. ASSUME NEW j \in Ids PROVE CacheOK(j)'
  <2>1. CacheOK(j) /\ value' = value /\ lost' = lost
    BY <1>5 DEF TopicInv, topics
  <2> QED BY <1>5, <1>6, <1>7, <1>8, <2>1, Uncached
<1> QED BY <1>9, <1>12, <1>13 DEF TopicInv

\* A handler that is configured, or goes, tells the truth about itself at once.
LEMMA ConfigDropKeeps ==
  ASSUME TopicInv, NEW i \in Ids, SetConfig(i) \/ DropDevice(i)
  PROVE  TopicInv'
<1> DEFINE s == IF SetConfig(i) THEN "configured" ELSE "none"
           q == IF SetConfig(i) THEN Online(i) ELSE Offline(i)
<1>1. /\ handler' = [handler EXCEPT ![i] = s] /\ out' = out \o q
      /\ publishedAvailability' = publishedAvailability \cup {i}
      /\ UNCHANGED <<running, isConnected, publishCache, inbox, link, topics, lost>>
  BY DEF SetConfig, DropDevice, topics
<1>2. /\ q \in Seq(Msgs)
      /\ s = "configured" => LastIs(q, "avail", i, "online") /\ Mentions(q, "config", i)
      /\ s # "configured" => LastIs(q, "avail", i, "offline")
      /\ \A j \in Ids : /\ j # i => ~Mentions(q, "avail", j)
                        /\ ~Mentions(q, "value", j)
  BY OnlineSays, OfflineSays
<1>3. s \in {"configured", "none"}
  OBVIOUS
<1> HIDE DEF s, q
<1>4. /\ out \in Seq(Msgs) /\ ClientOK
      /\ handler \in [Ids -> {"none", "new", "configured"}]
      /\ publishCache \in [Ids -> Values \cup {None}]
  BY DEF TopicInv, ClientOK
<1>5. /\ handler' \in [Ids -> {"none", "new", "configured"}]
      /\ publishCache' \in [Ids -> Values \cup {None}]
      /\ \A j \in Ids : handler'[j] = IF j = i THEN s ELSE handler[j]
  BY <1>1, <1>3, <1>4
<1>6. ClientOK'
  BY <1>1, <1>2, <1>4, <1>5, ClientAppends
<1>7. /\ i \in Configured' <=> s = "configured"
      /\ \A j \in Ids : j # i => (j \in Configured' <=> j \in Configured)
  BY <1>5 DEF Configured
<1>8. ASSUME NEW j \in Ids PROVE TopicOK(j)'
  <2>1. CASE j # i
    <3>1. /\ TopicOK(j) /\ isConnected' = isConnected /\ avail' = avail /\ config' = config
          /\ inbox' = inbox /\ ~Mentions(q, "avail", j)
          /\ j \in publishedAvailability' <=> j \in publishedAvailability
      BY <1>1, <1>2, <2>1 DEF TopicInv, topics
    <3> QED BY <1>1, <1>2, <1>4, <1>7, <2>1, <3>1, Untouched
  <2>2. CASE j = i
    <3>1. LastIs(q, "avail", i, Truth(i)')
      BY <1>2, <1>7 DEF Truth
    <3>2. i \in Configured' => i \in publishedAvailability' /\ Mentions(q, "config", i)
      BY <1>1, <1>2, <1>7
    <3> QED BY <1>1, <1>2, <1>4, <2>2, <3>1, <3>2, Spoken
  <2> QED BY <2>1, <2>2
<1>9. ASSUME NEW j \in Ids PROVE CacheOK(j)'
  <2>1. CacheOK(j) /\ value' = value /\ lost' = lost /\ publishCache' = publishCache
    BY <1>1 DEF TopicInv, topics
  <2> QED BY <1>1, <1>2, <1>4, <2>1, Uncached
<1> QED BY <1>6, <1>8, <1>9 DEF TopicInv

\* A report that differs from the last one is published, and is not lost yet.
LEMMA ReportKeeps ==
  ASSUME TopicInv, NEW i \in Ids, Report(i)
  PROVE  TopicInv'
<1>1. PICK v \in Values :
        /\ publishCache' = [publishCache EXCEPT ![i] = v]
        /\ out' = out \o Published(i, v)
        /\ lost' = IF publishCache[i] = v THEN lost ELSE lost \ {i}
  BY DEF Report
<1> DEFINE q == Published(i, v)
<1>2. /\ q \in Seq(Msgs)
      /\ publishCache[i] # v => LastIs(q, "value", i, v)
      /\ \A j \in Ids : /\ j # i \/ publishCache[i] = v => ~Mentions(q, "value", j)
                        /\ ~Mentions(q, "avail", j)
  BY ValueSays, EmptySays DEF Published
<1> HIDE DEF q
<1>3. /\ out \in Seq(Msgs) /\ ClientOK /\ out' = out \o q
      /\ handler \in [Ids -> {"none", "new", "configured"}]
      /\ publishCache \in [Ids -> Values \cup {None}]
      /\ UNCHANGED <<running, isConnected, publishedAvailability, handler, inbox, link, topics>>
  BY <1>1 DEF TopicInv, ClientOK, Report, q
<1>4. /\ publishCache' \in [Ids -> Values \cup {None}]
      /\ \A j \in Ids : publishCache'[j] = IF j = i THEN v ELSE publishCache[j]
  BY <1>1, <1>3
<1>5. ClientOK'
  BY <1>2, <1>3, <1>4, ClientAppends
<1>6. ASSUME NEW j \in Ids PROVE TopicOK(j)'
  <2>1. /\ TopicOK(j) /\ isConnected' = isConnected /\ avail' = avail /\ config' = config
        /\ inbox' = inbox /\ publishedAvailability' = publishedAvailability
        /\ Configured' = Configured
    BY <1>3 DEF TopicInv, topics, Configured
  <2> QED BY <1>2, <1>3, <2>1, Untouched
<1>7. ASSUME NEW j \in Ids PROVE CacheOK(j)'
  <2>1. CacheOK(j) /\ value' = value
    BY <1>3 DEF TopicInv, topics
  <2>2. CASE j # i \/ publishCache[i] = v
    <3>1. publishCache'[j] = publishCache[j] /\ (j \in lost => j \in lost')
      BY <1>1, <1>4, <2>2
    <3>2. ~Mentions(q, "value", j)
      BY <1>2, <2>2
    <3> QED BY <1>2, <1>3, <2>1, <3>1, <3>2, Uncached
  <2>3. CASE j = i /\ publishCache[i] # v
    <3>1. LastIs(out', "value", i, v)
      BY <1>2, <1>3, <2>3, Joined
    <3> QED BY <1>4, <2>3, <3>1 DEF CacheOK
  <2> QED BY <2>2, <2>3
<1> QED BY <1>5, <1>6, <1>7 DEF TopicInv

\* The clean-up of a retained 'online' that this connection has not published.
LEMMA RetainedKeeps ==
  ASSUME TopicInv, NEW i \in Ids, ReceiveRetained(i)
  PROVE  TopicInv'
<1> DEFINE q == IF CleansUp(i) THEN Offline(i) ELSE <<>>
<1>1. /\ i \in inbox /\ inbox' = inbox \ {i}
      /\ UNCHANGED <<process, link, topics, lost>>
      /\ out' = IF CleansUp(i) THEN out \o Offline(i) ELSE out
  BY DEF ReceiveRetained
<1>2. /\ q \in Seq(Msgs)
      /\ i \notin publishedAvailability => LastIs(q, "avail", i, "offline")
      /\ i \in publishedAvailability => ~Mentions(q, "avail", i)
      /\ \A j \in Ids : /\ j # i => ~Mentions(q, "avail", j)
                        /\ ~Mentions(q, "value", j)
  BY OfflineSays, EmptySays DEF CleansUp
<1>3. /\ out \in Seq(Msgs) /\ ClientOK
      /\ handler \in [Ids -> {"none", "new", "configured"}]
      /\ publishCache \in [Ids -> Values \cup {None}]
      /\ ~isConnected => inbox = {}
  BY DEF TopicInv, ClientOK
<1>4. out' = out \o q
  BY <1>1, <1>3
<1> HIDE DEF q
<1>5. /\ running' = running /\ isConnected' = isConnected /\ link' = link
      /\ handler' = handler /\ publishCache' = publishCache /\ lost' = lost
      /\ publishedAvailability' = publishedAvailability
      /\ topics' = topics
  BY <1>1 DEF process
<1>6. ClientOK'
  BY <1>1, <1>2, <1>3, <1>4, <1>5, ClientAppends
<1>7. /\ Configured' = Configured /\ avail' = avail /\ config' = config /\ value' = value
  BY <1>5 DEF Configured, topics
<1>8. ASSUME NEW j \in Ids PROVE TopicOK(j)'
  <2>1. TopicOK(j)
    BY DEF TopicInv
  <2>2. CASE j # i \/ i \in publishedAvailability
    <3>1. ~Mentions(q, "avail", j)
      BY <1>2, <2>2
    <3>2. j \notin publishedAvailability /\ j \in inbox => j \in inbox'
      BY <1>1, <2>2
    <3> QED BY <1>2, <1>3, <1>4, <1>5, <1>7, <2>1, <3>1, <3>2, Untouched
  <2>3. CASE j = i /\ i \notin publishedAvailability
    \* The connection is there, so a handler would have published on the topic.
    <3>1. i \notin Configured
      BY <1>1, <1>3, <2>1, <2>3 DEF TopicOK
    <3>2. LastIs(q, "avail", i, Truth(i)') /\ i \notin Configured'
      BY <1>2, <1>7, <2>3, <3>1 DEF Truth
    <3> QED BY <1>2, <1>3, <1>4, <2>3, <3>2, Spoken
  <2> QED BY <2>2, <2>3
<1>9. ASSUME NEW j \in Ids PROVE CacheOK(j)'
  <2>1. CacheOK(j)
    BY DEF TopicInv
  <2> QED BY <1>2, <1>3, <1>4, <1>5, <1>7, <2>1, Uncached
<1> QED BY <1>6, <1>8, <1>9 DEF TopicInv

\* Home Assistant's start: everybody is discovered again.
LEMMA BirthKeeps ==
  ASSUME TopicInv, ReceiveBirth
  PROVE  TopicInv'
<1>1. /\ out' = out \o Discovery
      /\ publishedAvailability' = publishedAvailability \cup Configured
      /\ running' = running /\ isConnected' = isConnected /\ link' = link
      /\ handler' = handler /\ publishCache' = publishCache /\ lost' = lost
      /\ inbox' = inbox /\ topics' = topics
  BY DEF ReceiveBirth, topics
<1>2. /\ out \in Seq(Msgs) /\ ClientOK /\ Discovery \in Seq(Msgs)
      /\ handler \in [Ids -> {"none", "new", "configured"}]
      /\ publishCache \in [Ids -> Values \cup {None}]
  BY DiscoverySays DEF TopicInv, ClientOK
<1>3. ClientOK'
  BY <1>1, <1>2, ClientAppends
<1>4. Configured' = Configured /\ avail' = avail /\ config' = config /\ value' = value
  BY <1>1 DEF Configured, topics
<1>5. ASSUME NEW j \in Ids PROVE TopicOK(j)'
  <2>1. TopicOK(j)
    BY DEF TopicInv
  <2>2. CASE j \in Configured
    <3>1. LastIs(Discovery, "avail", j, Truth(j)') /\ Mentions(Discovery, "config", j)
      BY <1>4, <2>2, DiscoverySays DEF Truth
    <3>2. j \in publishedAvailability'
      BY <1>1, <2>2
    <3> QED BY <1>1, <1>2, <3>1, <3>2, Spoken
  <2>3. CASE j \notin Configured
    <3>1. ~Mentions(Discovery, "avail", j)
      BY <2>3, DiscoverySays
    <3>2. j \in publishedAvailability' <=> j \in publishedAvailability
      BY <1>1, <2>3
    <3> QED BY <1>1, <1>2, <1>4, <2>1, <3>1, <3>2, Untouched
  <2> QED BY <2>2, <2>3
<1>6. ASSUME NEW j \in Ids PROVE CacheOK(j)'
  <2>1. CacheOK(j) /\ ~Mentions(Discovery, "value", j)
    BY DiscoverySays DEF TopicInv
  <2> QED BY <1>1, <1>2, <1>4, <2>1, Uncached
<1> QED BY <1>3, <1>5, <1>6 DEF TopicInv

LEMMA GreetingSays ==
  LET q == <<<<"subscribe">>, <<"rethink">>>> IN
  /\ q \in Seq(Msgs) /\ Holds(q, "subscribe") /\ Holds(q, "rethink")
  /\ \A j : ~Mentions(q, "avail", j) /\ ~Mentions(q, "value", j)
<1> DEFINE a == <<"subscribe">>
           c == <<"rethink">>
           q == <<a, c>>
<1>1. a \in Msgs /\ c \in Msgs /\ a[1] = "subscribe" /\ c[1] = "rethink"
  BY DEF Msgs
<1> HIDE DEF a, c
<1>2. q \in Seq(Msgs) /\ Len(q) = 2 /\ q[1] = a /\ q[2] = c
  BY <1>1
<1> HIDE DEF q
<1>3. Holds(q, "subscribe") /\ Holds(q, "rethink")
  BY <1>1, <1>2 DEF Holds
<1>4. \A j : ~Mentions(q, "avail", j) /\ ~Mentions(q, "value", j)
  BY <1>1, <1>2 DEF Mentions, About
<1> QED BY <1>2, <1>3, <1>4 DEF q, a, c

\* A new connection starts with what was kept, which is the truth already, asks for
\* what is retained, and has every handler speak.
LEMMA ConnectKeeps ==
  ASSUME TopicInv, Connect
  PROVE  TopicInv'
<1> DEFINE g == <<<<"subscribe">>, <<"rethink">>>>
           p == out \o g
<1>1. /\ ~isConnected /\ running /\ isConnected' = TRUE /\ link' = TRUE
      /\ publishedAvailability' = Configured
      /\ out' = p \o Discovery
      /\ running' = running /\ handler' = handler /\ publishCache' = publishCache
      /\ inbox' = inbox /\ avail' = avail /\ config' = config /\ value' = value
      /\ lost' = lost
  BY DEF Connect, Connected
<1>2. /\ out \in Seq(Msgs) /\ ClientOK /\ Discovery \in Seq(Msgs)
  BY DiscoverySays DEF TopicInv, ClientOK
<1>3. /\ g \in Seq(Msgs) /\ Holds(g, "subscribe") /\ Holds(g, "rethink")
      /\ \A j : ~Mentions(g, "avail", j) /\ ~Mentions(g, "value", j)
  BY GreetingSays
<1> HIDE DEF g
<1>4. ASSUME NEW j \in Ids
      PROVE  /\ p \in Seq(Msgs) /\ Holds(p, "subscribe") /\ Holds(p, "rethink")
             /\ Mentions(p, "avail", j) <=> Mentions(out, "avail", j)
             /\ Mentions(p, "value", j) <=> Mentions(out, "value", j)
             /\ \A v : LastIs(out, "avail", j, v) => LastIs(p, "avail", j, v)
             /\ \A v : LastIs(out, "value", j, v) => LastIs(p, "value", j, v)
  <2>1. \A kind : Holds(p, kind) <=> Holds(out, kind) \/ Holds(g, kind)
    BY <1>2, <1>3, Joined
  <2>2. /\ p \in Seq(Msgs)
        /\ Mentions(p, "avail", j) <=> Mentions(out, "avail", j)
        /\ \A v : LastIs(out, "avail", j, v) => LastIs(p, "avail", j, v)
    BY <1>2, <1>3, Joined
  <2>3. /\ Mentions(p, "value", j) <=> Mentions(out, "value", j)
        /\ \A v : LastIs(out, "value", j, v) => LastIs(p, "value", j, v)
    BY <1>2, <1>3, Joined
  <2> QED BY <1>3, <2>1, <2>2, <2>3
<1>5. p \in Seq(Msgs) /\ Holds(p, "rethink")
  <2>1. \A kind : Holds(p, kind) <=> Holds(out, kind) \/ Holds(g, kind)
    BY <1>2, <1>3, Joined
  <2> QED BY <1>2, <1>3, <2>1, Joined
<1> HIDE DEF p
<1>6. ClientOK'
  <2>1. out' \in Seq(Msgs) /\ Holds(out', "rethink")
    BY <1>1, <1>2, <1>5, Joined
  <2> QED BY <1>1, <1>2, <2>1 DEF ClientOK
<1>7. Configured' = Configured
  BY <1>1 DEF Configured
<1>8. ASSUME NEW j \in Ids PROVE TopicOK(j)'
  <2>1. TopicOK(j)
    BY DEF TopicInv
  <2>2. CASE j \in Configured
    <3>1. LastIs(Discovery, "avail", j, Truth(j)') /\ Mentions(Discovery, "config", j)
      BY <1>7, <2>2, DiscoverySays DEF Truth
    <3>2. j \in publishedAvailability'
      BY <1>1, <2>2
    <3>3. /\ LastIs(out', "avail", j, Truth(j)')
          /\ Mentions(out', "config", j)
      BY <1>1, <1>2, <1>5, <3>1, Joined
    <3>4. Mentions(out', "avail", j)
      BY <3>3, LastMentions
    <3> QED BY <3>2, <3>3, <3>4 DEF TopicOK
  <2>3. CASE j \notin Configured
    <3>1. ~Mentions(Discovery, "avail", j)
      BY <2>3, DiscoverySays
    <3>2. /\ Mentions(out', "avail", j) <=> Mentions(p, "avail", j)
          /\ \A v : LastIs(p, "avail", j, v) => LastIs(out', "avail", j, v)
      BY <1>1, <1>2, <1>5, <3>1, Joined
    <3>3. Holds(out', "subscribe")
      BY <1>1, <1>2, <1>4, <1>5, Joined
    <3>4. Truth(j)' = Truth(j) /\ j \notin Configured' /\ j \notin publishedAvailability'
      BY <1>1, <1>7, <2>3 DEF Truth
    <3>5. Mentions(out, "avail", j) => LastIs(out, "avail", j, Truth(j))
      BY <2>1 DEF TopicOK
    <3>6. Mentions(out', "avail", j) => LastIs(out', "avail", j, Truth(j)')
      BY <1>4, <3>2, <3>4, <3>5
    <3> QED BY <3>3, <3>4, <3>6 DEF TopicOK
  <2> QED BY <2>2, <2>3
<1>9. ASSUME NEW j \in Ids PROVE CacheOK(j)'
  <2>1. CacheOK(j) /\ ~Mentions(Discovery, "value", j)
    BY DiscoverySays DEF TopicInv
  <2>2. /\ Mentions(out', "value", j) <=> Mentions(p, "value", j)
        /\ \A v : LastIs(p, "value", j, v) => LastIs(out', "value", j, v)
    BY <1>1, <1>2, <1>5, <2>1, Joined
  <2> QED BY <1>1, <1>4, <2>1, <2>2 DEF CacheOK
<1> QED BY <1>6, <1>8, <1>9 DEF TopicInv

\* What was written and is lost is known to be lost.
LEMMA LostKeeps ==
  ASSUME TopicInv, Disconnected
  PROVE  TopicInv'
<1>1. /\ isConnected' = FALSE /\ out' = <<>> /\ inbox' = {} /\ ~link
      /\ lost' = lost \cup ValuesIn(out)
      /\ running' = running /\ publishedAvailability' = publishedAvailability
      /\ handler' = handler /\ publishCache' = publishCache /\ link' = link
      /\ avail' = avail /\ value' = value
  BY DEF Disconnected, topics
<1>2. ClientOK'
  BY <1>1, EmptySays DEF TopicInv, ClientOK
<1>3. \A j \in Ids : TopicOK(j)'
  BY <1>1, EmptySays DEF TopicOK
<1>4. ASSUME NEW j \in Ids PROVE CacheOK(j)'
  <2>1. CacheOK(j) /\ out \in Seq(Msgs)
    BY DEF TopicInv, ClientOK
  <2>2. Mentions(out, "value", j) => j \in ValuesIn(out)
    BY <2>1 DEF Mentions, About, ValuesIn, ToSet
  <2>3. \A v : LastIs(out, "value", j, v) => Mentions(out, "value", j)
    BY LastMentions
  <2>4. ~Mentions(out', "value", j)
    BY <1>1, EmptySays
  <2> QED BY <1>1, <2>1, <2>2, <2>3, <2>4 DEF CacheOK
<1> QED BY <1>2, <1>3, <1>4 DEF TopicInv

\* The broker takes a message: the last word on a topic becomes what is retained.
LEMMA TakeKeeps ==
  ASSUME TopicInv, Take
  PROVE  TopicInv'
<1> DEFINE m == Head(out)
<1>1. /\ link /\ out # <<>> /\ out' = Tail(out)
      /\ rethink' = IF m[1] = "rethink" THEN "online" ELSE rethink
      /\ avail' = IF m[1] = "avail" THEN [avail EXCEPT ![m[2]] = m[3]] ELSE avail
      /\ config' = IF m[1] = "config" THEN config \cup {m[2]} ELSE config
      /\ value' = IF m[1] = "value" THEN [value EXCEPT ![m[2]] = m[3]] ELSE value
      /\ inbox' = IF m[1] = "subscribe" THEN inbox \cup {i \in Ids : avail[i] = "online"}
                  ELSE inbox
      /\ running' = running /\ isConnected' = isConnected /\ handler' = handler
      /\ publishedAvailability' = publishedAvailability /\ publishCache' = publishCache
      /\ link' = link /\ lost' = lost
  BY DEF Take, process
<1>2. /\ out \in Seq(Msgs) /\ ClientOK /\ isConnected
      /\ avail \in [Ids -> {"none", "online", "offline"}]
      /\ value \in [Ids -> Values \cup {None}]
  BY <1>1 DEF TopicInv, ClientOK
<1>3. /\ out' \in Seq(Msgs) /\ m \in Msgs
      /\ Holds(out, "rethink") <=> m[1] = "rethink" \/ Holds(out', "rethink")
      /\ Holds(out, "subscribe") <=> m[1] = "subscribe" \/ Holds(out', "subscribe")
  BY <1>1, <1>2, Taken
<1>4. /\ m[1] = "avail" => m[2] \in Ids /\ m[3] \in {"online", "offline"}
      /\ m[1] = "value" => m[2] \in Ids /\ m[3] \in Values
      /\ m[1] = "config" => m[2] \in Ids
  BY <1>3, MessageCases
<1> HIDE DEF m
<1>5. ClientOK'
  <2>1. avail' \in [Ids -> {"none", "online", "offline"}]
    BY <1>1, <1>2, <1>4
  <2>2. value' \in [Ids -> Values \cup {None}]
    BY <1>1, <1>2, <1>4
  <2>3. rethink' = "online" \/ Holds(out', "rethink")
    BY <1>1, <1>2, <1>3 DEF ClientOK
  <2> QED BY <1>1, <1>2, <1>3, <2>1, <2>2, <2>3 DEF ClientOK
<1>6. Configured' = Configured
  BY <1>1 DEF Configured
<1>7. ASSUME NEW j \in Ids PROVE TopicOK(j)'
  <2>1. TopicOK(j) /\ Truth(j)' = Truth(j)
    BY <1>6 DEF TopicInv, Truth
  <2>2. /\ Mentions(out, "avail", j) <=> About(m, "avail", j) \/ Mentions(out', "avail", j)
        /\ \A v : LastIs(out, "avail", j, v) =>
             \/ LastIs(out', "avail", j, v)
             \/ ~Mentions(out', "avail", j) /\ About(m, "avail", j) /\ m[3] = v
    BY <1>1, <1>2, Taken DEF m
  <2>3. Mentions(out, "config", j) <=> About(m, "config", j) \/ Mentions(out', "config", j)
    BY <1>1, <1>2, Taken DEF m
  <2>4. /\ avail'[j] = IF About(m, "avail", j) THEN m[3] ELSE avail[j]
        /\ j \in config \/ About(m, "config", j) => j \in config'
        /\ j \in inbox => j \in inbox'
        /\ m[1] = "subscribe" /\ avail[j] = "online" => j \in inbox'
    BY <1>1, <1>2, <1>4 DEF About
  <2>5. Mentions(out', "avail", j) => LastIs(out', "avail", j, Truth(j)')
    BY <2>1, <2>2 DEF TopicOK
  <2>6. About(m, "avail", j) /\ ~Mentions(out', "avail", j) => avail'[j] = Truth(j)
    <3>1. SUFFICES ASSUME About(m, "avail", j), ~Mentions(out', "avail", j)
                   PROVE  avail'[j] = Truth(j)
      OBVIOUS
    <3>2. LastIs(out, "avail", j, Truth(j))
      BY <2>1, <2>2, <3>1 DEF TopicOK
    <3>3. ~LastIs(out', "avail", j, Truth(j))
      BY <3>1, LastMentions
    <3> QED BY <2>2, <2>4, <3>2, <3>3
  <2>7. CASE About(m, "avail", j) /\ ~Mentions(out', "avail", j)
    <3>1. avail'[j] = Truth(j) /\ (j \in Configured <=> Truth(j) = "online")
      BY <2>6, <2>7 DEF Truth
    <3>2. j \in Configured => j \in publishedAvailability
      BY <1>2, <2>1 DEF TopicOK
    <3>3. j \in Configured => j \in config' \/ Mentions(out', "config", j)
      BY <1>2, <2>1, <2>3, <2>4 DEF TopicOK
    <3> QED BY <1>1, <1>6, <2>5, <3>1, <3>2, <3>3 DEF TopicOK
  <2>8. CASE Mentions(out', "avail", j)
    <3>1. j \in Configured => j \in publishedAvailability
      BY <1>2, <2>1 DEF TopicOK
    <3>2. j \in Configured => j \in config' \/ Mentions(out', "config", j)
      BY <1>2, <2>1, <2>3, <2>4 DEF TopicOK
    <3> QED BY <1>1, <1>6, <2>5, <2>8, <3>1, <3>2 DEF TopicOK
  <2>9. CASE ~About(m, "avail", j) /\ ~Mentions(out', "avail", j)
    <3>1. ~Mentions(out, "avail", j) /\ avail'[j] = avail[j]
      BY <2>2, <2>4, <2>9
    <3>2. j \in Configured =>
            /\ j \in publishedAvailability /\ avail'[j] = "online"
            /\ j \in config' \/ Mentions(out', "config", j)
      BY <1>2, <2>1, <2>3, <2>4, <3>1 DEF TopicOK
    <3>3. j \in publishedAvailability \ Configured => avail'[j] # "online"
      BY <1>2, <2>1, <3>1 DEF TopicOK
    <3>4. j \notin publishedAvailability =>
            avail'[j] # "online" \/ j \in inbox' \/ Holds(out', "subscribe")
      <4>1. SUFFICES ASSUME j \notin publishedAvailability, avail'[j] = "online"
                     PROVE  j \in inbox' \/ Holds(out', "subscribe")
        OBVIOUS
      <4>2. j \in inbox \/ Holds(out, "subscribe")
        BY <1>2, <2>1, <3>1, <4>1 DEF TopicOK
      <4> QED BY <1>3, <2>4, <3>1, <4>1, <4>2
    <3> QED BY <1>1, <1>6, <2>5, <2>9, <3>2, <3>3, <3>4 DEF TopicOK
  <2> QED BY <2>7, <2>8, <2>9
<1>8. ASSUME NEW j \in Ids PROVE CacheOK(j)'
  <2>1. CacheOK(j) /\ publishCache'[j] = publishCache[j] /\ lost' = lost
    BY <1>1 DEF TopicInv
  <2>2. /\ Mentions(out, "value", j) <=> About(m, "value", j) \/ Mentions(out', "value", j)
        /\ \A v : LastIs(out, "value", j, v) =>
             \/ LastIs(out', "value", j, v)
             \/ ~Mentions(out', "value", j) /\ About(m, "value", j) /\ m[3] = v
    BY <1>1, <1>2, Taken DEF m
  <2>3. value'[j] = IF About(m, "value", j) THEN m[3] ELSE value[j]
    BY <1>1, <1>2, <1>4 DEF About
  <2> QED BY <2>1, <2>2, <2>3 DEF CacheOK
<1> QED BY <1>5, <1>7, <1>8 DEF TopicInv

LEMMA TopicNext == TopicInv /\ [Next]_vars => TopicInv'
<1> SUFFICES ASSUME TopicInv, [Next]_vars PROVE TopicInv'
  OBVIOUS
<1>1. ASSUME NEW i \in Ids, \/ NewDevice(i) \/ SetConfig(i) \/ DropDevice(i) \/ Report(i)
                            \/ ReceiveRetained(i)
      PROVE  TopicInv'
  BY <1>1, NewDeviceKeeps, ConfigDropKeeps, ReportKeeps, RetainedKeeps
<1>2. CASE Connect \/ Disconnected \/ ReceiveBirth \/ Take
  BY <1>2, ConnectKeeps, LostKeeps, BirthKeeps, TakeKeeps
\* The broker's side of a broken connection, and the break itself.
<1>3. CASE PublishWill \/ Break \/ Start \/ UNCHANGED vars
  <2>1. /\ out' = out /\ inbox' = inbox /\ avail' = avail /\ config' = config /\ value' = value
        /\ lost' = lost /\ isConnected' = isConnected /\ handler' = handler
        /\ publishedAvailability' = publishedAvailability /\ publishCache' = publishCache
        /\ running => running'
        /\ link' => link /\ rethink' = rethink
    BY <1>3 DEF PublishWill, Break, Start, vars, process, topics
  <2>2. ClientOK'
    BY <2>1 DEF TopicInv, ClientOK
  <2>3. Configured' = Configured
    BY <2>1 DEF Configured
  <2>4. \A j \in Ids : TopicOK(j)' /\ CacheOK(j)'
    BY <2>1, <2>3 DEF TopicInv, TopicOK, Truth, CacheOK
  <2> QED BY <2>2, <2>4 DEF TopicInv
<1>4. CASE Crash
  <2>1. /\ out' = <<>> /\ inbox' = {} /\ isConnected' = FALSE /\ link' = FALSE
        /\ handler' = [i \in Ids |-> "none"] /\ publishCache' = [i \in Ids |-> None]
        /\ avail' = avail /\ value' = value
    BY <1>4 DEF Crash, topics
  <2>2. ClientOK'
    BY <2>1, EmptySays DEF TopicInv, ClientOK
  <2>3. \A j \in Ids : TopicOK(j)' /\ CacheOK(j)'
    BY <2>1, EmptySays DEF TopicOK, CacheOK
  <2> QED BY <2>2, <2>3 DEF TopicInv
<1> QED BY <1>1, <1>2, <1>3, <1>4 DEF Next

LEMMA TopicInvariant == Spec => []TopicInv
<1> QED BY TopicInit, TopicNext, PTL DEF Spec

\* Once everything published has been taken, an appliance is shown as available if
\* and only if a configured handler serves it: whatever an earlier run left behind,
\* whatever was lost with a connection, and though the clean-up races the handlers
\* that come (connected() and received(), notes 6 and 7 of homeassistant.ts).
THEOREM AvailabilityIsTheTruth == Spec => []AvailabilityIsTrue
<1>1. TopicInv => AvailabilityIsTrue
  <2> SUFFICES ASSUME TopicInv, Settled, NEW i \in Ids
               PROVE  /\ avail[i] = "online" => i \in Configured
                      /\ i \in Configured => Shown(i)
    BY DEF AvailabilityIsTrue, GoneIsOffline, ServedIsShown, Configured
  <2>1. link /\ isConnected /\ out = <<>> /\ inbox = {}
    BY DEF Settled
  <2>2. TopicOK(i) /\ (rethink = "online" \/ Holds(out, "rethink"))
    BY <2>1 DEF TopicInv, ClientOK
  <2> QED BY <2>1, <2>2, EmptySays DEF TopicOK, Shown
<1> QED BY <1>1, TopicInvariant, PTL

\* What Home Assistant shows of an appliance is what its handler reported last,
\* unless that very message was lost with a connection: the cache of published
\* values suppresses nothing else (AABBDevice.publishProperty).
THEOREM ReportedIsShown == Spec => []ShownIsReported
<1>1. TopicInv => ShownIsReported
  <2> SUFFICES ASSUME TopicInv, Settled, NEW i \in Configured \ lost
               PROVE  publishCache[i] \in {None, value[i]}
    BY DEF ShownIsReported
  <2>1. out = <<>> /\ CacheOK(i)
    BY DEF Settled, TopicInv, Configured
  <2>2. \A v : ~LastIs(out, "value", i, v)
    BY <2>1, EmptySays, LastMentions
  <2> QED BY <2>1, <2>2 DEF CacheOK
<1> QED BY <1>1, TopicInvariant, PTL
=============================================================================
