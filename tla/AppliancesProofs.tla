--------------------------- MODULE AppliancesProofs ---------------------------
(***************************************************************************)
(* What is proved of the handlers of MCAppliances, for any bounds on what  *)
(* is under way: washing machines (WInv), air conditioners (CInv) and      *)
(* refrigerators (FInv), each with what their conversions and their order  *)
(* of publishing do, and at the end the properties of all of them.         *)
(***************************************************************************)
EXTENDS MCAppliances, Integers, Sequences, TLAPS

-----------------------------------------------------------------------------
(* Washing machines.  publishProperty, one call at a time.                 *)

Words == {"ON", "OFF", "OK", "Door lock error (DE2)", "unknown", "Off", "Ready", "Washing",
          "Detecting", "Running"}
Numbers == 0 .. 2
WValues == Words \cup Numbers
Messages == W!Groups \X WValues
Handlers == [cache : [W!Groups -> WValues \cup {None}], out : Seq(Messages), lost : SUBSET W!Groups]

\* What one call does: the cache has the value, and a value it had not is sent.
LEMMA PublishDoes ==
  ASSUME NEW h \in Handlers, NEW g \in W!Groups, NEW v \in WValues
  PROVE  /\ W!Publish(h, g, v) \in Handlers
         /\ W!Publish(h, g, v).cache = [h.cache EXCEPT ![g] = v]
         /\ \/ h.cache[g] = v /\ W!Publish(h, g, v) = h
            \/ /\ h.cache[g] # v
               /\ W!Publish(h, g, v).out = Append(h.out, <<g, v>>)
               /\ W!Publish(h, g, v).lost = h.lost \ {g}
<1> DEFINE new == [cache |-> [h.cache EXCEPT ![g] = v], out |-> Append(h.out, <<g, v>>),
                   lost |-> h.lost \ {g}]
<1>1. h.cache \in [W!Groups -> WValues \cup {None}] /\ h.out \in Seq(Messages)
      /\ h.lost \in SUBSET W!Groups
  BY DEF Handlers
<1>2. CASE h.cache[g] = v
  <2>1. W!Publish(h, g, v) = h
    BY <1>2 DEF W!Publish
  <2>2. h.cache = [h.cache EXCEPT ![g] = v]
    BY <1>1, <1>2
  <2> QED BY <1>2, <2>1, <2>2
<1>3. CASE h.cache[g] # v
  <2>1. W!Publish(h, g, v) = new
    BY <1>3 DEF W!Publish
  <2>2. <<g, v>> \in Messages
    BY DEF Messages
  <2>3. Append(h.out, <<g, v>>) \in Seq(Messages)
    BY <1>1, <2>2
  <2>4. [h.cache EXCEPT ![g] = v] \in [W!Groups -> WValues \cup {None}]
    BY <1>1
  <2>5. h.lost \ {g} \in SUBSET W!Groups
    BY <1>1
  <2>6. new \in Handlers
    BY <2>3, <2>4, <2>5 DEF Handlers
  <2> QED BY <1>3, <2>1, <2>6
<1> QED BY <1>2, <1>3

\* What Home Assistant will show of a group when all that was published has come.
Comes(o, s, g, v) ==
  \/ \E k \in DOMAIN o : o[k] = <<g, v>> /\ \A i \in DOMAIN o : i > k => o[i][1] # g
  \/ (\A i \in DOMAIN o : o[i][1] # g) /\ s[g] = v

\* The cache is what comes, but for what was lost.
Follows(h, s) ==
  \A g \in W!Groups \ h.lost : h.cache[g] # None => Comes(h.out, s, g, h.cache[g])

\* An error that is under way has its message before it.
Texts == {"Door lock error (DE2)", "unknown"}
Named(p) == p[1] = "error_message" /\ p[2] \in Texts
Explained(o, s) ==
  \A k \in DOMAIN o : o[k] = <<"error", "ON">> =>
    IF k = 1 THEN s["error_message"] \in Texts ELSE Named(o[k - 1])

LEMMA AppendFacts ==
  ASSUME NEW S, NEW o \in Seq(S), NEW x \in S
  PROVE  /\ DOMAIN o = 1 .. Len(o) /\ Len(o) \in Nat
         /\ DOMAIN Append(o, x) = 1 .. (Len(o) + 1)
         /\ \A i \in 1 .. Len(o) : Append(o, x)[i] = o[i]
         /\ Append(o, x)[Len(o) + 1] = x
  OBVIOUS

LEMMA TailFacts ==
  ASSUME NEW S, NEW o \in Seq(S), o # <<>>
  PROVE  /\ DOMAIN o = 1 .. Len(o) /\ Len(o) \in Nat \ {0}
         /\ DOMAIN Tail(o) = 1 .. (Len(o) - 1)
         /\ \A i \in 1 .. (Len(o) - 1) : Tail(o)[i] = o[i + 1]
         /\ Head(o) = o[1] /\ Head(o) \in S /\ Tail(o) \in Seq(S)
  OBVIOUS

LEMMA PublishFollows ==
  ASSUME NEW h \in Handlers, NEW g \in W!Groups, NEW v \in WValues, NEW s, Follows(h, s)
  PROVE  Follows(W!Publish(h, g, v), s)
<1> DEFINE r == W!Publish(h, g, v)
<1>1. /\ r \in Handlers /\ r.cache = [h.cache EXCEPT ![g] = v]
      /\ \/ h.cache[g] = v /\ r = h
         \/ h.cache[g] # v /\ r.out = Append(h.out, <<g, v>>) /\ r.lost = h.lost \ {g}
  BY PublishDoes
<1> HIDE DEF r
<1> SUFFICES ASSUME r.out = Append(h.out, <<g, v>>), r.lost = h.lost \ {g},
                    NEW e \in W!Groups \ r.lost, r.cache[e] # None
             PROVE  Comes(r.out, s, e, r.cache[e])
  BY <1>1 DEF Follows, r
<1>2. h.cache \in [W!Groups -> WValues \cup {None}] /\ h.out \in Seq(Messages)
  BY DEF Handlers
<1> DEFINE n == Len(h.out)
<1>3. /\ DOMAIN h.out = 1 .. n /\ n \in Nat /\ DOMAIN r.out = 1 .. (n + 1)
      /\ \A i \in 1 .. n : r.out[i] = h.out[i]
      /\ r.out[n + 1] = <<g, v>>
  BY <1>2, AppendFacts, <<g, v>> \in Messages DEF Messages
<1> HIDE DEF n
<1>4. CASE e = g
  <2>1. r.cache[e] = v
    BY <1>1, <1>2, <1>4
  <2>2. n + 1 \in DOMAIN r.out /\ \A i \in DOMAIN r.out : ~(i > n + 1)
    BY <1>3
  <2> QED BY <1>3, <1>4, <2>1, <2>2 DEF Comes
<1>5. CASE e # g
  <2>1. r.cache[e] = h.cache[e] /\ e \in W!Groups \ h.lost
    BY <1>1, <1>2, <1>5
  <2>2. Comes(h.out, s, e, h.cache[e])
    BY <2>1 DEF Follows
  <2>3. ASSUME NEW k \in DOMAIN h.out, h.out[k] = <<e, h.cache[e]>>,
               \A i \in DOMAIN h.out : i > k => h.out[i][1] # e
        PROVE  Comes(r.out, s, e, r.cache[e])
    <3>1. k \in DOMAIN r.out /\ r.out[k] = <<e, r.cache[e]>>
      BY <1>3, <2>1, <2>3
    <3>2. \A i \in DOMAIN r.out : i > k => r.out[i][1] # e
      BY <1>3, <1>5, <2>3
    <3> QED BY <3>1, <3>2 DEF Comes
  <2>4. ASSUME \A i \in DOMAIN h.out : h.out[i][1] # e, s[e] = h.cache[e]
        PROVE  Comes(r.out, s, e, r.cache[e])
    <3>1. \A i \in DOMAIN r.out : r.out[i][1] # e
      BY <1>3, <1>5, <2>4
    <3> QED BY <2>1, <2>4, <3>1 DEF Comes
  <2> QED BY <2>2, <2>3, <2>4 DEF Comes
<1> QED BY <1>4, <1>5

\* An error that turns on is published right after its message.
LEMMA PublishExplains ==
  ASSUME NEW h \in Handlers, NEW g \in W!Groups, NEW v \in WValues, NEW s,
         Explained(h.out, s),
         <<g, v>> = <<"error", "ON">> /\ h.cache[g] # v =>
           h.out # <<>> /\ Named(h.out[Len(h.out)])
  PROVE  Explained(W!Publish(h, g, v).out, s)
<1> DEFINE r == W!Publish(h, g, v)
<1>1. /\ r \in Handlers /\ r.cache = [h.cache EXCEPT ![g] = v]
      /\ \/ h.cache[g] = v /\ r = h
         \/ h.cache[g] # v /\ r.out = Append(h.out, <<g, v>>) /\ r.lost = h.lost \ {g}
  BY PublishDoes
<1>2. CASE r = h
  BY <1>2
<1> HIDE DEF r
<1>3. CASE h.cache[g] # v /\ r.out = Append(h.out, <<g, v>>)
  <2> DEFINE n == Len(h.out)
  <2>1. /\ DOMAIN h.out = 1 .. n /\ n \in Nat /\ DOMAIN r.out = 1 .. (n + 1)
        /\ \A i \in 1 .. n : r.out[i] = h.out[i]
        /\ r.out[n + 1] = <<g, v>>
    <3>1. <<g, v>> \in Messages /\ h.out \in Seq(Messages)
      BY DEF Messages, Handlers
    <3> QED BY <1>3, <3>1, AppendFacts
  <2>2. h.out # <<>> => n # 0
    BY DEF Handlers
  <2> HIDE DEF n
  <2> SUFFICES ASSUME NEW k \in 1 .. (n + 1), r.out[k] = <<"error", "ON">>
               PROVE  IF k = 1 THEN s["error_message"] \in Texts ELSE Named(r.out[k - 1])
    <3>1. Explained(r.out, s) => Explained(W!Publish(h, g, v).out, s)
      BY DEF r
    <3>2. DOMAIN r.out = 1 .. (n + 1)
      BY <2>1
    <3> QED BY <3>1, <3>2 DEF Explained
  <2>3. CASE k = n + 1
    <3>1. h.out # <<>> /\ Named(h.out[n])
      BY <1>3, <2>1, <2>3 DEF n
    <3>2. n # 0 /\ k # 1 /\ k - 1 = n /\ n \in 1 .. n
      BY <2>1, <2>2, <2>3, <3>1
    <3> QED BY <2>1, <3>1, <3>2
  <2>4. CASE k # n + 1
    <3>1. k \in 1 .. n /\ (k # 1 => k - 1 \in 1 .. n)
      BY <2>1, <2>4
    <3> QED BY <2>1, <3>1 DEF Explained
  <2> QED BY <2>3, <2>4
<1> QED BY <1>1, <1>2, <1>3 DEF r

-----------------------------------------------------------------------------
(* A frame is a chain of publications.  What a status frame leaves in the  *)
(* cache is right, whatever was there; it leaves a door alone.             *)

Sound(h, s) == h \in Handlers /\ Follows(h, s)

LEMMA PublishSound ==
  ASSUME NEW s, NEW h, Sound(h, s), NEW g \in W!Groups, NEW v \in WValues
  PROVE  /\ Sound(W!Publish(h, g, v), s)
         /\ W!Publish(h, g, v).cache[g] = v
         /\ \A e \in W!Groups : e # g => W!Publish(h, g, v).cache[e] = h.cache[e]
<1> DEFINE r == W!Publish(h, g, v)
<1>1. h \in Handlers /\ h.cache \in [W!Groups -> WValues \cup {None}]
  BY DEF Sound, Handlers
<1>2. r \in Handlers /\ r.cache = [h.cache EXCEPT ![g] = v]
  BY <1>1, PublishDoes
<1>3. Sound(r, s)
  <2>1. Follows(r, s)
    BY <1>1, PublishFollows DEF Sound
  <2> QED BY <1>2, <2>1 DEF Sound
<1> HIDE DEF r
<1>4. r.cache[g] = v
  BY <1>1, <1>2
<1>5. \A e \in W!Groups : e # g => r.cache[e] = h.cache[e]
  BY <1>1, <1>2
<1> QED BY <1>3, <1>4, <1>5 DEF r

\* What a group is to be, of what a status frame tells.
ValueRight(x, g, m) ==
  /\ x # None
  /\ g = "power" => x = W!OnOff(W!IsOn(m))
  /\ g = "status" => /\ (x = "Off") <=> ~W!IsOn(m)
                     /\ model # "VCDWL" => x = W!StateName(m.status)
  /\ g = "error" => x = W!OnOff(m.error # 0)
  /\ g = "error_message" => /\ (x = "OK") <=> m.error = 0
                            /\ x = W!ErrorName(m.error)
  /\ g \in {"readings", "persistent"} => x = m.data
  /\ g = "times" => x = IF W!IsOn(m) THEN m.data + 1 ELSE 0

\* VCDWL tells nothing of the readings while it is off.
Silent(g, m) == g = "readings" /\ model = "VCDWL" /\ ~W!IsOn(m)

CacheRight(c, m) == \A g \in W!RecordGroups : Silent(g, m) \/ ValueRight(c[g], g, m)

LEMMA AreValues == /\ \A x \in Words : x \in WValues
                   /\ \A x \in Numbers : x \in WValues
BY DEF WValues

LEMMA NoneIsNoValue == None \notin WValues
<1>1. None \notin Words
  BY AppliancesAssumption DEF Words
<1>2. None \notin Numbers
  <2>1. None \notin 0 .. 255
    BY AppliancesAssumption
  <2>2. \A x \in Numbers : x \in 0 .. 255
    BY DEF Numbers
  <2> QED BY <2>1, <2>2
<1> QED BY <1>1, <1>2 DEF WValues

LEMMA StateFacts ==
  ASSUME NEW m \in W!Machines
  PROVE  /\ m.status \in {0, 1, 6, 13} /\ m.error \in {0, 1, 10} /\ m.soil \in {0, 1}
         /\ m.data \in {0, 1} /\ m.door \in {1, 2}
         /\ model # "VCDWL" => m.soil = 0
  BY DEF W!Machines, W!States, W!StatesVCDWL, W!State

LEMMA ReportFDoes ==
  ASSUME model # "VCDWL", NEW s, NEW h, Sound(h, s), NEW m \in W!Machines
  PROVE  Sound(W!ReportF(h, m), s) /\ CacheRight(W!ReportF(h, m).cache, m)
<1> DEFINE x1 == W!OnOff(m.status > 0)
           x2 == W!ErrorName(m.error)
           x3 == W!OnOff(m.error # 0)
           x4 == W!StateName(m.status)
           x5 == m.data
           h1 == W!Publish(h, "power", x1)
           h2 == W!Publish(h1, "error_message", x2)
           h3 == W!Publish(h2, "error", x3)
           h4 == W!Publish(h3, "status", x4)
           h5 == W!Publish(h4, "readings", x5)
<1>1. W!ReportF(h, m) = h5
  BY DEF W!ReportF
<1>2. W!RecordGroups = {"power", "error_message", "error", "status", "readings"}
      /\ W!Groups = W!RecordGroups
  BY DEF W!RecordGroups, W!Groups
<1>3. x1 \in WValues /\ x2 \in WValues /\ x3 \in WValues /\ x4 \in WValues /\ x5 \in WValues
  <2>1. x1 \in Words /\ x2 \in Words /\ x3 \in Words /\ x4 \in Words
    BY DEF W!OnOff, W!ErrorName, W!StateName, Words
  <2>2. x5 \in Numbers
    BY StateFacts DEF Numbers
  <2> HIDE DEF x1, x2, x3, x4, x5
  <2> QED BY <2>1, <2>2, AreValues
<1>0. "power" \in W!Groups /\ "error_message" \in W!Groups /\ "error" \in W!Groups
      /\ "status" \in W!Groups /\ "readings" \in W!Groups
  BY <1>2
<1>4. /\ ValueRight(x1, "power", m) /\ ValueRight(x2, "error_message", m)
      /\ ValueRight(x3, "error", m) /\ ValueRight(x4, "status", m)
      /\ ValueRight(x5, "readings", m)
  <2>1. x1 # None /\ x2 # None /\ x3 # None /\ x4 # None /\ x5 # None
    BY <1>3, NoneIsNoValue
  <2>2. W!IsOn(m) <=> m.status > 0
    BY StateFacts DEF W!IsOn
  <2>3. (x2 = "OK") <=> m.error = 0
    BY StateFacts DEF W!ErrorName
  <2>4. (x4 = "Off") <=> ~W!IsOn(m)
    BY StateFacts DEF W!StateName, W!IsOn
  <2>5. x2 = W!ErrorName(m.error) /\ x4 = W!StateName(m.status)
    OBVIOUS
  <2> HIDE DEF x2, x4
  <2> QED BY <2>1, <2>2, <2>3, <2>4, <2>5 DEF ValueRight, W!OnOff
<1> HIDE DEF x1, x2, x3, x4, x5
<1>5. /\ Sound(h1, s) /\ h1.cache["power"] = x1
  <2>1. /\ Sound(h1, s) /\ h1.cache["power"] = x1
        /\ \A e \in W!Groups : e # "power" => h1.cache[e] = h.cache[e]
    BY <1>0, <1>3, PublishSound
  <2> HIDE DEF h1
  <2> QED BY <1>0, <2>1
<1> HIDE DEF h1
<1>6. /\ Sound(h2, s) /\ h2.cache["power"] = x1 /\ h2.cache["error_message"] = x2
  <2>1. /\ Sound(h2, s) /\ h2.cache["error_message"] = x2
        /\ \A e \in W!Groups : e # "error_message" => h2.cache[e] = h1.cache[e]
    BY <1>0, <1>3, <1>5, PublishSound
  <2> HIDE DEF h2
  <2> QED BY <1>0, <1>5, <2>1
<1> HIDE DEF h2
<1>7. /\ Sound(h3, s) /\ h3.cache["power"] = x1 /\ h3.cache["error_message"] = x2
      /\ h3.cache["error"] = x3
  <2>1. /\ Sound(h3, s) /\ h3.cache["error"] = x3
        /\ \A e \in W!Groups : e # "error" => h3.cache[e] = h2.cache[e]
    BY <1>0, <1>3, <1>6, PublishSound
  <2> HIDE DEF h3
  <2> QED BY <1>0, <1>6, <2>1
<1> HIDE DEF h3
<1>8. /\ Sound(h4, s) /\ h4.cache["power"] = x1 /\ h4.cache["error_message"] = x2
      /\ h4.cache["error"] = x3 /\ h4.cache["status"] = x4
  <2>1. /\ Sound(h4, s) /\ h4.cache["status"] = x4
        /\ \A e \in W!Groups : e # "status" => h4.cache[e] = h3.cache[e]
    BY <1>0, <1>3, <1>7, PublishSound
  <2> HIDE DEF h4
  <2> QED BY <1>0, <1>7, <2>1
<1> HIDE DEF h4
<1>9. /\ Sound(h5, s) /\ h5.cache["power"] = x1 /\ h5.cache["error_message"] = x2
      /\ h5.cache["error"] = x3 /\ h5.cache["status"] = x4 /\ h5.cache["readings"] = x5
  <2>1. /\ Sound(h5, s) /\ h5.cache["readings"] = x5
        /\ \A e \in W!Groups : e # "readings" => h5.cache[e] = h4.cache[e]
    BY <1>0, <1>3, <1>8, PublishSound
  <2> HIDE DEF h5
  <2> QED BY <1>0, <1>8, <2>1
<1> HIDE DEF h5
<1>10. CacheRight(h5.cache, m)
  BY <1>2, <1>4, <1>9 DEF CacheRight
<1> QED BY <1>1, <1>9, <1>10

LEMMA ReportOffDoes ==
  ASSUME model = "VCDWL", NEW s, NEW h, Sound(h, s), NEW m \in W!Machines, ~W!IsOn(m)
  PROVE  /\ Sound(W!ReportOff(h, m), s) /\ CacheRight(W!ReportOff(h, m).cache, m)
         /\ W!ReportOff(h, m).cache["door"] = h.cache["door"]
<1> DEFINE x5 == m.data
           h1 == W!Publish(h, "power", "OFF")
           h2 == W!Publish(h1, "status", "Off")
           h3 == W!Publish(h2, "times", 0)
           h4 == W!Publish(h3, "persistent", x5)
<1>1. W!ReportOff(h, m) = h4
  BY DEF W!ReportOff
<1>2. W!RecordGroups = {"power", "status", "readings", "times", "persistent"}
      /\ W!Groups = {"power", "status", "readings", "times", "persistent", "door"}
  BY DEF W!RecordGroups, W!Groups
<1>0. "power" \in W!Groups /\ "status" \in W!Groups /\ "readings" \in W!Groups
      /\ "times" \in W!Groups /\ "persistent" \in W!Groups /\ "door" \in W!Groups
  BY <1>2
<1>3. "OFF" \in WValues /\ "Off" \in WValues /\ 0 \in WValues /\ x5 \in WValues
  <2>1. "OFF" \in Words /\ "Off" \in Words
    BY DEF Words
  <2>2. 0 \in Numbers /\ x5 \in Numbers
    BY StateFacts DEF Numbers
  <2> QED BY <2>1, <2>2, AreValues
<1>4. /\ ValueRight("OFF", "power", m) /\ ValueRight("Off", "status", m)
      /\ ValueRight(0, "times", m) /\ ValueRight(x5, "persistent", m)
      /\ Silent("readings", m)
  <2>1. "OFF" # None /\ "Off" # None /\ 0 # None /\ x5 # None
    BY <1>3, NoneIsNoValue
  <2> QED BY <2>1 DEF ValueRight, W!OnOff, Silent
<1> HIDE DEF x5
<1>5. Sound(h1, s) /\ h1.cache["power"] = "OFF" /\ h1.cache["door"] = h.cache["door"]
  <2>1. /\ Sound(h1, s) /\ h1.cache["power"] = "OFF"
        /\ \A e \in W!Groups : e # "power" => h1.cache[e] = h.cache[e]
    BY <1>0, <1>3, PublishSound
  <2> HIDE DEF h1
  <2> QED BY <1>0, <2>1
<1> HIDE DEF h1
<1>6. /\ Sound(h2, s) /\ h2.cache["power"] = "OFF" /\ h2.cache["status"] = "Off"
      /\ h2.cache["door"] = h.cache["door"]
  <2>1. /\ Sound(h2, s) /\ h2.cache["status"] = "Off"
        /\ \A e \in W!Groups : e # "status" => h2.cache[e] = h1.cache[e]
    BY <1>0, <1>3, <1>5, PublishSound
  <2> HIDE DEF h2
  <2> QED BY <1>0, <1>5, <2>1
<1> HIDE DEF h2
<1>7. /\ Sound(h3, s) /\ h3.cache["power"] = "OFF" /\ h3.cache["status"] = "Off"
      /\ h3.cache["times"] = 0 /\ h3.cache["door"] = h.cache["door"]
  <2>1. /\ Sound(h3, s) /\ h3.cache["times"] = 0
        /\ \A e \in W!Groups : e # "times" => h3.cache[e] = h2.cache[e]
    BY <1>0, <1>3, <1>6, PublishSound
  <2> HIDE DEF h3
  <2> QED BY <1>0, <1>6, <2>1
<1> HIDE DEF h3
<1>8. /\ Sound(h4, s) /\ h4.cache["power"] = "OFF" /\ h4.cache["status"] = "Off"
      /\ h4.cache["times"] = 0 /\ h4.cache["persistent"] = x5
      /\ h4.cache["door"] = h.cache["door"]
  <2>1. /\ Sound(h4, s) /\ h4.cache["persistent"] = x5
        /\ \A e \in W!Groups : e # "persistent" => h4.cache[e] = h3.cache[e]
    BY <1>0, <1>3, <1>7, PublishSound
  <2> HIDE DEF h4
  <2> QED BY <1>0, <1>7, <2>1
<1> HIDE DEF h4
<1>9. CacheRight(h4.cache, m)
  BY <1>2, <1>4, <1>8 DEF CacheRight
<1> QED BY <1>1, <1>8, <1>9

LEMMA ReportOnDoes ==
  ASSUME model = "VCDWL", NEW s, NEW h, Sound(h, s), NEW m \in W!Machines, W!IsOn(m)
  PROVE  /\ Sound(W!ReportOn(h, m), s) /\ CacheRight(W!ReportOn(h, m).cache, m)
         /\ W!ReportOn(h, m).cache["door"] = h.cache["door"]
<1> DEFINE x2 == W!StatusVCDWL(m.status)
           x4 == m.data + 1
           x5 == m.data
           h1 == W!Publish(h, "power", "ON")
           h2 == W!Publish(h1, "status", x2)
           h3 == W!Publish(h2, "readings", x5)
           h4 == W!Publish(h3, "times", x4)
           h5 == W!Publish(h4, "persistent", x5)
<1>1. W!ReportOn(h, m) = h5
  BY DEF W!ReportOn
<1>2. W!RecordGroups = {"power", "status", "readings", "times", "persistent"}
      /\ W!Groups = {"power", "status", "readings", "times", "persistent", "door"}
  BY DEF W!RecordGroups, W!Groups
<1>0. "power" \in W!Groups /\ "status" \in W!Groups /\ "readings" \in W!Groups
      /\ "times" \in W!Groups /\ "persistent" \in W!Groups /\ "door" \in W!Groups
  BY <1>2
<1>3. "ON" \in WValues /\ x2 \in WValues /\ x4 \in WValues /\ x5 \in WValues
  <2>1. "ON" \in Words /\ x2 \in Words
    BY DEF Words, W!StatusVCDWL
  <2>2. x4 \in Numbers /\ x5 \in Numbers
    BY StateFacts DEF Numbers
  <2> HIDE DEF x2, x4, x5
  <2> QED BY <2>1, <2>2, AreValues
<1>4. /\ ValueRight("ON", "power", m) /\ ValueRight(x2, "status", m)
      /\ ValueRight(x4, "times", m) /\ ValueRight(x5, "persistent", m)
      /\ ValueRight(x5, "readings", m)
  <2>1. "ON" # None /\ x2 # None /\ x4 # None /\ x5 # None
    BY <1>3, NoneIsNoValue
  <2>2. x2 # "Off"
    BY DEF W!StatusVCDWL
  <2> HIDE DEF x2
  <2> QED BY <2>1, <2>2 DEF ValueRight, W!OnOff
<1> HIDE DEF x2, x4, x5
<1>5. Sound(h1, s) /\ h1.cache["power"] = "ON" /\ h1.cache["door"] = h.cache["door"]
  <2>1. /\ Sound(h1, s) /\ h1.cache["power"] = "ON"
        /\ \A e \in W!Groups : e # "power" => h1.cache[e] = h.cache[e]
    BY <1>0, <1>3, PublishSound
  <2> HIDE DEF h1
  <2> QED BY <1>0, <2>1
<1> HIDE DEF h1
<1>6. /\ Sound(h2, s) /\ h2.cache["power"] = "ON" /\ h2.cache["status"] = x2
      /\ h2.cache["door"] = h.cache["door"]
  <2>1. /\ Sound(h2, s) /\ h2.cache["status"] = x2
        /\ \A e \in W!Groups : e # "status" => h2.cache[e] = h1.cache[e]
    BY <1>0, <1>3, <1>5, PublishSound
  <2> HIDE DEF h2
  <2> QED BY <1>0, <1>5, <2>1
<1> HIDE DEF h2
<1>7. /\ Sound(h3, s) /\ h3.cache["power"] = "ON" /\ h3.cache["status"] = x2
      /\ h3.cache["readings"] = x5 /\ h3.cache["door"] = h.cache["door"]
  <2>1. /\ Sound(h3, s) /\ h3.cache["readings"] = x5
        /\ \A e \in W!Groups : e # "readings" => h3.cache[e] = h2.cache[e]
    BY <1>0, <1>3, <1>6, PublishSound
  <2> HIDE DEF h3
  <2> QED BY <1>0, <1>6, <2>1
<1> HIDE DEF h3
<1>8. /\ Sound(h4, s) /\ h4.cache["power"] = "ON" /\ h4.cache["status"] = x2
      /\ h4.cache["readings"] = x5 /\ h4.cache["times"] = x4
      /\ h4.cache["door"] = h.cache["door"]
  <2>1. /\ Sound(h4, s) /\ h4.cache["times"] = x4
        /\ \A e \in W!Groups : e # "times" => h4.cache[e] = h3.cache[e]
    BY <1>0, <1>3, <1>7, PublishSound
  <2> HIDE DEF h4
  <2> QED BY <1>0, <1>7, <2>1
<1> HIDE DEF h4
<1>9. /\ Sound(h5, s) /\ h5.cache["power"] = "ON" /\ h5.cache["status"] = x2
      /\ h5.cache["readings"] = x5 /\ h5.cache["times"] = x4
      /\ h5.cache["persistent"] = x5 /\ h5.cache["door"] = h.cache["door"]
  <2>1. /\ Sound(h5, s) /\ h5.cache["persistent"] = x5
        /\ \A e \in W!Groups : e # "persistent" => h5.cache[e] = h4.cache[e]
    BY <1>0, <1>3, <1>8, PublishSound
  <2> HIDE DEF h5
  <2> QED BY <1>0, <1>8, <2>1
<1> HIDE DEF h5
<1>10. CacheRight(h5.cache, m)
  BY <1>2, <1>4, <1>9 DEF CacheRight
<1> QED BY <1>1, <1>9, <1>10

\* The first frames of a cycle and the door.
LEMMA ReportConfigDoes ==
  ASSUME model = "VCDWL", NEW s, NEW h, Sound(h, s)
  PROVE  Sound(W!ReportConfig(h), s) /\ W!ReportConfig(h).cache["door"] = h.cache["door"]
<1>1. "power" \in W!Groups /\ "door" \in W!Groups /\ "ON" \in WValues
  BY AreValues DEF W!Groups, W!RecordGroups, Words
<1> QED BY <1>1, PublishSound DEF W!ReportConfig

LEMMA ReportDoorDoes ==
  ASSUME model = "VCDWL", NEW s, NEW h, Sound(h, s), NEW d \in {1, 2, 5}
  PROVE  /\ Sound(W!ReportDoor(h, d), s)
         /\ W!ReportDoor(h, d).cache["door"] = IF d = 5 THEN h.cache["door"] ELSE W!OnOff(d = 1)
         /\ \A g \in W!RecordGroups : W!ReportDoor(h, d).cache[g] = h.cache[g]
<1> DEFINE v == W!OnOff(d = 1)
<1>1. /\ "door" \in W!Groups /\ v \in WValues
      /\ \A g \in W!RecordGroups : g \in W!Groups /\ g # "door"
  BY AreValues DEF W!Groups, W!RecordGroups, Words, W!OnOff
<1>2. CASE d = 5
  BY <1>2 DEF W!ReportDoor
<1>3. CASE d # 5
  <2>1. W!ReportDoor(h, d) = W!Publish(h, "door", v)
    BY <1>3 DEF W!ReportDoor
  <2> HIDE DEF v
  <2>2. /\ Sound(W!Publish(h, "door", v), s) /\ W!Publish(h, "door", v).cache["door"] = v
        /\ \A e \in W!Groups : e # "door" => W!Publish(h, "door", v).cache[e] = h.cache[e]
    BY <1>1, PublishSound
  <2> QED BY <1>1, <1>3, <2>1, <2>2 DEF v
<1> QED BY <1>2, <1>3

\* Of the frames of the F class, that their errors are explained.
Announced(c) == c["error"] # "ON" => c["error_message"] \in {None, "OK"}

LEMMA ReportFExplains ==
  ASSUME model # "VCDWL", NEW s, NEW h, Sound(h, s), NEW m \in W!Machines,
         Explained(h.out, s), Announced(h.cache)
  PROVE  Explained(W!ReportF(h, m).out, s) /\ Announced(W!ReportF(h, m).cache)
<1> DEFINE x1 == W!OnOff(m.status > 0)
           x2 == W!ErrorName(m.error)
           x3 == W!OnOff(m.error # 0)
           x4 == W!StateName(m.status)
           h1 == W!Publish(h, "power", x1)
           h2 == W!Publish(h1, "error_message", x2)
           h3 == W!Publish(h2, "error", x3)
           h4 == W!Publish(h3, "status", x4)
           h5 == W!Publish(h4, "readings", m.data)
<1>1. W!ReportF(h, m) = h5
  BY DEF W!ReportF
<1>2. "power" \in W!Groups /\ "error_message" \in W!Groups /\ "error" \in W!Groups
      /\ "status" \in W!Groups /\ "readings" \in W!Groups
  BY DEF W!RecordGroups, W!Groups
<1>3. x1 \in WValues /\ x2 \in WValues /\ x3 \in WValues /\ x4 \in WValues /\ m.data \in WValues
  <2>1. x1 \in Words /\ x2 \in Words /\ x3 \in Words /\ x4 \in Words
    BY DEF W!OnOff, W!ErrorName, W!StateName, Words
  <2>2. m.data \in Numbers
    BY StateFacts DEF Numbers
  <2> HIDE DEF x1, x2, x3, x4
  <2> QED BY <2>1, <2>2, AreValues
<1>4. x3 = "ON" => x2 \in Texts
  BY DEF W!OnOff, W!ErrorName, Texts
<1>5. Announced(W!ReportF(h, m).cache)
  <2>1. CacheRight(W!ReportF(h, m).cache, m)
    BY ReportFDoes
  <2>2. "error" \in W!RecordGroups /\ "error_message" \in W!RecordGroups
        /\ ~Silent("error", m) /\ ~Silent("error_message", m)
    BY DEF W!RecordGroups, Silent
  <2>3. ValueRight(W!ReportF(h, m).cache["error"], "error", m)
        /\ ValueRight(W!ReportF(h, m).cache["error_message"], "error_message", m)
    BY <2>1, <2>2 DEF CacheRight
  <2> QED BY <2>3 DEF Announced, ValueRight, W!OnOff
<1> HIDE DEF x1, x2, x3, x4
<1>6. /\ Sound(h1, s) /\ Explained(h1.out, s)
      /\ h1.cache["error"] = h.cache["error"]
      /\ h1.cache["error_message"] = h.cache["error_message"]
  <2>1. h \in Handlers
    BY DEF Sound
  <2>2. Explained(h1.out, s)
    BY <1>2, <1>3, <2>1, PublishExplains
  <2>3. /\ Sound(h1, s)
        /\ \A e \in W!Groups : e # "power" => h1.cache[e] = h.cache[e]
    BY <1>2, <1>3, PublishSound
  <2> HIDE DEF h1
  <2> QED BY <1>2, <2>2, <2>3
<1> HIDE DEF h1
<1>7. /\ Sound(h2, s) /\ Explained(h2.out, s)
      /\ h2.cache["error"] = h.cache["error"]
      /\ x3 = "ON" /\ h2.cache["error"] # "ON" => h2.out # <<>> /\ Named(h2.out[Len(h2.out)])
  <2>1. h1 \in Handlers
    BY <1>6 DEF Sound
  <2>2. Explained(h2.out, s)
    BY <1>2, <1>3, <1>6, <2>1, PublishExplains
  <2>3. Sound(h2, s) /\ h2.cache["error"] = h.cache["error"]
    <3>1. /\ Sound(h2, s)
          /\ \A e \in W!Groups : e # "error_message" => h2.cache[e] = h1.cache[e]
      BY <1>2, <1>3, <1>6, PublishSound
    <3> HIDE DEF h2
    <3> QED BY <1>2, <1>6, <3>1
  <2>4. ASSUME x3 = "ON", h2.cache["error"] # "ON"
        PROVE  h2.out # <<>> /\ Named(h2.out[Len(h2.out)])
    <3>0. x2 # None /\ x2 # "OK"
      BY <1>3, <1>4, <2>4, NoneIsNoValue DEF Texts
    <3>1. h1.cache["error_message"] # x2
      BY <1>6, <2>3, <2>4, <3>0 DEF Announced
    <3>2. h2.out = Append(h1.out, <<"error_message", x2>>)
      <4>1. "error_message" \in W!Groups /\ x2 \in WValues
        BY <1>2, <1>3
      <4>2. /\ h2 \in Handlers /\ h2.cache = [h1.cache EXCEPT !["error_message"] = x2]
            /\ \/ h1.cache["error_message"] = x2 /\ h2 = h1
               \/ /\ h1.cache["error_message"] # x2
                  /\ h2.out = Append(h1.out, <<"error_message", x2>>)
                  /\ h2.lost = h1.lost \ {"error_message"}
        BY <2>1, <4>1, PublishDoes
      <4> QED BY <3>1, <4>2
    <3>3. h1.out \in Seq(Messages) /\ <<"error_message", x2>> \in Messages
      BY <1>2, <1>3, <2>1 DEF Handlers, Messages
    <3>4. h2.out # <<>> /\ h2.out[Len(h2.out)] = <<"error_message", x2>>
      BY <3>2, <3>3
    <3> QED BY <1>4, <2>4, <3>4 DEF Named
  <2> QED BY <2>2, <2>3, <2>4
<1> HIDE DEF h2
<1>8. Sound(h3, s) /\ Explained(h3.out, s)
  <2>1. h2 \in Handlers
    BY <1>7 DEF Sound
  <2>2. <<"error", x3>> = <<"error", "ON">> /\ h2.cache["error"] # x3 =>
           h2.out # <<>> /\ Named(h2.out[Len(h2.out)])
    BY <1>7
  <2>3. Explained(h3.out, s)
    BY <1>2, <1>3, <1>7, <2>1, <2>2, PublishExplains
  <2> QED BY <1>2, <1>3, <1>7, <2>3, PublishSound
<1> HIDE DEF h3
<1>9. Sound(h4, s) /\ Explained(h4.out, s)
  <2>1. h3 \in Handlers
    BY <1>8 DEF Sound
  <2>2. Explained(h4.out, s)
    BY <1>2, <1>3, <1>8, <2>1, PublishExplains
  <2> QED BY <1>2, <1>3, <1>8, <2>2, PublishSound
<1> HIDE DEF h4
<1>10. Explained(h5.out, s)
  <2>1. h4 \in Handlers
    BY <1>9 DEF Sound
  <2> QED BY <1>2, <1>3, <1>9, <2>1, PublishExplains
<1> QED BY <1>1, <1>5, <1>10

-----------------------------------------------------------------------------
(* The inductive invariant of a washing machine.                           *)

Statuses == [kind : {"status"}, old : W!Machines, new : W!Machines]
Doors == [kind : {"door"}, old : {1, 2, 5}, new : {1, 2, 5}]
Configs == [kind : {"config"}, old : W!Machines, new : W!Machines]
Frames == Statuses \cup (IF model = "VCDWL" THEN Doors \cup Configs ELSE {})
WCommands == {"query", "ON", "OFF", "start", "pause"}

Handler == [cache |-> publishCache, out |-> out, lost |-> lost]

WType ==
  /\ model \in Washers /\ machine \in W!Machines
  /\ Handler \in Handlers /\ topics \in [W!Groups -> WValues \cup {None}]
  /\ DOMAIN shown = W!Groups
  /\ up \in Seq(Frames) /\ down \in Seq(WCommands)
  /\ told \in SUBSET W!Groups
  /\ model = "VCDWL" => down = <<>>

\* The machine as the last status frame has it, the door apart.
SameRecord(m, n) ==
  m.status = n.status /\ m.error = n.error /\ m.soil = n.soil /\ m.data = n.data

\* What a machine has told is in a frame under way that nothing overtakes, or
\* in the cache; the F class answers the query first.
RecordUnderWay ==
  \E k \in DOMAIN up : /\ up[k].kind = "status" /\ SameRecord(up[k].new, machine)
                       /\ \A i \in DOMAIN up : i > k => up[i].kind = "door"
RecordKept == CacheRight(publishCache, machine) /\ \A i \in DOMAIN up : up[i].kind = "door"
RecordKnown == (model # "VCDWL" /\ down # <<>>) \/ RecordUnderWay \/ RecordKept

DoorUnderWay ==
  \E k \in DOMAIN up : /\ up[k].kind = "door" /\ up[k].new = machine.door
                       /\ \A i \in DOMAIN up : i > k /\ up[i].kind = "door" => up[i].new = 5
DoorKept == /\ publishCache["door"] = W!OnOff(machine.door = 1)
            /\ \A i \in DOMAIN up : up[i].kind = "door" => up[i].new = 5
DoorKnown == DoorUnderWay \/ DoorKept

\* What an entity accepts of what came, it shows.
Taken == \A g \in W!Groups : W!Accepts(g, topics[g]) => shown[g] = topics[g]

WInv ==
  /\ WType /\ Taken
  /\ Follows(Handler, topics)
  /\ model # "VCDWL" => Explained(out, topics) /\ Announced(publishCache)
  /\ model # "VCDWL" \/ told \cap W!RecordGroups # {} => RecordKnown
  /\ "door" \in told => DoorKnown

LEMMA SameModel ==
  ASSUME model' = model
  PROVE  /\ W!Groups' = W!Groups /\ W!RecordGroups' = W!RecordGroups
         /\ W!Machines' = W!Machines /\ Frames' = Frames
         /\ Handlers' = Handlers
         /\ Follows(Handler, topics)' <=> Follows(Handler', topics')
         /\ Explained(out, topics)' <=> Explained(out', topics')
         /\ CacheRight(publishCache, machine)' <=> CacheRight(publishCache', machine')
         /\ UNCHANGED <<topics, shown>> => (Taken <=> Taken')
<1>1. W!RecordGroups' = W!RecordGroups /\ W!Machines' = W!Machines
  BY DEF W!RecordGroups, W!Machines
<1>2. W!Groups' = W!Groups
  BY <1>1 DEF W!Groups
<1>3. Frames' = Frames
  BY <1>1 DEF Frames, Statuses, Configs, Doors
<1>4. Handlers' = Handlers
  BY <1>2 DEF Handlers, Messages, WValues
<1>5. Follows(Handler, topics)' <=> Follows(Handler', topics')
  BY <1>2 DEF Follows, Comes
<1>6. Explained(out, topics)' <=> Explained(out', topics')
  BY DEF Explained, Named
<1>7. CacheRight(publishCache, machine)' <=> CacheRight(publishCache', machine')
  BY <1>1 DEF CacheRight, Silent, ValueRight, W!OnOff, W!IsOn, W!StateName, W!ErrorName
<1>8. UNCHANGED <<topics, shown>> => (Taken <=> Taken')
  BY <1>2 DEF Taken, W!Accepts, W!Options
<1> QED BY <1>1, <1>2, <1>3, <1>4, <1>5, <1>6, <1>7, <1>8

LEMMA HandlerFields ==
  /\ Handler.cache = publishCache /\ Handler.out = out /\ Handler.lost = lost
  /\ Handler \in Handlers <=> /\ publishCache \in [W!Groups -> WValues \cup {None}]
                              /\ out \in Seq(Messages) /\ lost \in SUBSET W!Groups
BY DEF Handler, Handlers

\* What keeps the invariant when only what is under way to the machine and
\* what it has told changes.
LEMMA RecordOnly ==
  ASSUME NEW m, NEW n, SameRecord(m, n), NEW c, CacheRight(c, m)
  PROVE  CacheRight(c, n)
BY DEF SameRecord, CacheRight, Silent, ValueRight, W!IsOn, W!OnOff

LEMMA DeliverKeeps ==
  ASSUME WInv, W!Deliver
  PROVE  WInv'
<1> DEFINE n == Len(out)
           g == Head(out)[1]
           v == Head(out)[2]
<1>1. /\ out # <<>> /\ topics' = [topics EXCEPT ![g] = v] /\ out' = Tail(out)
      /\ shown' = IF W!Accepts(g, v) THEN [shown EXCEPT ![g] = v] ELSE shown
      /\ model' = model /\ machine' = machine /\ down' = down /\ up' = up /\ told' = told
      /\ publishCache' = publishCache /\ lost' = lost
  BY DEF W!Deliver
<1>2. /\ out \in Seq(Messages) /\ topics \in [W!Groups -> WValues \cup {None}]
      /\ publishCache \in [W!Groups -> WValues \cup {None}] /\ lost \in SUBSET W!Groups
  BY HandlerFields DEF WInv, WType
<1>3. /\ DOMAIN out = 1 .. n /\ n \in Nat \ {0} /\ DOMAIN out' = 1 .. (n - 1)
      /\ \A i \in 1 .. (n - 1) : out'[i] = out[i + 1]
      /\ Head(out) = out[1] /\ out[1] \in Messages /\ out' \in Seq(Messages)
  BY <1>1, <1>2, TailFacts
<1>4. g \in W!Groups /\ v \in WValues /\ g = out[1][1] /\ v = out[1][2] /\ out[1] = <<g, v>>
  BY <1>3 DEF Messages
<1> HIDE DEF n, g, v
<1>5. topics'[g] = v /\ \A e \in W!Groups : e # g => topics'[e] = topics[e]
  BY <1>1, <1>2, <1>4
<1>6. topics' \in [W!Groups -> WValues \cup {None}]
  BY <1>1, <1>2, <1>4
<1>7. ASSUME NEW e \in W!Groups, NEW x, Comes(out, topics, e, x)
      PROVE  Comes(out', topics', e, x)
  <2>1. ASSUME NEW k \in DOMAIN out, out[k] = <<e, x>>,
               \A i \in DOMAIN out : i > k => out[i][1] # e, k # 1
        PROVE  Comes(out', topics', e, x)
    <3>1. k - 1 \in DOMAIN out' /\ out'[k - 1] = <<e, x>>
      BY <1>3, <2>1
    <3>2. \A i \in DOMAIN out' : i > k - 1 => out'[i][1] # e
      <4> SUFFICES ASSUME NEW i \in DOMAIN out', i > k - 1
                   PROVE  out'[i][1] # e
        OBVIOUS
      <4>1. i \in 1 .. (n - 1) /\ i + 1 \in DOMAIN out /\ i + 1 > k
        BY <1>3, <2>1
      <4>2. out'[i] = out[i + 1]
        BY <1>3, <4>1
      <4> QED BY <2>1, <4>1, <4>2
    <3> QED BY <3>1, <3>2 DEF Comes
  <2>2. ASSUME out[1] = <<e, x>>, \A i \in DOMAIN out : i > 1 => out[i][1] # e
        PROVE  Comes(out', topics', e, x)
    <3>1. e = g /\ x = v
      BY <1>4, <2>2
    <3>2. \A i \in DOMAIN out' : out'[i][1] # e
      BY <1>3, <2>2
    <3> QED BY <1>5, <3>1, <3>2 DEF Comes
  <2>3. ASSUME \A i \in DOMAIN out : out[i][1] # e, topics[e] = x
        PROVE  Comes(out', topics', e, x)
    <3>1. e # g /\ 1 \in DOMAIN out
      BY <1>3, <1>4, <2>3
    <3>2. \A i \in DOMAIN out' : out'[i][1] # e
      BY <1>3, <2>3
    <3> QED BY <1>5, <2>3, <3>1, <3>2 DEF Comes
  <2> QED BY <1>7, <2>1, <2>2, <2>3 DEF Comes
<1>8. Follows(Handler', topics')
  <2>1. Follows(Handler, topics)
    BY DEF WInv
  <2>2. Handler'.cache = publishCache /\ Handler'.out = out' /\ Handler'.lost = lost
        /\ Handler.cache = publishCache /\ Handler.out = out /\ Handler.lost = lost
    BY <1>1 DEF Handler
  <2> QED BY <1>7, <2>1, <2>2 DEF Follows
<1>9. Explained(out, topics) => Explained(out', topics')
  <2> SUFFICES ASSUME Explained(out, topics), NEW k \in DOMAIN out', out'[k] = <<"error", "ON">>
               PROVE  IF k = 1 THEN topics'["error_message"] \in Texts ELSE Named(out'[k - 1])
    BY DEF Explained
  <2>1. k + 1 \in DOMAIN out /\ out[k + 1] = <<"error", "ON">> /\ k \in 1 .. (n - 1)
    BY <1>3
  <2>2. Named(out[k])
    <3>1. k + 1 # 1 /\ (k + 1) - 1 = k
      BY <2>1
    <3> QED BY <2>1, <3>1 DEF Explained
  <2>3. CASE k = 1
    BY <1>4, <1>5, <2>2, <2>3 DEF Named
  <2>4. CASE k # 1
    <3>1. k - 1 \in 1 .. (n - 1) /\ (k - 1) + 1 = k
      BY <1>3, <2>1, <2>4
    <3> QED BY <1>3, <2>2, <2>4, <3>1
  <2> QED BY <2>3, <2>4
<1>10. Handler' \in Handlers
  BY <1>1, <1>2, <1>3 DEF Handler, Handlers
<1>11. WType'
  <2>1. DOMAIN shown' = W!Groups
    BY <1>1 DEF WInv, WType
  <2> QED BY <1>1, <1>6, <1>10, <2>1, SameModel DEF WInv, WType
<1>14. Taken'
  <2>1. \A e \in W!Groups : e # g => shown'[e] = shown[e]
    BY <1>1 DEF WInv, WType
  <2>2. W!Accepts(g, v) => shown'[g] = v
    BY <1>1, <1>4 DEF WInv, WType
  <2>3. \A e \in W!Groups : W!Accepts(e, topics'[e]) => shown'[e] = topics'[e]
    BY <1>5, <2>1, <2>2 DEF WInv, Taken
  <2>4. \A e, x : W!Accepts(e, x)' <=> W!Accepts(e, x)
    BY <1>1 DEF W!Accepts, W!Options
  <2>5. W!Groups' = W!Groups
    BY <1>1, SameModel
  <2> QED BY <2>3, <2>4, <2>5 DEF Taken
<1>12. (RecordKnown => RecordKnown') /\ (DoorKnown => DoorKnown')
  BY <1>1, SameModel DEF RecordKnown, RecordUnderWay, RecordKept, DoorKnown, DoorUnderWay, DoorKept,
     SameRecord, W!OnOff
<1>13. Announced(publishCache)' <=> Announced(publishCache)
  BY <1>1 DEF Announced
<1> QED BY <1>1, <1>8, <1>9, <1>11, <1>12, <1>13, <1>14, SameModel DEF WInv

LEMMA LoseKeeps ==
  ASSUME WInv, W!Lose
  PROVE  WInv'
<1>1. /\ out' = <<>> /\ lost' = lost \cup {out[i][1] : i \in DOMAIN out}
      /\ model' = model /\ machine' = machine /\ down' = down /\ up' = up /\ told' = told
      /\ publishCache' = publishCache /\ topics' = topics /\ shown' = shown
  BY DEF W!Lose
<1>2. /\ out \in Seq(Messages) /\ topics \in [W!Groups -> WValues \cup {None}]
      /\ publishCache \in [W!Groups -> WValues \cup {None}] /\ lost \in SUBSET W!Groups
  BY HandlerFields DEF WInv, WType
<1>3. \A i \in DOMAIN out : out[i] \in Messages /\ out[i][1] \in W!Groups
  BY <1>2 DEF Messages
<1>4. Handler' \in Handlers
  <2>1. out' \in Seq(Messages) /\ lost' \in SUBSET W!Groups
    BY <1>1, <1>2, <1>3
  <2> QED BY <1>1, <1>2, <2>1 DEF Handler, Handlers
<1>5. Follows(Handler', topics')
  <2> SUFFICES ASSUME NEW g \in W!Groups \ lost', publishCache[g] # None
               PROVE  Comes(<<>>, topics, g, publishCache[g])
    BY <1>1 DEF Follows, Handler
  <2>1. g \in W!Groups \ lost /\ \A i \in DOMAIN out : out[i][1] # g
    BY <1>1
  <2>2. Comes(out, topics, g, publishCache[g])
    BY <2>1 DEF WInv, Follows, Handler
  <2>3. topics[g] = publishCache[g]
    BY <2>1, <2>2 DEF Comes
  <2> QED BY <2>3 DEF Comes
<1>6. Explained(out', topics')
  BY <1>1 DEF Explained
<1>7. WType'
  BY <1>1, <1>2, <1>4, SameModel DEF WInv, WType
<1>8. (RecordKnown => RecordKnown') /\ (DoorKnown => DoorKnown')
  BY <1>1, SameModel DEF RecordKnown, RecordUnderWay, RecordKept, DoorKnown, DoorUnderWay, DoorKept,
     SameRecord, W!OnOff
<1>9. Announced(publishCache)' <=> Announced(publishCache)
  BY <1>1 DEF Announced
<1> QED BY <1>1, <1>5, <1>6, <1>7, <1>8, <1>9, SameModel DEF WInv

LEMMA NewHandlerKeeps ==
  ASSUME WInv, W!NewHandler
  PROVE  WInv'
<1>1. /\ machine' \in W!Machines' /\ publishCache' = [g \in W!Groups |-> None]
      /\ down' = W!Start /\ up' = <<>> /\ told' = {}
      /\ model' = model /\ out' = out /\ topics' = topics /\ shown' = shown /\ lost' = lost
  BY SameModel DEF W!NewHandler
<1>2. /\ out \in Seq(Messages) /\ topics \in [W!Groups -> WValues \cup {None}] /\ lost \in SUBSET W!Groups
  BY HandlerFields DEF WInv, WType
<1>3. \A g \in W!Groups : publishCache'[g] = None
  BY <1>1
<1>4. Handler' \in Handlers
  <2>1. publishCache' \in [W!Groups -> WValues \cup {None}]
    BY <1>1
  <2> QED BY <1>1, <1>2, <2>1 DEF Handler, Handlers
<1>5. Follows(Handler', topics')
  BY <1>3 DEF Follows, Handler
<1>6. model # "VCDWL" => Announced(publishCache)'
  <2>1. model # "VCDWL" => "error" \in W!Groups /\ "error_message" \in W!Groups
    BY DEF W!Groups, W!RecordGroups
  <2> QED BY <1>3, <2>1 DEF Announced
<1>7. down' \in Seq(WCommands) /\ (model = "VCDWL" => down' = <<>>) /\ (model # "VCDWL" => down' # <<>>)
  <2>1. CASE model = "VCDWL"
    BY <1>1, <2>1 DEF W!Start
  <2>2. CASE model # "VCDWL"
    <3>1. down' = <<"query">> /\ "query" \in WCommands
      BY <1>1, <2>2 DEF W!Start, WCommands
    <3> QED BY <2>2, <3>1
  <2> QED BY <2>1, <2>2
<1>8. WType'
  <2>1. up' \in Seq(Frames) /\ told' \in SUBSET W!Groups
    BY <1>1
  <2> QED BY <1>1, <1>2, <1>4, <1>7, <2>1, SameModel DEF WInv, WType
<1>9. model' # "VCDWL" => RecordKnown'
  BY <1>1, <1>7 DEF RecordKnown
<1> QED BY <1>1, <1>5, <1>6, <1>8, <1>9, SameModel DEF WInv

LEMMA SetPropertyKeeps ==
  ASSUME WInv, NEW c \in {"ON", "OFF", "start", "pause"}, W!SetProperty(c)
  PROVE  WInv'
<1>1. /\ model # "VCDWL" /\ down' = Append(down, c)
      /\ model' = model /\ machine' = machine /\ up' = up /\ told' = told
      /\ publishCache' = publishCache /\ out' = out /\ topics' = topics /\ shown' = shown /\ lost' = lost
  BY DEF W!SetProperty
<1>2. down \in Seq(WCommands) /\ c \in WCommands
  BY DEF WInv, WType, WCommands
<1>3. down' \in Seq(WCommands) /\ down' # <<>>
  BY <1>1, <1>2
<1>4. Handler' = Handler
  BY <1>1 DEF Handler
<1>5. WType'
  BY <1>1, <1>3, <1>4, SameModel DEF WInv, WType
<1>6. RecordKnown'
  BY <1>1, <1>3 DEF RecordKnown
<1>7. DoorKnown => DoorKnown'
  BY <1>1 DEF DoorKnown, DoorUnderWay, DoorKept, W!OnOff
<1>8. Announced(publishCache)' <=> Announced(publishCache)
  BY <1>1 DEF Announced
<1> QED BY <1>1, <1>4, <1>5, <1>6, <1>7, <1>8, SameModel DEF WInv

\* A change of the machine: its frame comes last.
LEMMA BecomesKeeps ==
  ASSUME WInv, NEW m \in W!Machines, W!Becomes(m), down' \in Seq(WCommands),
         model = "VCDWL" => down' = <<>> /\ m.door = machine.door
  PROVE  WInv'
<1>1. /\ machine' = m /\ told' = told \cup W!RecordGroups
      /\ model' = model /\ publishCache' = publishCache /\ out' = out /\ topics' = topics /\ shown' = shown /\ lost' = lost
  BY DEF W!Becomes
<1>2. machine \in W!Machines /\ up \in Seq(Frames) /\ told \in SUBSET W!Groups
  BY DEF WInv, WType
<1> DEFINE config == W!ConfigFrame
           status == W!StatusFrame(m)
<1>3. /\ status \in Frames /\ status.kind = "status" /\ status.new = m
      /\ config.kind = "config" /\ (model = "VCDWL" => config \in Frames)
  <2>1. status \in Statuses /\ config \in Configs
    BY <1>2 DEF Statuses, Configs, W!StatusFrame, W!ConfigFrame
  <2>2. status.kind = "status" /\ status.new = m /\ config.kind = "config"
    BY DEF W!StatusFrame, W!ConfigFrame
  <2> QED BY <2>1, <2>2 DEF Frames
<1>4. up' = Append(up, status) \/ (model = "VCDWL" /\ up' = up \o <<config, status>>)
  BY DEF W!Becomes
<1> HIDE DEF config, status
<1> DEFINE n == Len(up)
           k == Len(up')
<1>5. /\ up' \in Seq(Frames) /\ n \in Nat /\ k \in Nat /\ k > n /\ DOMAIN up = 1 .. n /\ DOMAIN up' = 1 .. k
      /\ up'[k] = status /\ \A i \in 1 .. n : up'[i] = up[i]
      /\ \A i \in (n + 1) .. k : up'[i].kind # "door"
  <2>1. CASE up' = Append(up, status)
    <3>1. /\ DOMAIN up = 1 .. n /\ n \in Nat /\ DOMAIN up' = 1 .. (n + 1)
          /\ \A i \in 1 .. n : up'[i] = up[i]
          /\ up'[n + 1] = status
      BY <1>2, <1>3, <2>1, AppendFacts
    <3>2. k = n + 1 /\ up' \in Seq(Frames)
      BY <1>2, <1>3, <2>1
    <3>3. \A i \in (n + 1) .. k : i = n + 1
      BY <3>1, <3>2
    <3> QED BY <1>3, <3>1, <3>2, <3>3
  <2>2. CASE model = "VCDWL" /\ up' = up \o <<config, status>>
    <3>1. config \in Frames /\ status \in Frames
      BY <1>3, <2>2
    <3>2. /\ up' \in Seq(Frames) /\ k = n + 2 /\ n \in Nat /\ DOMAIN up = 1 .. n /\ DOMAIN up' = 1 .. k
          /\ up'[n + 1] = config /\ up'[n + 2] = status /\ \A i \in 1 .. n : up'[i] = up[i]
      BY <1>2, <2>2, <3>1
    <3>3. \A i \in (n + 1) .. k : i = n + 1 \/ i = n + 2
      BY <3>2
    <3>4. k > n
      BY <3>2
    <3> QED BY <1>3, <3>2, <3>3, <3>4
  <2> QED BY <1>4, <2>1, <2>2
<1> HIDE DEF n, k
<1>6. RecordUnderWay'
  <2>1. k \in DOMAIN up' /\ up'[k].kind = "status" /\ up'[k].new = machine'
        /\ \A i \in DOMAIN up' : ~(i > k)
    BY <1>1, <1>3, <1>5
  <2> QED BY <2>1 DEF RecordUnderWay, SameRecord
<1>7. ASSUME "door" \in told'
      PROVE  DoorKnown'
  <2>1. model = "VCDWL" /\ "door" \in told
    BY <1>1, <1>2, <1>7 DEF W!Groups, W!RecordGroups
  <2>2. machine'.door = machine.door /\ publishCache' = publishCache
    BY <1>1, <2>1
  <2>3. \A i \in DOMAIN up' : up'[i].kind = "door" => i \in 1 .. n /\ up'[i] = up[i]
    BY <1>5
  <2>4. ASSUME NEW j \in DOMAIN up, up[j].kind = "door", up[j].new = machine.door,
               \A i \in DOMAIN up : i > j /\ up[i].kind = "door" => up[i].new = 5
        PROVE  DoorUnderWay'
    <3>1. j \in DOMAIN up' /\ up'[j] = up[j]
      BY <1>5
    <3>2. \A i \in DOMAIN up' : i > j /\ up'[i].kind = "door" => up'[i].new = 5
      BY <1>5, <2>3, <2>4
    <3> QED BY <2>2, <2>4, <3>1, <3>2 DEF DoorUnderWay
  <2>5. ASSUME DoorKept
        PROVE  DoorKept'
    <3>1. \A i \in DOMAIN up' : up'[i].kind = "door" => up'[i].new = 5
      BY <1>5, <2>3, <2>5 DEF DoorKept
    <3> QED BY <2>2, <2>5, <3>1 DEF DoorKept, W!OnOff
  <2>6. DoorKnown
    BY <2>1 DEF WInv
  <2> QED BY <2>4, <2>5, <2>6 DEF DoorKnown, DoorUnderWay
<1>8. Handler' = Handler
  BY <1>1 DEF Handler
<1>9. WType'
  <2>1. told' \in SUBSET W!Groups
    BY <1>1, <1>2 DEF W!Groups
  <2> QED BY <1>1, <1>5, <1>8, <2>1, SameModel DEF WInv, WType
<1>10. Announced(publishCache)' <=> Announced(publishCache)
  BY <1>1 DEF Announced
<1>11. RecordKnown'
  BY <1>6 DEF RecordKnown
<1> QED BY <1>1, <1>7, <1>8, <1>9, <1>10, <1>11, SameModel DEF WInv

LEMMA ChangesKeeps ==
  ASSUME WInv, W!Changes
  PROVE  WInv'
<1>1. PICK m \in W!Machines \ {machine} : m.door = machine.door /\ W!Becomes(m)
  BY DEF W!Changes
<1>2. down' = down
  BY DEF W!Changes
<1>3. down' \in Seq(WCommands) /\ (model = "VCDWL" => down' = <<>>)
  BY <1>2 DEF WInv, WType
<1> QED BY <1>1, <1>3, BecomesKeeps

LEMMA ReceiveKeeps ==
  ASSUME WInv, W!Receive
  PROVE  WInv'
<1>1. PICK m \in W!Machines : W!Becomes(m)
  BY DEF W!Receive
<1>2. down # <<>> /\ down' = Tail(down) /\ down \in Seq(WCommands) /\ model # "VCDWL"
  BY DEF W!Receive, WInv, WType
<1>3. down' \in Seq(WCommands)
  BY <1>2
<1> QED BY <1>1, <1>2, <1>3, BecomesKeeps

LEMMA OpenDoor ==
  ASSUME model = "VCDWL", NEW m \in W!Machines, NEW d \in {1, 2}
  PROVE  /\ [m EXCEPT !.door = d] \in W!Machines /\ [m EXCEPT !.door = d].door = d
         /\ SameRecord(m, [m EXCEPT !.door = d])
<1>1. PICK o \in {1, 2} :
        m \in {W!State(0, 0, 0, 0, o), W!State(0, 0, 0, 1, o), W!State(1, 0, 1, 1, o),
               W!State(13, 0, 0, 1, o), W!State(0, 0, 1, 0, o)}
  BY DEF W!Machines, W!StatesVCDWL
<1>2. \A a, b, c, e : [W!State(a, b, c, e, o) EXCEPT !.door = d] = W!State(a, b, c, e, d)
  BY DEF W!State
<1>3. [m EXCEPT !.door = d] \in {W!State(0, 0, 0, 0, d), W!State(0, 0, 0, 1, d),
               W!State(1, 0, 1, 1, d), W!State(13, 0, 0, 1, d), W!State(0, 0, 1, 0, d)}
  BY <1>1, <1>2
<1>4. [m EXCEPT !.door = d] \in W!Machines
  BY <1>3 DEF W!Machines, W!StatesVCDWL
<1>5. m = [status |-> m.status, error |-> m.error, soil |-> m.soil, data |-> m.data, door |-> m.door]
  BY <1>1 DEF W!State
<1>6. [m EXCEPT !.door = d].door = d /\ SameRecord(m, [m EXCEPT !.door = d])
  BY <1>5 DEF SameRecord
<1> QED BY <1>4, <1>6

LEMMA DoorKeeps ==
  ASSUME WInv, NEW d \in {1, 2, 5}, W!Door(d)
  PROVE  WInv'
<1>1. /\ model = "VCDWL" /\ d \in {5, 3 - machine.door}
      /\ machine' = IF d = 5 THEN machine ELSE [machine EXCEPT !.door = d]
      /\ up' = IF W!IsOn(machine) THEN Append(up, W!DoorFrame(d)) ELSE up
      /\ told' = IF d = 5 THEN told ELSE IF W!IsOn(machine) THEN told \cup {"door"} ELSE told \ {"door"}
      /\ model' = model /\ down' = down /\ publishCache' = publishCache
      /\ out' = out /\ topics' = topics /\ shown' = shown /\ lost' = lost
  BY DEF W!Door
<1>2. machine \in W!Machines /\ up \in Seq(Frames) /\ told \in SUBSET W!Groups
  BY DEF WInv, WType
<1>3. /\ machine' \in W!Machines /\ SameRecord(machine, machine')
      /\ d = 5 => machine' = machine
      /\ d # 5 => machine'.door = d
  <2>1. CASE d = 5
    BY <1>1, <1>2, <2>1 DEF SameRecord
  <2>2. CASE d # 5
    <3>1. d \in {1, 2} /\ machine' = [machine EXCEPT !.door = d]
      BY <1>1, <2>2
    <3> QED BY <1>1, <1>2, <2>2, <3>1, OpenDoor
  <2> QED BY <2>1, <2>2
<1> DEFINE frame == W!DoorFrame(d)
           n == Len(up)
<1>4. frame \in Frames /\ frame.kind = "door" /\ frame.new = d
  BY <1>1 DEF W!DoorFrame, Frames, Doors
<1> HIDE DEF frame
<1>5. DOMAIN up = 1 .. n /\ n \in Nat
  BY <1>2
<1>6. \/ up' = up
      \/ /\ W!IsOn(machine) /\ up' \in Seq(Frames) /\ DOMAIN up' = 1 .. (n + 1)
         /\ \A i \in 1 .. n : up'[i] = up[i]
         /\ up'[n + 1] = frame
  BY <1>1, <1>2, <1>4, AppendFacts DEF frame
<1> HIDE DEF n
<1>7. RecordKnown => RecordKnown'
  <2>1. ASSUME NEW k \in DOMAIN up, up[k].kind = "status", SameRecord(up[k].new, machine),
               \A i \in DOMAIN up : i > k => up[i].kind = "door"
        PROVE  RecordUnderWay'
    <3>1. k \in DOMAIN up' /\ up'[k] = up[k] /\ \A i \in DOMAIN up' : i > k => up'[i].kind = "door"
      BY <1>4, <1>5, <1>6, <2>1
    <3>2. SameRecord(up[k].new, machine')
      BY <1>3, <2>1 DEF SameRecord
    <3> QED BY <2>1, <3>1, <3>2 DEF RecordUnderWay, SameRecord
  <2>2. ASSUME RecordKept
        PROVE  RecordKept'
    <3>1. CacheRight(publishCache', machine')
      BY <1>1, <1>3, <2>2, RecordOnly DEF RecordKept
    <3>2. \A i \in DOMAIN up' : up'[i].kind = "door"
      BY <1>4, <1>5, <1>6, <2>2 DEF RecordKept
    <3>3. CacheRight(publishCache, machine)'
      BY <1>1, <3>1, SameModel
    <3> QED BY <3>2, <3>3 DEF RecordKept
  <2> QED BY <1>1, <2>1, <2>2 DEF RecordKnown, RecordUnderWay
<1>8. ASSUME "door" \in told'
      PROVE  DoorKnown'
  <2>1. CASE d = 5
    <3>1. machine' = machine /\ "door" \in told
      BY <1>1, <1>3, <1>8, <2>1
    <3>2. ASSUME NEW j \in DOMAIN up, up[j].kind = "door", up[j].new = machine.door,
                 \A i \in DOMAIN up : i > j /\ up[i].kind = "door" => up[i].new = 5
          PROVE  DoorUnderWay'
      <4>1. j \in DOMAIN up' /\ up'[j] = up[j]
            /\ \A i \in DOMAIN up' : i > j /\ up'[i].kind = "door" => up'[i].new = 5
        BY <1>4, <1>5, <1>6, <2>1, <3>2
      <4> QED BY <3>1, <3>2, <4>1 DEF DoorUnderWay
    <3>3. ASSUME DoorKept
          PROVE  DoorKept'
      <4>1. \A i \in DOMAIN up' : up'[i].kind = "door" => up'[i].new = 5
        BY <1>4, <1>5, <1>6, <2>1, <3>3 DEF DoorKept
      <4> QED BY <1>1, <3>1, <3>3, <4>1 DEF DoorKept, W!OnOff
    <3> QED BY <3>1, <3>2, <3>3 DEF WInv, DoorKnown, DoorUnderWay
  <2>2. CASE d # 5
    <3>1. W!IsOn(machine)
      BY <1>1, <1>8, <2>2
    <3>2. up' = Append(up, frame)
      BY <1>1, <3>1 DEF frame
    <3>3. DOMAIN up' = 1 .. (n + 1) /\ up'[n + 1] = frame
      BY <1>2, <1>4, <3>2, AppendFacts DEF n
    <3>4. n + 1 \in DOMAIN up' /\ \A i \in DOMAIN up' : ~(i > n + 1)
      BY <1>5, <3>3
    <3>5. up'[n + 1].kind = "door" /\ up'[n + 1].new = machine'.door
      BY <1>3, <1>4, <2>2, <3>3
    <3>6. DoorUnderWay'
      BY <3>4, <3>5 DEF DoorUnderWay
    <3> QED BY <3>6 DEF DoorKnown
  <2> QED BY <2>1, <2>2
<1>9. Handler' = Handler
  BY <1>1 DEF Handler
<1>10. told' \in SUBSET W!Groups /\ told' \cap W!RecordGroups = told \cap W!RecordGroups
  BY <1>1, <1>2 DEF W!Groups, W!RecordGroups
<1>11. WType'
  BY <1>1, <1>2, <1>3, <1>6, <1>9, <1>10, SameModel DEF WInv, WType
<1> QED BY <1>1, <1>7, <1>8, <1>9, <1>10, <1>11, SameModel DEF WInv

\* The frame that is processed goes, the others move up.
LEMMA MovesUp ==
  ASSUME up \in Seq(Frames), up # <<>>, up' = Tail(up)
  PROVE  /\ up' \in Seq(Frames) /\ up[1] = Head(up) /\ 1 \in DOMAIN up /\ Head(up) \in Frames
         /\ \A k \in DOMAIN up : k # 1 => k > 1 /\ k - 1 \in DOMAIN up' /\ up'[k - 1] = up[k]
         /\ \A i \in DOMAIN up' : i + 1 \in DOMAIN up /\ up'[i] = up[i + 1] /\ i >= 1 /\ i \in Nat
BY TailFacts

LEMMA StatusProcessed ==
  ASSUME WInv, W!ProcessFrame, Head(up).kind = "status",
         Handler' = W!Report(Handler, Head(up)),
         model' = model, machine' = machine, down' = down, up' = Tail(up), told' = told, topics' = topics /\ shown' = shown
  PROVE  WInv'
<1> DEFINE m == Head(up).new
<1>1. up \in Seq(Frames) /\ up # <<>> /\ machine \in W!Machines
  BY DEF WInv, WType, W!ProcessFrame
<1>2. /\ up' \in Seq(Frames) /\ up[1] = Head(up) /\ 1 \in DOMAIN up /\ Head(up) \in Frames
      /\ \A k \in DOMAIN up : k # 1 => k > 1 /\ k - 1 \in DOMAIN up' /\ up'[k - 1] = up[k]
      /\ \A i \in DOMAIN up' : i + 1 \in DOMAIN up /\ up'[i] = up[i + 1] /\ i >= 1 /\ i \in Nat
  BY <1>1, MovesUp
<1>3. m \in W!Machines
  BY <1>2 DEF Frames, Statuses, Doors, Configs
<1> HIDE DEF m
<1>4. Sound(Handler, topics)
  BY DEF Sound, WInv, WType
<1>5. /\ Sound(Handler', topics) /\ CacheRight(Handler'.cache, m)
      /\ model = "VCDWL" => Handler'.cache["door"] = Handler.cache["door"]
      /\ model # "VCDWL" => Explained(Handler'.out, topics) /\ Announced(Handler'.cache)
  <2>1. CASE model # "VCDWL"
    <3>1. Handler' = W!ReportF(Handler, m)
      BY <2>1 DEF W!Report, m
    <3>2. Explained(Handler.out, topics) /\ Announced(Handler.cache)
      BY <2>1, HandlerFields DEF WInv
    <3>3. Sound(Handler', topics) /\ CacheRight(Handler'.cache, m)
      BY <1>3, <1>4, <2>1, <3>1, ReportFDoes
    <3>4. Explained(Handler'.out, topics) /\ Announced(Handler'.cache)
      BY <1>3, <1>4, <2>1, <3>1, <3>2, ReportFExplains
    <3> QED BY <2>1, <3>3, <3>4
  <2>2. CASE model = "VCDWL"
    <3>1. Handler' = W!ReportVCDWL(Handler, m)
      BY <2>2 DEF W!Report, m
    <3>2. CASE W!IsOn(m)
      <4>1. Handler' = W!ReportOn(Handler, m)
        BY <3>1, <3>2 DEF W!ReportVCDWL, W!IsOn
      <4> QED BY <1>3, <1>4, <2>2, <3>2, <4>1, ReportOnDoes
    <3>3. CASE ~W!IsOn(m)
      <4>1. Handler' = W!ReportOff(Handler, m)
        BY <3>1, <3>3 DEF W!ReportVCDWL, W!IsOn
      <4> QED BY <1>3, <1>4, <2>2, <3>3, <4>1, ReportOffDoes
    <3> QED BY <3>2, <3>3
  <2> QED BY <2>1, <2>2
<1>6. Handler'.cache = publishCache' /\ Handler'.out = out' /\ Handler.cache = publishCache
  BY DEF Handler
<1>7. RecordKnown => RecordKnown'
  <2>1. ASSUME NEW k \in DOMAIN up, up[k].kind = "status", SameRecord(up[k].new, machine),
               \A i \in DOMAIN up : i > k => up[i].kind = "door", k # 1
        PROVE  RecordUnderWay'
    <3>1. k > 1 /\ k - 1 \in DOMAIN up' /\ up'[k - 1] = up[k]
          /\ \A i \in DOMAIN up' : i > k - 1 => up'[i].kind = "door"
      BY <1>2, <2>1
    <3> QED BY <2>1, <3>1 DEF RecordUnderWay, SameRecord
  <2>2. ASSUME SameRecord(up[1].new, machine), \A i \in DOMAIN up : i > 1 => up[i].kind = "door"
        PROVE  RecordKept'
    <3>1. SameRecord(m, machine)
      BY <1>2, <2>2 DEF m
    <3>2. CacheRight(publishCache', machine')
      BY <1>5, <1>6, <3>1, RecordOnly
    <3>3. CacheRight(publishCache, machine)'
      BY <3>2, SameModel
    <3>4. \A i \in DOMAIN up' : up'[i].kind = "door"
      BY <1>2, <2>2
    <3> QED BY <3>3, <3>4 DEF RecordKept
  <2>3. ~RecordKept
    BY <1>2 DEF RecordKept
  <2> QED BY <2>1, <2>2, <2>3 DEF RecordKnown, RecordUnderWay
<1>8. ASSUME "door" \in told, DoorKnown
      PROVE  DoorKnown'
  <2>1. ASSUME NEW j \in DOMAIN up, up[j].kind = "door", up[j].new = machine.door,
               \A i \in DOMAIN up : i > j /\ up[i].kind = "door" => up[i].new = 5
        PROVE  DoorUnderWay'
    <3>1. j # 1
      BY <1>2, <2>1
    <3>2. j - 1 \in DOMAIN up' /\ up'[j - 1] = up[j]
          /\ \A i \in DOMAIN up' : i > j - 1 /\ up'[i].kind = "door" => up'[i].new = 5
      BY <1>2, <2>1, <3>1
    <3> QED BY <2>1, <3>2 DEF DoorUnderWay
  <2>2. ASSUME DoorKept
        PROVE  DoorKept'
    <3>1. model = "VCDWL"
      BY <1>8 DEF WInv, WType, W!Groups, W!RecordGroups
    <3>2. \A i \in DOMAIN up' : up'[i].kind = "door" => up'[i].new = 5
      BY <1>2, <2>2 DEF DoorKept
    <3> QED BY <1>5, <1>6, <2>2, <3>1, <3>2 DEF DoorKept, W!OnOff
  <2> QED BY <1>8, <2>1, <2>2 DEF DoorKnown, DoorUnderWay
<1>9. WType'
  BY <1>2, <1>5, SameModel DEF Sound, WInv, WType
<1>10. Follows(Handler', topics')
  BY <1>5 DEF Sound
<1>11. Announced(publishCache)' <=> Announced(publishCache')
  BY DEF Announced
<1> QED BY <1>5, <1>6, <1>7, <1>8, <1>9, <1>10, <1>11, SameModel DEF WInv

LEMMA ConfigProcessed ==
  ASSUME WInv, W!ProcessFrame, Head(up).kind = "config",
         Handler' = W!Report(Handler, Head(up)),
         model' = model, machine' = machine, down' = down, up' = Tail(up), told' = told, topics' = topics /\ shown' = shown
  PROVE  WInv'
<1>1. up \in Seq(Frames) /\ up # <<>> /\ machine \in W!Machines
  BY DEF WInv, WType, W!ProcessFrame
<1>2. /\ up' \in Seq(Frames) /\ up[1] = Head(up) /\ 1 \in DOMAIN up /\ Head(up) \in Frames
      /\ \A k \in DOMAIN up : k # 1 => k > 1 /\ k - 1 \in DOMAIN up' /\ up'[k - 1] = up[k]
      /\ \A i \in DOMAIN up' : i + 1 \in DOMAIN up /\ up'[i] = up[i + 1] /\ i >= 1 /\ i \in Nat
  BY <1>1, MovesUp
<1>3. model = "VCDWL"
  BY <1>2 DEF Frames, Statuses
<1>4. Sound(Handler, topics)
  BY DEF Sound, WInv, WType
<1>5. Handler' = W!ReportConfig(Handler)
  BY DEF W!Report
<1>6. Sound(Handler', topics) /\ Handler'.cache["door"] = Handler.cache["door"]
  BY <1>3, <1>4, <1>5, ReportConfigDoes
<1>7. Handler'.cache = publishCache' /\ Handler'.out = out' /\ Handler.cache = publishCache
  BY DEF Handler
<1>8. RecordKnown => RecordKnown'
  <2>1. ASSUME NEW k \in DOMAIN up, up[k].kind = "status", SameRecord(up[k].new, machine),
               \A i \in DOMAIN up : i > k => up[i].kind = "door"
        PROVE  RecordUnderWay'
    <3>1. k # 1
      BY <1>2, <2>1
    <3>2. k > 1 /\ k - 1 \in DOMAIN up' /\ up'[k - 1] = up[k]
          /\ \A i \in DOMAIN up' : i > k - 1 => up'[i].kind = "door"
      BY <1>2, <2>1, <3>1
    <3> QED BY <2>1, <3>2 DEF RecordUnderWay, SameRecord
  <2>2. ~RecordKept
    BY <1>2 DEF RecordKept
  <2> QED BY <1>3, <2>1, <2>2 DEF RecordKnown, RecordUnderWay
<1>9. ASSUME DoorKnown
      PROVE  DoorKnown'
  <2>1. ASSUME NEW j \in DOMAIN up, up[j].kind = "door", up[j].new = machine.door,
               \A i \in DOMAIN up : i > j /\ up[i].kind = "door" => up[i].new = 5
        PROVE  DoorUnderWay'
    <3>1. j # 1
      BY <1>2, <2>1
    <3>2. j - 1 \in DOMAIN up' /\ up'[j - 1] = up[j]
          /\ \A i \in DOMAIN up' : i > j - 1 /\ up'[i].kind = "door" => up'[i].new = 5
      BY <1>2, <2>1, <3>1
    <3> QED BY <2>1, <3>2 DEF DoorUnderWay
  <2>2. ASSUME DoorKept
        PROVE  DoorKept'
    <3>1. \A i \in DOMAIN up' : up'[i].kind = "door" => up'[i].new = 5
      BY <1>2, <2>2 DEF DoorKept
    <3> QED BY <1>6, <1>7, <2>2, <3>1 DEF DoorKept, W!OnOff
  <2> QED BY <1>9, <2>1, <2>2 DEF DoorKnown, DoorUnderWay
<1>10. WType'
  BY <1>2, <1>6, SameModel DEF Sound, WInv, WType
<1>11. Follows(Handler', topics')
  BY <1>6 DEF Sound
<1> QED BY <1>3, <1>8, <1>9, <1>10, <1>11, SameModel DEF WInv

LEMMA DoorProcessed ==
  ASSUME WInv, W!ProcessFrame, Head(up).kind = "door",
         Handler' = W!Report(Handler, Head(up)),
         model' = model, machine' = machine, down' = down, up' = Tail(up), told' = told, topics' = topics /\ shown' = shown
  PROVE  WInv'
<1> DEFINE d == Head(up).new
<1>1. up \in Seq(Frames) /\ up # <<>> /\ machine \in W!Machines
  BY DEF WInv, WType, W!ProcessFrame
<1>2. /\ up' \in Seq(Frames) /\ up[1] = Head(up) /\ 1 \in DOMAIN up /\ Head(up) \in Frames
      /\ \A k \in DOMAIN up : k # 1 => k > 1 /\ k - 1 \in DOMAIN up' /\ up'[k - 1] = up[k]
      /\ \A i \in DOMAIN up' : i + 1 \in DOMAIN up /\ up'[i] = up[i + 1] /\ i >= 1 /\ i \in Nat
  BY <1>1, MovesUp
<1>3. model = "VCDWL" /\ d \in {1, 2, 5} /\ machine.door \in {1, 2}
  BY <1>1, <1>2, StateFacts DEF Frames, Statuses, Doors, Configs
<1>4. Sound(Handler, topics)
  BY DEF Sound, WInv, WType
<1>5. Handler' = W!ReportDoor(Handler, d)
  BY DEF W!Report
<1>6. /\ Sound(Handler', topics)
      /\ Handler'.cache["door"] = IF d = 5 THEN Handler.cache["door"] ELSE W!OnOff(d = 1)
      /\ \A g \in W!RecordGroups : Handler'.cache[g] = Handler.cache[g]
  <2> HIDE DEF d
  <2> QED BY <1>3, <1>4, <1>5, ReportDoorDoes
<1>7. Handler'.cache = publishCache' /\ Handler'.out = out' /\ Handler.cache = publishCache
  BY DEF Handler
<1>8. RecordKnown => RecordKnown'
  <2>1. ASSUME NEW k \in DOMAIN up, up[k].kind = "status", SameRecord(up[k].new, machine),
               \A i \in DOMAIN up : i > k => up[i].kind = "door"
        PROVE  RecordUnderWay'
    <3>1. k # 1
      BY <1>2, <2>1
    <3>2. k > 1 /\ k - 1 \in DOMAIN up' /\ up'[k - 1] = up[k]
          /\ \A i \in DOMAIN up' : i > k - 1 => up'[i].kind = "door"
      BY <1>2, <2>1, <3>1
    <3> QED BY <2>1, <3>2 DEF RecordUnderWay, SameRecord
  <2>2. ASSUME RecordKept
        PROVE  RecordKept'
    <3>1. CacheRight(publishCache', machine')
      BY <1>6, <1>7, <2>2 DEF RecordKept, CacheRight
    <3>2. CacheRight(publishCache, machine)'
      BY <3>1, SameModel
    <3>3. \A i \in DOMAIN up' : up'[i].kind = "door"
      BY <1>2, <2>2 DEF RecordKept
    <3> QED BY <3>2, <3>3 DEF RecordKept
  <2> QED BY <1>3, <2>1, <2>2 DEF RecordKnown, RecordUnderWay
<1>9. ASSUME DoorKnown
      PROVE  DoorKnown'
  <2>1. ASSUME NEW j \in DOMAIN up, up[j].kind = "door", up[j].new = machine.door,
               \A i \in DOMAIN up : i > j /\ up[i].kind = "door" => up[i].new = 5, j # 1
        PROVE  DoorUnderWay'
    <3>1. j - 1 \in DOMAIN up' /\ up'[j - 1] = up[j]
          /\ \A i \in DOMAIN up' : i > j - 1 /\ up'[i].kind = "door" => up'[i].new = 5
      BY <1>2, <2>1
    <3> QED BY <2>1, <3>1 DEF DoorUnderWay
  <2>2. ASSUME up[1].new = machine.door,
               \A i \in DOMAIN up : i > 1 /\ up[i].kind = "door" => up[i].new = 5
        PROVE  DoorKept'
    <3>1. d = machine.door /\ d # 5
      BY <1>2, <1>3, <2>2
    <3>2. \A i \in DOMAIN up' : up'[i].kind = "door" => up'[i].new = 5
      BY <1>2, <2>2
    <3> QED BY <1>6, <1>7, <3>1, <3>2 DEF DoorKept, W!OnOff
  <2>3. ASSUME DoorKept
        PROVE  DoorKept'
    <3>1. d = 5
      BY <1>2, <2>3 DEF DoorKept
    <3>2. \A i \in DOMAIN up' : up'[i].kind = "door" => up'[i].new = 5
      BY <1>2, <2>3 DEF DoorKept
    <3> QED BY <1>6, <1>7, <2>3, <3>1, <3>2 DEF DoorKept, W!OnOff
  <2> QED BY <1>9, <2>1, <2>2, <2>3 DEF DoorKnown, DoorUnderWay
<1>10. WType'
  BY <1>2, <1>6, SameModel DEF Sound, WInv, WType
<1>11. Follows(Handler', topics')
  BY <1>6 DEF Sound
<1> QED BY <1>3, <1>8, <1>9, <1>10, <1>11, SameModel DEF WInv

LEMMA ProcessFrameKeeps ==
  ASSUME WInv, W!ProcessFrame
  PROVE  WInv'
<1> DEFINE r == W!Report([cache |-> publishCache, out |-> out, lost |-> lost], Head(up))
<1>1. /\ publishCache' = r.cache /\ out' = r.out /\ lost' = r.lost /\ up # <<>> /\ up' = Tail(up)
      /\ model' = model /\ machine' = machine /\ down' = down /\ told' = told /\ topics' = topics /\ shown' = shown
  BY DEF W!ProcessFrame
<1>2. up \in Seq(Frames) /\ Sound(Handler, topics)
  BY DEF Sound, WInv, WType
<1>3. Head(up) \in Frames
  BY <1>1, <1>2, MovesUp
<1>4. r = W!Report(Handler, Head(up))
  BY DEF Handler
<1> HIDE DEF r
<1>5. Head(up).kind \in {"status", "config", "door"}
      /\ (Head(up).kind \in {"config", "door"} => model = "VCDWL")
  BY <1>3 DEF Frames, Statuses, Configs, Doors
<1>6. r \in Handlers
  <2>1. CASE Head(up).kind = "status"
    <3>1. Head(up).new \in W!Machines
      BY <1>3, <2>1 DEF Frames, Statuses, Configs, Doors
    <3>2. CASE model # "VCDWL"
      <4>1. r = W!ReportF(Handler, Head(up).new)
        BY <1>4, <2>1, <3>2 DEF W!Report
      <4> QED BY <1>2, <3>1, <3>2, <4>1, ReportFDoes DEF Sound
    <3>3. CASE model = "VCDWL" /\ W!IsOn(Head(up).new)
      <4>1. r = W!ReportOn(Handler, Head(up).new)
        BY <1>4, <2>1, <3>3 DEF W!Report, W!ReportVCDWL, W!IsOn
      <4> QED BY <1>2, <3>1, <3>3, <4>1, ReportOnDoes DEF Sound
    <3>4. CASE model = "VCDWL" /\ ~W!IsOn(Head(up).new)
      <4>1. r = W!ReportOff(Handler, Head(up).new)
        BY <1>4, <2>1, <3>4 DEF W!Report, W!ReportVCDWL, W!IsOn
      <4> QED BY <1>2, <3>1, <3>4, <4>1, ReportOffDoes DEF Sound
    <3> QED BY <3>2, <3>3, <3>4
  <2>2. CASE Head(up).kind = "config"
    <3>1. r = W!ReportConfig(Handler)
      BY <1>4, <2>2 DEF W!Report
    <3> QED BY <1>2, <1>5, <2>2, <3>1, ReportConfigDoes DEF Sound
  <2>3. CASE Head(up).kind = "door"
    <3>1. r = W!ReportDoor(Handler, Head(up).new) /\ Head(up).new \in {1, 2, 5}
      BY <1>3, <1>4, <2>3 DEF W!Report, Frames, Statuses, Configs, Doors
    <3> QED BY <1>2, <1>5, <2>3, <3>1, ReportDoorDoes DEF Sound
  <2> QED BY <1>5, <2>1, <2>2, <2>3
<1>7. Handler' = W!Report(Handler, Head(up))
  <2>1. Handler' = [cache |-> r.cache, out |-> r.out, lost |-> r.lost]
    BY <1>1 DEF Handler
  <2>2. r = [cache |-> r.cache, out |-> r.out, lost |-> r.lost]
    BY <1>6 DEF Handlers
  <2> QED BY <1>4, <2>1, <2>2
<1> QED BY <1>1, <1>5, <1>7, StatusProcessed, ConfigProcessed, DoorProcessed

LEMMA WNextKeeps ==
  ASSUME WInv, W!Next
  PROVE  WInv'
<1>1. CASE W!ProcessFrame BY <1>1, ProcessFrameKeeps
<1>2. CASE W!Deliver BY <1>2, DeliverKeeps
<1>3. CASE W!Lose BY <1>3, LoseKeeps
<1>4. CASE W!NewHandler BY <1>4, NewHandlerKeeps
<1>5. CASE W!Changes BY <1>5, ChangesKeeps
<1>6. CASE W!Receive BY <1>6, ReceiveKeeps
<1>7. CASE \E c \in {"ON", "OFF", "start", "pause"} : W!SetProperty(c) BY <1>7, SetPropertyKeeps
<1>8. CASE \E d \in {1, 2, 5} : W!Door(d) BY <1>8, DoorKeeps
<1> QED BY <1>1, <1>2, <1>3, <1>4, <1>5, <1>6, <1>7, <1>8 DEF W!Next

LEMMA WInitHolds ==
  ASSUME W!Init
  PROVE  WInv
<1>1. /\ model \in Washers /\ machine \in W!Machines /\ down = W!Start /\ up = <<>> /\ told = {}
      /\ publishCache = [g \in W!Groups |-> None] /\ topics = [g \in W!Groups |-> None]
      /\ shown = topics /\ out = <<>> /\ lost = {}
  BY DEF W!Init
<1>2. publishCache \in [W!Groups -> WValues \cup {None}] /\ topics \in [W!Groups -> WValues \cup {None}]
      /\ \A g \in W!Groups : publishCache[g] = None
  BY <1>1
<1>3. Handler \in Handlers
  <2>1. out \in Seq(Messages) /\ lost \in SUBSET W!Groups
    BY <1>1
  <2> QED BY <1>2, <2>1, HandlerFields
<1>4. down \in Seq(WCommands) /\ (model = "VCDWL" => down = <<>>) /\ (model # "VCDWL" => down # <<>>)
  <2>1. CASE model = "VCDWL"
    BY <1>1, <2>1 DEF W!Start
  <2>2. CASE model # "VCDWL"
    <3>1. down = <<"query">> /\ "query" \in WCommands
      BY <1>1, <2>2 DEF W!Start, WCommands
    <3> QED BY <2>2, <3>1
  <2> QED BY <2>1, <2>2
<1>9. Taken /\ DOMAIN shown = W!Groups
  BY <1>1 DEF Taken
<1>5. WType
  <2>1. up \in Seq(Frames) /\ told \in SUBSET W!Groups /\ DOMAIN shown = W!Groups
    BY <1>1
  <2> QED BY <1>1, <1>2, <1>3, <1>4, <2>1 DEF WType
<1>6. Follows(Handler, topics)
  BY <1>2 DEF Follows, Handler
<1>7. model # "VCDWL" => Explained(out, topics) /\ Announced(publishCache)
  <2>1. model # "VCDWL" => "error" \in W!Groups /\ "error_message" \in W!Groups
    BY DEF W!Groups, W!RecordGroups
  <2> QED BY <1>1, <1>2, <2>1 DEF Announced, Explained
<1>8. model # "VCDWL" => RecordKnown
  BY <1>4 DEF RecordKnown
<1> QED BY <1>1, <1>5, <1>6, <1>7, <1>8, <1>9 DEF WInv

\* What the invariant says once nothing is under way.
LEMMA SettledTopics ==
  ASSUME WInv, W!Drained, NEW g \in (IF model = "VCDWL" THEN told ELSE W!Groups) \ lost
  PROVE  /\ g \in W!RecordGroups => Silent(g, machine) \/ ValueRight(topics[g], g, machine)
         /\ g \notin W!RecordGroups => g = "door" /\ topics[g] = W!OnOff(machine.door = 1)
         /\ g \in W!Groups
<1>1. down = <<>> /\ up = <<>> /\ out = <<>> /\ DOMAIN up = {} /\ DOMAIN out = {}
  BY DEF W!Drained
<1>2. g \in W!Groups /\ (g \notin W!RecordGroups => g = "door" /\ "door" \in told)
  BY DEF WInv, WType, W!Groups, W!RecordGroups
<1>3. publishCache[g] # None => topics[g] = publishCache[g]
  <2>1. publishCache[g] # None => Comes(out, topics, g, publishCache[g])
    BY <1>2, HandlerFields DEF WInv, Follows
  <2> QED BY <1>1, <2>1 DEF Comes
<1>4. CASE g \in W!RecordGroups
  <2>1. RecordKnown
    <3>1. model # "VCDWL" \/ told \cap W!RecordGroups # {}
      BY <1>4
    <3> QED BY <3>1 DEF WInv
  <2>2. RecordKept
    BY <1>1, <2>1 DEF RecordKnown, RecordUnderWay
  <2>3. Silent(g, machine) \/ ValueRight(publishCache[g], g, machine)
    BY <1>4, <2>2 DEF RecordKept, CacheRight
  <2>4. ValueRight(publishCache[g], g, machine) => publishCache[g] # None
    BY DEF ValueRight
  <2> QED BY <1>2, <1>3, <1>4, <2>3, <2>4
<1>5. CASE g \notin W!RecordGroups
  <2>1. DoorKnown
    BY <1>2, <1>5 DEF WInv
  <2>2. publishCache["door"] = W!OnOff(machine.door = 1)
    BY <1>1, <2>1 DEF DoorKnown, DoorUnderWay, DoorKept
  <2>3. publishCache["door"] # None
    <3>1. W!OnOff(machine.door = 1) \in WValues
      BY AreValues DEF W!OnOff, Words
    <3> QED BY <2>2, <3>1, NoneIsNoValue
  <2> QED BY <1>2, <1>3, <1>5, <2>2, <2>3
<1> QED BY <1>4, <1>5

\* A value with a name is one that its entity accepts.
LEMMA SettledWashers ==
  ASSUME WInv, W!Drained, NEW g \in (IF model = "VCDWL" THEN told ELSE W!Groups) \ lost, W!HasName(g)
  PROVE  /\ g \in W!RecordGroups => Silent(g, machine) \/ ValueRight(shown[g], g, machine)
         /\ g \notin W!RecordGroups => g = "door" /\ shown[g] = W!OnOff(machine.door = 1)
         /\ g \in W!Groups
<1>1. /\ g \in W!RecordGroups => Silent(g, machine) \/ ValueRight(topics[g], g, machine)
      /\ g \notin W!RecordGroups => g = "door" /\ topics[g] = W!OnOff(machine.door = 1)
      /\ g \in W!Groups
  BY SettledTopics
<1>2. W!Accepts(g, topics[g]) => shown[g] = topics[g]
  BY <1>1 DEF WInv, Taken
<1>3. CASE g \notin {"status", "error_message"} \/ model = "VCDWL"
  <2>1. W!Accepts(g, topics[g])
    BY <1>3 DEF W!Accepts
  <2> QED BY <1>1, <1>2, <2>1
<1>4. CASE g = "status" /\ model # "VCDWL"
  <2>1. g \in W!RecordGroups /\ ~Silent(g, machine)
    BY <1>4 DEF W!RecordGroups, Silent
  <2>2. topics[g] = W!StateName(machine.status)
    BY <1>1, <1>4, <2>1 DEF ValueRight
  <2>3. W!StateName(machine.status) # "unknown"
    BY <1>4 DEF W!HasName
  <2>4. W!Accepts(g, topics[g])
    BY <1>4, <2>2, <2>3 DEF W!Accepts, W!Options, W!StateName
  <2> QED BY <1>1, <1>2, <2>4
<1>5. CASE g = "error_message" /\ model # "VCDWL"
  <2>1. g \in W!RecordGroups /\ ~Silent(g, machine)
    BY <1>5 DEF W!RecordGroups, Silent
  <2>2. topics[g] = W!ErrorName(machine.error)
    BY <1>1, <1>5, <2>1 DEF ValueRight
  <2>3. W!ErrorName(machine.error) # "unknown"
    BY <1>5 DEF W!HasName
  <2>4. W!Accepts(g, topics[g])
    BY <1>5, <2>2, <2>3 DEF W!Accepts, W!Options, W!ErrorName
  <2> QED BY <1>1, <1>2, <2>4
<1> QED BY <1>3, <1>4, <1>5

LEMMA WashersShow ==
  ASSUME WInv
  PROVE  W!ShowsTheMachine
<1> SUFFICES ASSUME W!Drained, NEW g \in (IF model = "VCDWL" THEN told ELSE W!Groups) \ lost,
                    W!HasName(g)
             PROVE  W!IsRight(g)
  BY DEF W!ShowsTheMachine
<1>1. /\ g \in W!RecordGroups => Silent(g, machine) \/ ValueRight(shown[g], g, machine)
      /\ g \notin W!RecordGroups => g = "door" /\ shown[g] = W!OnOff(machine.door = 1)
  BY SettledWashers
<1>2. g \in W!RecordGroups => g \in {"power", "error_message", "error", "status", "readings", "times",
                                     "persistent"}
  BY DEF W!RecordGroups
<1>3. CASE g = "door"
  <2>1. g \notin W!RecordGroups
    BY <1>3 DEF W!RecordGroups
  <2> QED BY <1>1, <1>3, <2>1 DEF W!IsRight
<1>4. CASE g = "readings"
  <2>1. Silent(g, machine) \/ shown[g] = machine.data
    BY <1>1, <1>4 DEF ValueRight
  <2>2. Silent(g, machine) => model = "VCDWL" /\ ~W!IsOn(machine)
    BY DEF Silent
  <2> QED BY <1>4, <2>1, <2>2 DEF W!IsRight
<1>5. CASE g # "door" /\ g # "readings"
  <2>1. ValueRight(shown[g], g, machine) /\ g \in W!RecordGroups
    BY <1>1, <1>5 DEF Silent
  <2>2. g \in {"power", "error_message", "error", "status", "times", "persistent"}
    BY <1>2, <1>5, <2>1
  <2>3. CASE g = "power" BY <2>1, <2>3 DEF ValueRight, W!IsRight
  <2>4. CASE g = "status" BY <2>1, <2>4 DEF ValueRight, W!IsRight
  <2>5. CASE g = "error" BY <2>1, <2>5 DEF ValueRight, W!IsRight
  <2>6. CASE g = "error_message" BY <2>1, <2>6 DEF ValueRight, W!IsRight
  <2>7. CASE g = "times" BY <2>1, <2>7 DEF ValueRight, W!IsRight
  <2>8. CASE g = "persistent" BY <2>1, <2>8 DEF ValueRight, W!IsRight
  <2> QED BY <2>2, <2>3, <2>4, <2>5, <2>6, <2>7, <2>8
<1> QED BY <1>3, <1>4, <1>5

\* The topics of all groups together are those that are declared.
LEMMA TopicsAreEntities ==
  ASSUME model \in Washers
  PROVE  UNION {W!Topics(g) : g \in W!Groups} = W!Entities
<1>1. CASE model = "VCDWL"
  <2>1. W!Groups = {"power", "status", "readings", "times", "persistent", "door"}
    BY <1>1 DEF W!Groups, W!RecordGroups
  <2>2. /\ W!Topics("power") = {"power"} /\ W!Topics("status") = {"status"}
        /\ W!Topics("door") = {"door"} /\ W!Topics("times") = {"remaining_time", "initial_time"}
        /\ W!Topics("persistent") = W!PersistentVCDWL
        /\ W!Topics("readings") = W!ReadingsVCDWL
    BY <1>1 DEF W!Topics, W!ReadingsOf
  <2>3. W!Entities = W!EntitiesVCDWL
    BY <1>1 DEF W!Entities
  <2> QED BY <2>1, <2>2, <2>3 DEF W!PersistentVCDWL, W!ReadingsVCDWL, W!EntitiesVCDWL
<1>2. CASE model # "VCDWL"
  <2>1. W!Groups = {"power", "error_message", "error", "status", "readings"}
    BY <1>2 DEF W!Groups, W!RecordGroups
  <2>2. /\ W!Topics("power") = {"power"} /\ W!Topics("status") = {"status"}
        /\ W!Topics("error") = {"error"} /\ W!Topics("error_message") = {"error_message"}
        /\ W!Topics("readings") = W!ReadingsOf[model]
    BY DEF W!Topics
  <2>3. W!Entities = W!ReadingsOf[model] \cup {"power", "error_message", "error", "status"}
    <3>1. model \in {"F_VB", "F_V", "F_V8", "Y_V8", "WTDN3"}
      BY <1>2, AppliancesAssumption
    <3>2. W!Basic = W!Readings \cup {"power", "error_message", "error", "status"}
      BY DEF W!Basic, W!Readings
    <3>3. CASE model = "F_VB"
      BY <3>2, <3>3 DEF W!Entities, W!ReadingsOf, W!EntitiesF_VB, W!ReadingsF_VB
    <3>4. CASE model = "F_V"
      BY <3>2, <3>4 DEF W!Entities, W!ReadingsOf, W!EntitiesF_V, W!ReadingsF_V
    <3>5. CASE model = "F_V8"
      BY <3>2, <3>5 DEF W!Entities, W!ReadingsOf, W!EntitiesF_V8, W!ReadingsF_V8
    <3>6. CASE model = "Y_V8"
      BY <3>2, <3>6 DEF W!Entities, W!ReadingsOf, W!EntitiesY_V8, W!ReadingsY_V8
    <3>7. CASE model = "WTDN3"
      BY <3>2, <3>7 DEF W!Entities, W!ReadingsOf, W!EntitiesWTDN3, W!ReadingsWTDN3
    <3> QED BY <3>1, <3>3, <3>4, <3>5, <3>6, <3>7
  <2> QED BY <2>1, <2>2, <2>3
<1> QED BY <1>1, <1>2

LEMMA EntitiesFed ==
  ASSUME WInv
  PROVE  W!EntitiesAreFed
<1> SUFFICES ASSUME W!Drained, lost = {}, told = W!Groups, W!IsOn(machine),
                    \A g \in W!Groups : W!HasName(g)
             PROVE  UNION {W!Topics(g) : g \in {h \in W!Groups : shown[h] # None}} = W!Entities
  BY DEF W!EntitiesAreFed
<1>1. ASSUME NEW g \in W!Groups
      PROVE  shown[g] # None
  <2>1. g \in (IF model = "VCDWL" THEN told ELSE W!Groups) \ lost
    OBVIOUS
  <2>2. /\ g \in W!RecordGroups => Silent(g, machine) \/ ValueRight(shown[g], g, machine)
        /\ g \notin W!RecordGroups => g = "door" /\ shown[g] = W!OnOff(machine.door = 1)
    BY <2>1, SettledWashers
  <2>3. ~Silent(g, machine)
    BY DEF Silent
  <2>4. W!OnOff(machine.door = 1) # None
    <3>1. W!OnOff(machine.door = 1) \in WValues
      BY AreValues DEF W!OnOff, Words
    <3> QED BY <3>1, NoneIsNoValue
  <2> QED BY <2>2, <2>3, <2>4 DEF ValueRight
<1>2. {h \in W!Groups : shown[h] # None} = W!Groups
  BY <1>1
<1> QED BY <1>2, TopicsAreEntities DEF WInv, WType

\* The step in which an error turns on is the delivery of what is explained.
LEMMA ErrorStep ==
  ASSUME WInv, W!Deliver, model # "VCDWL", shown["error"] # "ON", shown'["error"] = "ON"
  PROVE  shown["error_message"] \notin {None, "OK"} \/ topics["error_message"] = "unknown"
<1>1. /\ out # <<>>
      /\ shown' = [shown EXCEPT ![Head(out)[1]] = Head(out)[2]] \/ shown' = shown
  BY DEF W!Deliver
<1>2. /\ out \in Seq(Messages) /\ DOMAIN shown = W!Groups
      /\ Explained(out, topics) /\ "error" \in W!Groups /\ "error_message" \in W!Groups
  BY HandlerFields DEF WInv, WType, W!Groups, W!RecordGroups
<1>3. Head(out) = out[1] /\ out[1] \in Messages /\ 1 \in DOMAIN out
  BY <1>1, <1>2, TailFacts
<1>4. Head(out)[1] = "error" /\ Head(out)[2] = "ON"
  BY <1>1, <1>2
<1>5. out[1] = <<"error", "ON">>
  BY <1>3, <1>4 DEF Messages
<1>6. topics["error_message"] \in Texts
  BY <1>2, <1>3, <1>5 DEF Explained
<1>7. CASE topics["error_message"] = "Door lock error (DE2)"
  <2>1. W!Accepts("error_message", topics["error_message"])
    BY <1>7 DEF W!Accepts, W!Options
  <2>2. shown["error_message"] = "Door lock error (DE2)"
    BY <1>2, <1>7, <2>1 DEF WInv, Taken
  <2>3. "Door lock error (DE2)" # None
    BY AppliancesAssumption
  <2> QED BY <2>2, <2>3
<1> QED BY <1>6, <1>7 DEF Texts

-----------------------------------------------------------------------------
(* A run has one appliance, which stays.                                   *)

LEMMA Apart ==
  /\ model \in Washers => model \notin Models /\ model \notin Fridges
  /\ model \in Models => model \notin Washers /\ model \notin Fridges
BY AppliancesAssumption

LEMMA ModelStays ==
  ASSUME MCNext
  PROVE  model' = model
<1>1. CASE C!Next
  BY <1>1 DEF C!Next, C!ProcessTLV, C!NewHandler, C!AnswerQuery, C!Receive, C!SetMode, C!SetPower,
     C!SetSetting, C!Operated
<1>2. CASE W!Next
  BY <1>2 DEF W!Next, W!ProcessFrame, W!Deliver, W!Lose, W!NewHandler, W!Changes, W!Becomes,
     W!Receive, W!SetProperty, W!Door
<1>3. CASE F!Next
  BY <1>3 DEF F!Next, F!ProcessFrame, F!Deliver, F!SetOther, F!Receive, F!Operated, F!Becomes,
     F!SetSetpoint
<1> QED BY <1>1, <1>2, <1>3 DEF MCNext

WashersInv == model \in Washers => WInv

LEMMA WashersInvInductive == MCSpec => []WashersInv
<1>1. MCInit => WashersInv
  <2> SUFFICES ASSUME MCInit, model \in Washers
               PROVE  WInv
    BY DEF WashersInv
  <2>1. W!Init
    BY Apart DEF MCInit, C!Init, F!Init
  <2> QED BY <2>1, WInitHolds
<1>2. WashersInv /\ [MCNext]_<<shared, own>> => WashersInv'
  <2> SUFFICES ASSUME WashersInv, [MCNext]_<<shared, own>>, model' \in Washers
               PROVE  WInv'
    BY DEF WashersInv
  <2>1. CASE MCNext
    <3>1. model \in Washers
      BY <2>1, ModelStays
    <3>2. W!Next
      BY <2>1, <3>1, Apart DEF MCNext
    <3> QED BY <3>1, <3>2, WNextKeeps DEF WashersInv
  <2>2. CASE UNCHANGED <<shared, own>>
    <3>1. /\ model' = model /\ machine' = machine /\ down' = down /\ up' = up /\ told' = told
          /\ publishCache' = publishCache /\ out' = out /\ shown' = shown
          /\ topics' = topics /\ lost' = lost
      BY <2>2 DEF shared, own
    <3>2. WInv
      BY <3>1 DEF WashersInv
    <3>3. Handler' = Handler
      BY <3>1 DEF Handler
    <3>4. WType'
      BY <3>1, <3>2, <3>3, SameModel DEF WInv, WType
    <3>5. (RecordKnown => RecordKnown') /\ (DoorKnown => DoorKnown')
      BY <3>1, SameModel DEF RecordKnown, RecordUnderWay, RecordKept, DoorKnown, DoorUnderWay,
         DoorKept, SameRecord, W!OnOff
    <3>6. Announced(publishCache)' <=> Announced(publishCache)
      BY <3>1 DEF Announced
    <3> QED BY <3>1, <3>2, <3>3, <3>4, <3>5, <3>6, SameModel DEF WInv
  <2> QED BY <2>1, <2>2
<1> QED BY <1>1, <1>2, PTL DEF MCSpec

\* Whatever a washing machine does and the connection loses, once nothing is
\* under way Home Assistant shows the machine, and every declared topic is fed,
\* in a state and with an error that the handler has a name for.
THEOREM WashersAreShown ==
  MCSpec => [](model \in Washers => W!ShowsTheMachine /\ W!EntitiesAreFed)
<1>1. WashersInv => (model \in Washers => W!ShowsTheMachine /\ W!EntitiesAreFed)
  BY WashersShow, EntitiesFed DEF WashersInv
<1> QED BY <1>1, WashersInvInductive, PTL

\* ErrorIsExplained holds of every behaviour of every handler: the message is
\* published right before the error and neither is overtaken, so an error is
\* shown with its text, unless it has none that Home Assistant accepts.
THEOREM ErrorAlwaysExplained == MCSpec => ErrorIsExplained
<1>1. WashersInv /\ [MCNext]_<<shared, own>> =>
        [(model \in Washers \ {"VCDWL"}) /\ shown["error"] # "ON" /\ shown'["error"] = "ON"
           => shown["error_message"] \notin {None, "OK"} \/ topics["error_message"] = "unknown"]_W!vars
  <2> SUFFICES ASSUME WashersInv, [MCNext]_<<shared, own>>, model \in Washers \ {"VCDWL"},
                      shown["error"] # "ON", shown'["error"] = "ON"
               PROVE  shown["error_message"] \notin {None, "OK"} \/ topics["error_message"] = "unknown"
    OBVIOUS
  <2>1. shown' # shown
    OBVIOUS
  <2>2. MCNext
    BY <2>1 DEF shared
  <2>3. W!Next
    BY <2>2, Apart DEF MCNext
  <2>4. W!Deliver
    BY <2>1, <2>3 DEF W!Next, W!ProcessFrame, W!Lose, W!NewHandler, W!Changes, W!Becomes,
       W!Receive, W!SetProperty, W!Door
  <2> QED BY <2>4, ErrorStep DEF WashersInv
<1> QED BY <1>1, WashersInvInductive, PTL DEF MCSpec, ErrorIsExplained, W!ErrorIsExplained

-----------------------------------------------------------------------------
(* Portable and window air conditioners.  Their inductive invariant.       *)

Settable(f) == IF f \in Settings THEN {0, 2, 6} ELSE 0 .. 8
Parts == {p \in UNION {[D -> 0 .. 8] : D \in SUBSET C!Fields} : \A f \in DOMAIN p : p[f] \in Settable(f)}
ModeWords == {"off", "cool", "dry", "fan_only", "heat"}
Shows == ModeWords \cup {2, 6} \cup {None}
Reports == [fields : Parts, full : BOOLEAN]
CCommands == [fields : Parts, for : C!Fields, inStep : BOOLEAN]

CType ==
  /\ model \in Models
  /\ machine \in [C!Fields -> 0 .. 8] /\ \A f \in C!Fields : machine[f] \in Settable(f)
  /\ raw \in [C!Fields -> 0 .. 8 \cup {None}] /\ \A f \in C!Fields : raw[f] \in Settable(f) \cup {None}
  /\ shown \in [C!Fields \ {"power"} -> Shows]
  /\ up \in Seq(Reports) /\ down \in Seq(CCommands)
  /\ valuesTold \in BOOLEAN

\* A field that no report under way tells, and one whose last report is right.
Quiet(f) == \A i \in DOMAIN up : f \notin DOMAIN up[i].fields
UnderWay(f) ==
  \E k \in DOMAIN up : /\ f \in DOMAIN up[k].fields /\ up[k].fields[f] = machine[f]
                       /\ \A i \in DOMAIN up : i > k => f \notin DOMAIN up[i].fields

\* What the handler holds of a field is in the machine, or a command brings it.
Known(f) ==
  \/ raw[f] = machine[f]
  \/ \E i \in DOMAIN down : f \in DOMAIN down[i].fields /\ down[i].fields[f] = raw[f]

Heard == valuesTold \/ \E i \in DOMAIN up : up[i].full

RawKnown == \A f \in C!Fields : UnderWay(f) \/ (Quiet(f) /\ Known(f))
SettingsShown == \A f \in Settings : Quiet(f) /\ machine[f] # 0 => shown[f] = machine[f]

\* The mode is shown from raw values, which may be ahead of the machine: then
\* a command under way changes the machine, and its report will show it.
Ahead ==
  \E i \in DOMAIN down : \E f \in {"power", "mode"} :
    f \in DOMAIN down[i].fields /\ down[i].fields[f] # machine[f]
ModeShown ==
  Quiet("power") /\ Quiet("mode") => (C!ModeIsNamed => shown["mode"] = C!MachineMode) \/ Ahead

\* A command that was sent in step is alone, and differs where it may.
May(c, f) == f = c.for \/ (c.for = "mode" /\ f = "power" /\ model = "POT")
Fits ==
  \A i \in DOMAIN down : down[i].inStep =>
    i = 1 /\ \A f \in DOMAIN down[i].fields : down[i].fields[f] # machine[f] => May(down[i], f)

\* All that is under way and held agrees on a value of a field.
Bears(f, v) ==
  /\ raw[f] = v
  /\ \A i \in DOMAIN down : f \in DOMAIN down[i].fields => down[i].fields[f] = v
  /\ \A i \in DOMAIN up : f \in DOMAIN up[i].fields => up[i].fields[f] = v
Brings(fs) == \E i \in DOMAIN down : fs \subseteq DOMAIN down[i].fields
WishedOff ==
  wish = "off" /\ Bears("power", 0) /\ (machine["power"] = 0 \/ Brings({"power"}))
WishedMode(c) ==
  /\ wish = C!ModeNames[c] /\ Bears("power", 1) /\ Bears("mode", c)
  /\ (machine["power"] = 1 /\ machine["mode"] = c) \/ Brings({"power", "mode"})
Wished ==
  wish # None /\ model = "POT"
    => valuesTold /\ (WishedOff \/ \E c \in DOMAIN C!ModeNames : WishedMode(c))

CInv ==
  /\ CType
  /\ Heard => RawKnown /\ SettingsShown /\ ModeShown
  /\ Fits
  /\ Wished

LEMMA CFieldsAre ==
  /\ "power" \in C!Fields /\ "mode" \in C!Fields /\ Settings \subseteq C!Fields
  /\ "power" \notin Settings /\ "mode" \notin Settings
  /\ \A f \in C!Fields : f \in Settings \/ f = "power" \/ f = "mode"
  /\ C!Fields \subseteq {"power", "mode", "fan", "temp", "swing"}
BY AppliancesAssumption DEF C!Fields

LEMMA NoneIsNoByte == None \notin 0 .. 8
<1>1. None \notin 0 .. 255
  BY AppliancesAssumption
<1>2. \A x \in 0 .. 8 : x \in 0 .. 255
  OBVIOUS
<1> QED BY <1>1, <1>2

LEMMA SettableIsByte == \A f, v : v \in Settable(f) => v \in 0 .. 8 /\ v # None
<1>1. \A f, v : v \in Settable(f) => v \in 0 .. 8
  BY DEF Settable
<1> QED BY <1>1, NoneIsNoByte

LEMMA PartFacts ==
  ASSUME NEW p \in Parts
  PROVE  /\ DOMAIN p \subseteq C!Fields
         /\ \A f \in DOMAIN p : p[f] \in Settable(f) /\ p[f] \in 0 .. 8
BY SettableIsByte DEF Parts

LEMMA PartMade ==
  ASSUME NEW D \in SUBSET C!Fields, NEW p \in [D -> 0 .. 8], \A f \in D : p[f] \in Settable(f)
  PROVE  p \in Parts
BY DEF Parts

LEMMA NamesAreWords ==
  ASSUME model \in Models
  PROVE  \A c \in DOMAIN C!ModeNames : c \in 0 .. 8 /\ C!ModeNames[c] \in ModeWords /\ C!ModeNames[c] # None
<1>0. \A w \in ModeWords : w # None
  BY AppliancesAssumption DEF ModeWords
<1> SUFFICES ASSUME NEW c \in DOMAIN C!ModeNames
             PROVE  c \in 0 .. 8 /\ C!ModeNames[c] \in ModeWords
  BY <1>0
<1>1. CASE model = "POT"
  <2>1. C!ModeNames = C!ModeNamesPOT
    BY <1>1 DEF C!ModeNames
  <2>2. c \in {0, 1, 2}
    BY <2>1 DEF C!ModeNamesPOT
  <2>3. C!ModeNames[c] = <<"cool", "dry", "fan_only">>[c + 1]
    BY <2>1, <2>2 DEF C!ModeNamesPOT
  <2> QED BY <2>2, <2>3 DEF ModeWords
<1>2. CASE model # "POT"
  <2>1. C!ModeNames = C!ModeNamesWIN
    BY <1>2 DEF C!ModeNames
  <2>2. c \in {0, 2, 4}
    BY <2>1 DEF C!ModeNamesWIN
  <2>3. C!ModeNames[c] = <<"cool", None, "fan_only", None, "heat">>[c + 1]
    BY <2>1, <2>2 DEF C!ModeNamesWIN
  <2> QED BY <2>2, <2>3 DEF ModeWords
<1> QED BY <1>1, <1>2

-----------------------------------------------------------------------------
(* A report is read one tag after the other.                               *)

CHandlers ==
  {h \in [raw : [C!Fields -> 0 .. 8 \cup {None}], shown : [C!Fields \ {"power"} -> Shows]] :
     \A f \in C!Fields : h.raw[f] \in Settable(f) \cup {None}}

TagOf(p, a, f) == IF f \in DOMAIN p THEN C!ProcessKeyValue(a, f, p[f]) ELSE a

\* a is what has become of h once the tags of S in p are read.
Read(p, h, S, a) ==
  /\ a \in CHandlers
  /\ \A f \in C!Fields : a.raw[f] = IF f \in S \cap DOMAIN p THEN p[f] ELSE h.raw[f]
  /\ \A f \in Settings : IF f \in S \cap DOMAIN p THEN p[f] # 0 => a.shown[f] = p[f]
                         ELSE a.shown[f] = h.shown[f]
  /\ IF "power" \in S \cap DOMAIN p \/ "mode" \in S \cap DOMAIN p
     THEN C!ReadMode(a.raw) # None => a.shown["mode"] = C!ReadMode(a.raw)
     ELSE a.shown["mode"] = h.shown["mode"]

LEMMA ReadModeIs ==
  ASSUME model \in Models, NEW r
  PROVE  C!ReadMode(r) \in Shows
<1>1. "off" \in Shows /\ None \in Shows /\ \A w \in ModeWords : w \in Shows
  BY DEF Shows, ModeWords
<1> QED BY <1>1, NamesAreWords DEF C!ReadMode

LEMMA TagReads ==
  ASSUME model \in Models, NEW p \in Parts, NEW h, NEW S, NEW f, f \notin S, NEW a, Read(p, h, S, a)
  PROVE  Read(p, h, S \cup {f}, TagOf(p, a, f))
<1>1. CASE f \notin DOMAIN p
  <2>1. (S \cup {f}) \cap DOMAIN p = S \cap DOMAIN p
    BY <1>1
  <2>2. TagOf(p, a, f) = a
    BY <1>1 DEF TagOf
  <2> QED BY <2>1, <2>2 DEF Read
<1>2. CASE f \in DOMAIN p
  <2> DEFINE r == [a.raw EXCEPT ![f] = p[f]]
             T == (S \cup {f}) \cap DOMAIN p
  <2>1. f \in C!Fields /\ p[f] \in Settable(f) /\ p[f] \in 0 .. 8 /\ p[f] # None
    BY <1>2, PartFacts, SettableIsByte
  <2>2. a.raw \in [C!Fields -> 0 .. 8 \cup {None}] /\ a.shown \in [C!Fields \ {"power"} -> Shows]
        /\ \A e \in C!Fields : a.raw[e] \in Settable(e) \cup {None}
    BY DEF Read, CHandlers
  <2>3. /\ r \in [C!Fields -> 0 .. 8 \cup {None}] /\ r[f] = p[f]
        /\ \A e \in C!Fields : e # f => r[e] = a.raw[e]
    BY <2>1, <2>2
  <2>4. \A e \in C!Fields : r[e] \in Settable(e) \cup {None}
    BY <2>1, <2>2, <2>3
  <2>5. /\ \A e : e \in T <=> e = f \/ e \in S \cap DOMAIN p
        /\ f \notin S \cap DOMAIN p
    BY <1>2
  <2> HIDE DEF T
  <2>6. \A e \in C!Fields : r[e] = IF e \in T THEN p[e] ELSE h.raw[e]
    BY <2>1, <2>3, <2>5 DEF Read
  <2>7. CASE f \in Settings
    <3> DEFINE x == C!Publish(a.shown, f, C!ReadSetting(p[f]))
               b == [raw |-> r, shown |-> x]
    <3>1. f # "power" /\ f # "mode" /\ f \in C!Fields \ {"power"}
      BY <2>1, <2>7, CFieldsAre
    <3>2. TagOf(p, a, f) = b
      BY <1>2, <3>1 DEF TagOf, C!ProcessKeyValue
    <3>3. p[f] \in {0, 2, 6}
      BY <2>1, <2>7 DEF Settable
    <3>4. /\ x \in [C!Fields \ {"power"} -> Shows]
          /\ p[f] # 0 => x[f] = p[f]
          /\ \A e \in C!Fields \ {"power"} : e # f => x[e] = a.shown[e]
      <4>1. CASE p[f] = 0
        BY <2>2, <4>1 DEF C!Publish, C!ReadSetting
      <4>2. CASE p[f] # 0
        <5>1. C!ReadSetting(p[f]) = p[f] /\ p[f] \in Shows
          BY <3>3, <4>2 DEF C!ReadSetting, Shows
        <5>2. x = [a.shown EXCEPT ![f] = p[f]]
          BY <2>1, <5>1 DEF C!Publish
        <5> QED BY <2>2, <3>1, <5>1, <5>2
      <4> QED BY <4>1, <4>2
    <3>5. b \in CHandlers
      BY <2>3, <2>4, <3>4 DEF CHandlers
    <3>6. C!ReadMode(r) = C!ReadMode(a.raw)
      BY <2>3, <3>1, CFieldsAre DEF C!ReadMode
    <3> HIDE DEF x, r
    <3>7. b.raw = r /\ b.shown = x
      OBVIOUS
    <3> HIDE DEF b
    <3>8. \A e \in Settings : IF e \in T THEN p[e] # 0 => b.shown[e] = p[e]
                              ELSE b.shown[e] = h.shown[e]
      BY <2>5, <3>4, <3>7, CFieldsAre DEF Read
    <3>9. ("power" \in T <=> "power" \in S \cap DOMAIN p) /\ ("mode" \in T <=> "mode" \in S \cap DOMAIN p)
      BY <2>5, <3>1
    <3>10. b.shown["mode"] = a.shown["mode"]
      BY <3>1, <3>4, <3>7, CFieldsAre
    <3>11. IF "power" \in T \/ "mode" \in T
           THEN C!ReadMode(b.raw) # None => b.shown["mode"] = C!ReadMode(b.raw)
           ELSE b.shown["mode"] = h.shown["mode"]
      BY <3>6, <3>7, <3>9, <3>10 DEF Read
    <3>12. Read(p, h, S \cup {f}, b)
      BY <2>6, <3>5, <3>7, <3>8, <3>11 DEF Read, T
    <3> QED BY <3>2, <3>12
  <2>8. CASE f \notin Settings
    <3> DEFINE v == C!ReadMode(r)
               x == C!Publish(a.shown, "mode", v)
               b == [raw |-> r, shown |-> x]
    <3>1. f \in {"power", "mode"}
      BY <2>1, <2>8, CFieldsAre
    <3>2. TagOf(p, a, f) = b
      BY <1>2, <3>1 DEF TagOf, C!ProcessKeyValue
    <3>3. v \in Shows
      BY ReadModeIs
    <3> HIDE DEF v
    <3>4. /\ x \in [C!Fields \ {"power"} -> Shows]
          /\ v # None => x["mode"] = v
          /\ \A e \in C!Fields \ {"power"} : e # "mode" => x[e] = a.shown[e]
      <4>1. CASE v = None
        BY <2>2, <4>1 DEF C!Publish
      <4>2. CASE v # None
        <5>1. x = [a.shown EXCEPT !["mode"] = v]
          BY <4>2 DEF C!Publish
        <5> QED BY <2>2, <3>3, <5>1, CFieldsAre
      <4> QED BY <4>1, <4>2
    <3>5. b \in CHandlers
      BY <2>3, <2>4, <3>4 DEF CHandlers
    <3> HIDE DEF x, r
    <3>6. b.raw = r /\ b.shown = x
      OBVIOUS
    <3> HIDE DEF b
    <3>7. \A e \in Settings : (e \in T <=> e \in S \cap DOMAIN p) /\ b.shown[e] = a.shown[e]
      BY <2>5, <2>8, <3>4, <3>6, CFieldsAre
    <3>8. \A e \in Settings : IF e \in T THEN p[e] # 0 => b.shown[e] = p[e]
                              ELSE b.shown[e] = h.shown[e]
      BY <3>7 DEF Read
    <3>9. "power" \in T \/ "mode" \in T
      BY <2>5, <3>1
    <3>10. C!ReadMode(b.raw) # None => b.shown["mode"] = C!ReadMode(b.raw)
      BY <3>4, <3>6 DEF v, r
    <3>11. Read(p, h, S \cup {f}, b)
      BY <2>6, <3>5, <3>6, <3>8, <3>9, <3>10 DEF Read, T
    <3> QED BY <3>2, <3>11
  <2> QED BY <2>7, <2>8
<1> QED BY <1>1, <1>2

LEMMA TagsRead ==
  ASSUME model \in Models, NEW p \in Parts, NEW h \in CHandlers
  PROVE  Read(p, h, C!Fields, C!ProcessTags(h, p))
<1> DEFINE a1 == TagOf(p, h, "power")
           a2 == TagOf(p, a1, "mode")
           a3 == TagOf(p, a2, "fan")
           a4 == TagOf(p, a3, "temp")
           a5 == TagOf(p, a4, "swing")
<1>1. C!ProcessTags(h, p) = a5
  BY DEF C!ProcessTags, TagOf
<1>2. Read(p, h, {}, h)
  BY DEF Read
<1>3. Read(p, h, {"power"}, a1)
  <2>1. Read(p, h, {} \cup {"power"}, a1)
    BY <1>2, TagReads
  <2> QED BY <2>1
<1> HIDE DEF a1
<1>4. Read(p, h, {"power", "mode"}, a2)
  <2>1. Read(p, h, {"power"} \cup {"mode"}, a2)
    BY <1>3, TagReads
  <2>2. {"power"} \cup {"mode"} = {"power", "mode"}
    OBVIOUS
  <2> QED BY <2>1, <2>2
<1> HIDE DEF a2
<1>5. Read(p, h, {"power", "mode", "fan"}, a3)
  <2>1. Read(p, h, {"power", "mode"} \cup {"fan"}, a3)
    BY <1>4, TagReads
  <2>2. {"power", "mode"} \cup {"fan"} = {"power", "mode", "fan"}
    OBVIOUS
  <2> QED BY <2>1, <2>2
<1> HIDE DEF a3
<1>6. Read(p, h, {"power", "mode", "fan", "temp"}, a4)
  <2>1. Read(p, h, {"power", "mode", "fan"} \cup {"temp"}, a4)
    BY <1>5, TagReads
  <2>2. {"power", "mode", "fan"} \cup {"temp"} = {"power", "mode", "fan", "temp"}
    OBVIOUS
  <2> QED BY <2>1, <2>2
<1> HIDE DEF a4
<1>7. Read(p, h, {"power", "mode", "fan", "temp"} \cup {"swing"}, a5)
  BY <1>6, TagReads
<1> HIDE DEF a5
<1>8. ({"power", "mode", "fan", "temp"} \cup {"swing"}) \cap DOMAIN p = C!Fields \cap DOMAIN p
  BY PartFacts, CFieldsAre
<1>9. Read(p, h, C!Fields, a5)
  BY <1>7, <1>8 DEF Read
<1> QED BY <1>1, <1>9

-----------------------------------------------------------------------------
(* The steps of an air conditioner.                                        *)

LEMMA CSameModel ==
  ASSUME model' = model
  PROVE  /\ C!ModeNames' = C!ModeNames
         /\ machine' = machine => C!MachineMode' = C!MachineMode /\ C!ModeIsNamed' = C!ModeIsNamed
BY DEF C!ModeNames, C!MachineMode, C!ModeIsNamed

LEMMA CProcessKeeps ==
  ASSUME CInv, C!ProcessTLV
  PROVE  CInv'
<1> DEFINE p == Head(up).fields
           r == C!ProcessTags([raw |-> raw, shown |-> shown], p)
<1>1. /\ up # <<>> /\ raw' = r.raw /\ shown' = r.shown /\ valuesTold' = (valuesTold \/ Head(up).full)
      /\ up' = Tail(up)
      /\ model' = model /\ machine' = machine /\ down' = down /\ wish' = wish
  BY DEF C!ProcessTLV
<1>2. /\ up \in Seq(Reports) /\ up[1] = Head(up) /\ 1 \in DOMAIN up /\ Head(up) \in Reports /\ up' \in Seq(Reports)
      /\ \A k \in DOMAIN up : k # 1 => k > 1 /\ k - 1 \in DOMAIN up' /\ up'[k - 1] = up[k]
      /\ \A i \in DOMAIN up' : i + 1 \in DOMAIN up /\ up'[i] = up[i + 1] /\ i >= 1 /\ i \in Nat
  <2>1. up \in Seq(Reports)
    BY DEF CInv, CType
  <2> QED BY <1>1, <2>1, TailFacts
<1>3. p \in Parts /\ p = up[1].fields /\ Head(up).full \in BOOLEAN
  BY <1>2 DEF Reports
<1>4. /\ model \in Models /\ valuesTold \in BOOLEAN /\ down \in Seq(CCommands)
      /\ machine \in [C!Fields -> 0 .. 8] /\ \A f \in C!Fields : machine[f] \in Settable(f)
  BY DEF CInv, CType
<1>5. Read(p, [raw |-> raw, shown |-> shown], C!Fields, r)
  <2>1. [raw |-> raw, shown |-> shown] \in CHandlers
    BY DEF CInv, CType, CHandlers
  <2> QED BY <1>3, <1>4, <2>1, TagsRead
<1>6. DOMAIN p \subseteq C!Fields /\ \A f \in DOMAIN p : f \in C!Fields \cap DOMAIN p
  BY <1>3, PartFacts
<1> HIDE DEF p, r
<1>7. /\ \A f \in C!Fields : raw'[f] = IF f \in DOMAIN p THEN p[f] ELSE raw[f]
      /\ \A f \in Settings : IF f \in DOMAIN p THEN p[f] # 0 => shown'[f] = p[f]
                             ELSE shown'[f] = shown[f]
      /\ IF "power" \in DOMAIN p \/ "mode" \in DOMAIN p
         THEN C!ReadMode(raw') # None => shown'["mode"] = C!ReadMode(raw')
         ELSE shown'["mode"] = shown["mode"]
  BY <1>1, <1>5, <1>6, CFieldsAre DEF Read
<1>8. CType'
  <2>1. r \in CHandlers
    BY <1>5 DEF Read
  <2> QED BY <1>1, <1>2, <1>3, <1>4, <2>1 DEF CType, CHandlers
<1>9. Heard' => Heard
  BY <1>1, <1>2 DEF Heard
<1>10. ASSUME NEW f
       PROVE  /\ f \notin DOMAIN p => (Quiet(f)' <=> Quiet(f))
              /\ f \notin DOMAIN p => (UnderWay(f) => UnderWay(f)')
              /\ f \in DOMAIN p => ~Quiet(f)
              /\ f \in DOMAIN p /\ UnderWay(f) => UnderWay(f)' \/ (Quiet(f)' /\ p[f] = machine[f])
              /\ UnderWay(f)' => ~Quiet(f)'
  <2>1. f \notin DOMAIN p => (Quiet(f)' <=> Quiet(f))
    BY <1>2, <1>3 DEF Quiet
  <2>2. f \in DOMAIN p => ~Quiet(f)
    BY <1>2, <1>3 DEF Quiet
  <2>3. ASSUME NEW k \in DOMAIN up, k # 1, f \in DOMAIN up[k].fields, up[k].fields[f] = machine[f],
               \A i \in DOMAIN up : i > k => f \notin DOMAIN up[i].fields
        PROVE  UnderWay(f)'
    <3>1. k - 1 \in DOMAIN up' /\ up'[k - 1] = up[k]
      BY <1>2, <2>3
    <3>2. ASSUME NEW i \in DOMAIN up', i > k - 1
          PROVE  f \notin DOMAIN up'[i].fields
      <4>1. i + 1 \in DOMAIN up /\ up'[i] = up[i + 1] /\ i + 1 > k
        BY <1>2, <2>3, <3>2
      <4> QED BY <2>3, <4>1
    <3>3. up'[k - 1].fields[f] = machine'[f]
      BY <1>1, <2>3, <3>1
    <3> QED BY <2>3, <3>1, <3>2, <3>3 DEF UnderWay
  <2>4. ASSUME f \in DOMAIN up[1].fields, up[1].fields[f] = machine[f],
               \A i \in DOMAIN up : i > 1 => f \notin DOMAIN up[i].fields
        PROVE  Quiet(f)' /\ p[f] = machine[f]
    BY <1>2, <1>3, <2>4 DEF Quiet
  <2>5. UnderWay(f)' => ~Quiet(f)'
    BY DEF UnderWay, Quiet
  <2>6. UnderWay(f) => UnderWay(f)' \/ (f \in DOMAIN p /\ Quiet(f)' /\ p[f] = machine[f])
    BY <1>3, <2>3, <2>4 DEF UnderWay
  <2> QED BY <2>1, <2>2, <2>5, <2>6
<1>11. ASSUME RawKnown
       PROVE  RawKnown'
  <2> SUFFICES ASSUME NEW f \in C!Fields
               PROVE  UnderWay(f)' \/ (Quiet(f)' /\ Known(f)')
    BY DEF RawKnown
  <2>1. CASE f \in DOMAIN p
    <3>1. UnderWay(f)
      BY <1>10, <1>11, <2>1 DEF RawKnown
    <3>2. UnderWay(f)' \/ (Quiet(f)' /\ p[f] = machine[f])
      BY <1>10, <2>1, <3>1
    <3>3. p[f] = machine[f] => Known(f)'
      BY <1>1, <1>7, <2>1 DEF Known
    <3> QED BY <3>2, <3>3
  <2>2. CASE f \notin DOMAIN p
    <3>1. raw'[f] = raw[f]
      BY <1>7, <2>2
    <3>2. Known(f) => Known(f)'
      BY <1>1, <3>1 DEF Known
    <3> QED BY <1>10, <1>11, <2>2, <3>2 DEF RawKnown
  <2> QED BY <2>1, <2>2
<1>12. ASSUME RawKnown, SettingsShown
       PROVE  SettingsShown'
  <2> SUFFICES ASSUME NEW f \in Settings, Quiet(f)', machine[f] # 0
               PROVE  shown'[f] = machine[f]
    BY <1>1 DEF SettingsShown
  <2>1. f \in C!Fields
    BY CFieldsAre
  <2>2. CASE f \in DOMAIN p
    <3>1. UnderWay(f) /\ ~UnderWay(f)'
      BY <1>10, <1>12, <2>1, <2>2 DEF RawKnown
    <3>2. p[f] = machine[f]
      BY <1>10, <2>2, <3>1
    <3> QED BY <1>7, <2>2, <3>2
  <2>3. CASE f \notin DOMAIN p
    BY <1>7, <1>10, <1>12, <2>3 DEF SettingsShown
  <2> QED BY <2>2, <2>3
<1>13. ASSUME RawKnown, ModeShown
       PROVE  ModeShown'
  <2> SUFFICES ASSUME Quiet("power")', Quiet("mode")', C!ModeIsNamed
               PROVE  shown'["mode"] = C!MachineMode \/ Ahead'
    BY <1>1, CSameModel DEF ModeShown
  <2>1. Ahead' <=> Ahead
    BY <1>1 DEF Ahead
  <2>2. CASE "power" \notin DOMAIN p /\ "mode" \notin DOMAIN p
    <3>1. Quiet("power") /\ Quiet("mode") /\ shown'["mode"] = shown["mode"]
      BY <1>7, <1>10, <2>2
    <3> QED BY <1>13, <2>1, <3>1 DEF ModeShown
  <2>3. CASE "power" \in DOMAIN p \/ "mode" \in DOMAIN p
    <3>1. Known("power")' /\ Known("mode")'
      BY <1>10, <1>11, <1>13, CFieldsAre DEF RawKnown
    <3>2. CASE raw'["power"] = machine["power"] /\ raw'["mode"] = machine["mode"]
      <4>1. C!ReadMode(raw') = C!MachineMode
        BY <3>2 DEF C!ReadMode, C!MachineMode, C!ModeIsNamed
      <4>2. C!MachineMode # None
        <5>1. "off" # None
          BY AppliancesAssumption
        <5> QED BY <1>4, <5>1, NamesAreWords DEF C!MachineMode, C!ModeIsNamed
      <4> QED BY <1>7, <2>3, <4>1, <4>2
    <3>3. ASSUME NEW f \in {"power", "mode"}, raw'[f] # machine[f]
          PROVE  Ahead'
      <4>1. PICK i \in DOMAIN down : f \in DOMAIN down[i].fields /\ down[i].fields[f] = raw'[f]
        BY <1>1, <3>1, <3>3 DEF Known
      <4> QED BY <1>1, <3>3, <4>1 DEF Ahead
    <3> QED BY <3>2, <3>3
  <2> QED BY <2>2, <2>3
<1>14. Fits'
  BY <1>1 DEF CInv, Fits, May
<1>15. ASSUME NEW f \in C!Fields, NEW v, Bears(f, v)
       PROVE  Bears(f, v)'
  <2>1. raw'[f] = v
    BY <1>2, <1>3, <1>7, <1>15 DEF Bears
  <2>2. \A i \in DOMAIN up' : f \in DOMAIN up'[i].fields => up'[i].fields[f] = v
    BY <1>2, <1>15 DEF Bears
  <2> QED BY <1>1, <1>15, <2>1, <2>2 DEF Bears
<1>16. Wished'
  <2>1. Brings({"power"})' = Brings({"power"}) /\ Brings({"power", "mode"})' = Brings({"power", "mode"})
    BY <1>1 DEF Brings
  <2>2. WishedOff => WishedOff'
    BY <1>1, <1>15, <2>1, CFieldsAre DEF WishedOff
  <2>3. \A c : WishedMode(c) => WishedMode(c)'
    BY <1>1, <1>15, <2>1, CFieldsAre, CSameModel DEF WishedMode
  <2> QED BY <1>1, <2>2, <2>3, CSameModel DEF CInv, Wished
<1> QED BY <1>8, <1>9, <1>11, <1>12, <1>13, <1>14, <1>16 DEF CInv

LEMMA CNewHandlerKeeps ==
  ASSUME CInv, C!NewHandler
  PROVE  CInv'
<1>1. /\ raw' = [f \in DOMAIN raw |-> None] /\ valuesTold' = FALSE
      /\ up' = <<>> /\ down' = <<>> /\ wish' = None
      /\ model' = model /\ machine' = machine /\ shown' = shown
  BY DEF C!NewHandler
<1>2. raw' \in [C!Fields -> 0 .. 8 \cup {None}] /\ \A f \in C!Fields : raw'[f] \in Settable(f) \cup {None}
  BY <1>1 DEF CInv, CType
<1>3. CType'
  <2>1. up' \in Seq(Reports) /\ down' \in Seq(CCommands)
    BY <1>1
  <2>2. valuesTold' \in BOOLEAN
    BY <1>1
  <2> QED BY <1>1, <1>2, <2>1, <2>2 DEF CInv, CType
<1>4. ~Heard' /\ Fits' /\ Wished'
  BY <1>1 DEF Heard, Fits, Wished
<1> QED BY <1>3, <1>4 DEF CInv

LEMMA CAnswerKeeps ==
  ASSUME CInv, C!AnswerQuery
  PROVE  CInv'
<1> DEFINE x == [fields |-> machine, full |-> TRUE]
           n == Len(up)
<1>1. /\ ~valuesTold /\ up' = Append(up, x)
      /\ model' = model /\ machine' = machine /\ down' = down /\ raw' = raw
      /\ valuesTold' = valuesTold /\ shown' = shown /\ wish' = wish
  BY DEF C!AnswerQuery
<1>2. /\ up \in Seq(Reports) /\ machine \in [C!Fields -> 0 .. 8]
      /\ \A f \in C!Fields : machine[f] \in Settable(f)
  BY DEF CInv, CType
<1>3. machine \in Parts
  BY <1>2, PartMade
<1>4. x \in Reports /\ x.fields = machine
  BY <1>3 DEF Reports
<1> HIDE DEF x
<1>5. /\ up' \in Seq(Reports) /\ n \in Nat /\ DOMAIN up' = 1 .. (n + 1) /\ up'[n + 1] = x
  BY <1>1, <1>2, <1>4, AppendFacts
<1> HIDE DEF n
<1>6. n + 1 \in DOMAIN up' /\ \A i \in DOMAIN up' : ~(i > n + 1)
  BY <1>5
<1>7. \A f \in C!Fields : UnderWay(f)' /\ ~Quiet(f)'
  BY <1>1, <1>2, <1>4, <1>5, <1>6 DEF UnderWay, Quiet
<1>8. RawKnown' /\ SettingsShown' /\ ModeShown'
  BY <1>7, CFieldsAre DEF RawKnown, SettingsShown, ModeShown
<1>9. CType'
  BY <1>1, <1>5 DEF CInv, CType
<1>10. Fits' /\ Wished'
  BY <1>1 DEF CInv, Fits, May, Wished
<1> QED BY <1>8, <1>9, <1>10 DEF CInv

\* What a step of the machine does to the fields.
LEMMA CBecomesDoes ==
  ASSUME CType, NEW new \in [C!Fields -> 0 .. 8], \A f \in C!Fields : new[f] \in Settable(f),
         C!Becomes(new)
  PROVE  /\ machine' = new /\ up' \in Seq(Reports)
         /\ (\E i \in DOMAIN up' : up'[i].full) => \E i \in DOMAIN up : up[i].full
         /\ \A f \in C!Fields : new[f] # machine[f] => UnderWay(f)' /\ ~Quiet(f)'
         /\ \A f \in C!Fields : new[f] = machine[f] =>
              (UnderWay(f) => UnderWay(f)') /\ (Quiet(f)' <=> Quiet(f))
         /\ \A i \in DOMAIN up' :
              \/ i \in DOMAIN up /\ up'[i] = up[i]
              \/ \A f \in DOMAIN up'[i].fields :
                   f \in C!Fields /\ up'[i].fields[f] = new[f] /\ new[f] # machine[f]
<1> DEFINE D == C!Changed(new)
           p == [f \in D |-> new[f]]
           x == [fields |-> p, full |-> FALSE]
           n == Len(up)
<1>1. machine' = new /\ up' = IF D = {} THEN up ELSE Append(up, x)
  BY DEF C!Becomes
<1>2. up \in Seq(Reports) /\ machine \in [C!Fields -> 0 .. 8]
  BY DEF CType
<1>3. D = {f \in C!Fields : new[f] # machine[f]}
  BY <1>2 DEF C!Changed
<1>4. CASE D = {}
  <2>1. up' = up /\ \A f \in C!Fields : new[f] = machine[f]
    BY <1>1, <1>3, <1>4
  <2>2. \A f \in C!Fields : (UnderWay(f) => UnderWay(f)') /\ (Quiet(f)' <=> Quiet(f))
    BY <1>1, <2>1 DEF UnderWay, Quiet
  <2> QED BY <1>1, <1>2, <2>1, <2>2
<1>5. CASE D # {}
  <2>1. p \in Parts /\ DOMAIN p = D /\ \A f \in D : p[f] = new[f]
    <3>1. D \in SUBSET C!Fields /\ p \in [D -> 0 .. 8]
      BY <1>3
    <3>2. \A f \in D : p[f] \in Settable(f)
      BY <1>3
    <3> HIDE DEF p, D
    <3>3. p \in Parts
      BY <3>1, <3>2, PartMade
    <3> QED BY <3>1, <3>3 DEF p
  <2> HIDE DEF p, D
  <2>2. x \in Reports /\ x.fields = p /\ x.full = FALSE
    <3>1. FALSE \in BOOLEAN
      OBVIOUS
    <3> QED BY <2>1, <3>1 DEF Reports
  <2> HIDE DEF x
  <2>3. /\ DOMAIN up = 1 .. n /\ n \in Nat /\ DOMAIN up' = 1 .. (n + 1)
        /\ \A i \in 1 .. n : up'[i] = up[i]
        /\ up'[n + 1] = x /\ up' \in Seq(Reports)
    <3>1. up' = Append(up, x)
      BY <1>1, <1>5
    <3>2. up' \in Seq(Reports)
      BY <1>2, <2>2, <3>1
    <3> QED BY <1>2, <2>2, <3>1, <3>2, AppendFacts
  <2> HIDE DEF n
  <2>4. n + 1 \in DOMAIN up' /\ \A i \in DOMAIN up' : ~(i > n + 1)
    BY <2>3
  <2>5. ASSUME NEW f \in C!Fields, new[f] # machine[f]
        PROVE  UnderWay(f)' /\ ~Quiet(f)'
    <3>1. f \in DOMAIN up'[n + 1].fields /\ up'[n + 1].fields[f] = machine'[f]
      BY <1>1, <1>3, <2>1, <2>2, <2>3, <2>5
    <3> QED BY <2>4, <3>1 DEF UnderWay, Quiet
  <2>6. ASSUME NEW f \in C!Fields, new[f] = machine[f]
        PROVE  (UnderWay(f) => UnderWay(f)') /\ (Quiet(f)' <=> Quiet(f))
    <3>1. f \notin DOMAIN up'[n + 1].fields
      BY <1>3, <2>1, <2>2, <2>3, <2>6
    <3>2. \A i \in DOMAIN up' : i = n + 1 \/ (i \in DOMAIN up /\ up'[i] = up[i])
      BY <2>3
    <3>3. \A i \in DOMAIN up : i \in DOMAIN up' /\ up'[i] = up[i]
      BY <2>3
    <3>4. Quiet(f)' <=> Quiet(f)
      BY <3>1, <3>2, <3>3 DEF Quiet
    <3>5. ASSUME NEW k \in DOMAIN up, f \in DOMAIN up[k].fields, up[k].fields[f] = machine[f],
                 \A i \in DOMAIN up : i > k => f \notin DOMAIN up[i].fields
          PROVE  UnderWay(f)'
      <4>1. k \in DOMAIN up' /\ up'[k].fields[f] = machine'[f] /\ f \in DOMAIN up'[k].fields
        BY <1>1, <2>6, <3>3, <3>5
      <4>2. \A i \in DOMAIN up' : i > k => f \notin DOMAIN up'[i].fields
        BY <3>1, <3>2, <3>5
      <4> QED BY <4>1, <4>2 DEF UnderWay
    <3> QED BY <3>4, <3>5 DEF UnderWay
  <2>7. (\E i \in DOMAIN up' : up'[i].full) => \E i \in DOMAIN up : up[i].full
    BY <2>2, <2>3
  <2>8. \A i \in DOMAIN up' :
              \/ i \in DOMAIN up /\ up'[i] = up[i]
              \/ \A f \in DOMAIN up'[i].fields :
                   f \in C!Fields /\ up'[i].fields[f] = new[f] /\ new[f] # machine[f]
    <3>1. \A f \in DOMAIN x.fields : f \in C!Fields /\ x.fields[f] = new[f] /\ new[f] # machine[f]
      BY <1>3, <2>1, <2>2
    <3>2. \A i \in DOMAIN up' : i = n + 1 \/ (i \in DOMAIN up /\ up'[i] = up[i])
      BY <2>3
    <3> QED BY <2>3, <3>1, <3>2
  <2> QED BY <1>1, <2>3, <2>5, <2>6, <2>7, <2>8
<1> QED BY <1>4, <1>5

LEMMA CReceiveKeeps ==
  ASSUME CInv, C!Receive
  PROVE  CInv'
<1> DEFINE p == Head(down).fields
           new == [f \in DOMAIN machine |-> IF f \in DOMAIN p THEN p[f] ELSE machine[f]]
<1>1. /\ down # <<>> /\ C!Becomes(new) /\ down' = Tail(down)
      /\ model' = model /\ raw' = raw /\ valuesTold' = valuesTold /\ shown' = shown /\ wish' = wish
  BY DEF C!Receive
<1>2. /\ CType /\ machine \in [C!Fields -> 0 .. 8] /\ \A f \in C!Fields : machine[f] \in Settable(f)
      /\ down \in Seq(CCommands)
  BY DEF CInv, CType
<1>3. /\ down[1] = Head(down) /\ 1 \in DOMAIN down /\ Head(down) \in CCommands /\ down' \in Seq(CCommands)
      /\ \A k \in DOMAIN down : k # 1 => k > 1 /\ k - 1 \in DOMAIN down' /\ down'[k - 1] = down[k]
      /\ \A i \in DOMAIN down' : i + 1 \in DOMAIN down /\ down'[i] = down[i + 1] /\ i >= 1 /\ i \in Nat
  BY <1>1, <1>2, TailFacts
<1>4. p \in Parts /\ p = down[1].fields
  BY <1>3 DEF CCommands
<1> HIDE DEF p
<1>5. DOMAIN p \subseteq C!Fields /\ \A f \in DOMAIN p : p[f] \in Settable(f) /\ p[f] \in 0 .. 8
  BY <1>4, PartFacts
<1>6. /\ new \in [C!Fields -> 0 .. 8] /\ \A f \in C!Fields : new[f] \in Settable(f)
      /\ \A f \in C!Fields : new[f] = IF f \in DOMAIN p THEN p[f] ELSE machine[f]
  BY <1>2, <1>5
<1> HIDE DEF new
<1>7. /\ machine' = new /\ up' \in Seq(Reports)
      /\ (\E i \in DOMAIN up' : up'[i].full) => \E i \in DOMAIN up : up[i].full
      /\ \A f \in C!Fields : new[f] # machine[f] => UnderWay(f)' /\ ~Quiet(f)'
      /\ \A f \in C!Fields : new[f] = machine[f] =>
           (UnderWay(f) => UnderWay(f)') /\ (Quiet(f)' <=> Quiet(f))
      /\ \A i \in DOMAIN up' :
           \/ i \in DOMAIN up /\ up'[i] = up[i]
           \/ \A f \in DOMAIN up'[i].fields :
                f \in C!Fields /\ up'[i].fields[f] = new[f] /\ new[f] # machine[f]
  BY <1>1, <1>2, <1>6, CBecomesDoes
<1>8. CType'
  BY <1>1, <1>2, <1>3, <1>6, <1>7 DEF CType
<1>9. Heard' => Heard
  BY <1>1, <1>7 DEF Heard
<1>10. ASSUME RawKnown
       PROVE  RawKnown'
  <2> SUFFICES ASSUME NEW f \in C!Fields, new[f] = machine[f], Quiet(f), Known(f)
               PROVE  Known(f)'
    BY <1>7, <1>10 DEF RawKnown
  <2>1. CASE raw[f] = machine[f]
    BY <1>1, <1>7, <2>1 DEF Known
  <2>2. ASSUME NEW i \in DOMAIN down, i # 1, f \in DOMAIN down[i].fields, down[i].fields[f] = raw[f]
        PROVE  Known(f)'
    <3>1. i - 1 \in DOMAIN down' /\ down'[i - 1] = down[i]
      BY <1>3, <2>2
    <3> QED BY <1>1, <2>2, <3>1 DEF Known
  <2>3. CASE f \in DOMAIN p /\ p[f] = raw[f]
    BY <1>1, <1>6, <1>7, <2>3 DEF Known
  <2> QED BY <1>4, <2>1, <2>2, <2>3 DEF Known
<1>11. SettingsShown => SettingsShown'
  BY <1>1, <1>7, CFieldsAre DEF SettingsShown
<1>12. ASSUME ModeShown
       PROVE  ModeShown'
  <2> SUFFICES ASSUME Quiet("power")', Quiet("mode")', C!ModeIsNamed'
               PROVE  shown'["mode"] = C!MachineMode' \/ Ahead'
    BY DEF ModeShown
  <2>1. new["power"] = machine["power"] /\ new["mode"] = machine["mode"]
    BY <1>7, CFieldsAre
  <2>2. Quiet("power") /\ Quiet("mode")
    BY <1>7, <2>1, CFieldsAre
  <2>3. C!MachineMode' = C!MachineMode /\ C!ModeIsNamed
    BY <1>1, <1>7, <2>1, CSameModel DEF C!MachineMode, C!ModeIsNamed
  <2>4. ASSUME NEW i \in DOMAIN down, NEW f \in {"power", "mode"},
               f \in DOMAIN down[i].fields, down[i].fields[f] # machine[f]
        PROVE  Ahead'
    <3>1. i # 1
      BY <1>4, <1>6, <2>1, <2>4, CFieldsAre
    <3>2. i - 1 \in DOMAIN down' /\ down'[i - 1] = down[i]
      BY <1>3, <2>4, <3>1
    <3>3. machine'[f] = machine[f]
      BY <1>7, <2>1
    <3> QED BY <2>4, <3>2, <3>3 DEF Ahead
  <2> QED BY <1>1, <1>12, <2>2, <2>3, <2>4 DEF ModeShown, Ahead
<1>13. Fits'
  <2>1. \A i \in DOMAIN down' : ~down'[i].inStep
    <3> SUFFICES ASSUME NEW i \in DOMAIN down', down'[i].inStep
                 PROVE  FALSE
      OBVIOUS
    <3>1. i + 1 \in DOMAIN down /\ down[i + 1].inStep /\ i >= 1 /\ i \in Nat
      BY <1>3
    <3>2. i + 1 = 1
      BY <3>1 DEF CInv, Fits
    <3> QED BY <3>1, <3>2
  <2> QED BY <2>1 DEF Fits
<1>14. ASSUME NEW f \in C!Fields, NEW v, Bears(f, v)
       PROVE  Bears(f, v)' /\ (machine[f] = v \/ f \in DOMAIN p => machine'[f] = v)
  <2>1. machine[f] = v \/ f \in DOMAIN p => new[f] = v
    BY <1>3, <1>4, <1>6, <1>14 DEF Bears
  <2>2. \A i \in DOMAIN down' : f \in DOMAIN down'[i].fields => down'[i].fields[f] = v
    BY <1>3, <1>14 DEF Bears
  <2>3. \A i \in DOMAIN up' : f \in DOMAIN up'[i].fields => up'[i].fields[f] = v
    <3> SUFFICES ASSUME NEW i \in DOMAIN up', f \in DOMAIN up'[i].fields
                 PROVE  up'[i].fields[f] = v
      OBVIOUS
    <3>1. CASE i \in DOMAIN up /\ up'[i] = up[i]
      BY <1>14, <3>1 DEF Bears
    <3>2. CASE up'[i].fields[f] = new[f] /\ new[f] # machine[f]
      BY <1>6, <2>1, <3>2
    <3> QED BY <1>7, <3>1, <3>2
  <2> QED BY <1>1, <1>7, <1>14, <2>1, <2>2, <2>3 DEF Bears
<1>15. \A fs : Brings(fs) => fs \subseteq DOMAIN p \/ Brings(fs)'
  <2> SUFFICES ASSUME NEW fs, NEW i \in DOMAIN down, fs \subseteq DOMAIN down[i].fields, i # 1
               PROVE  Brings(fs)'
    BY <1>4 DEF Brings
  <2>1. i - 1 \in DOMAIN down' /\ down'[i - 1] = down[i]
    BY <1>3
  <2> QED BY <2>1 DEF Brings
<1>16. Wished'
  <2>1. WishedOff => WishedOff'
    <3> SUFFICES ASSUME WishedOff
                 PROVE  WishedOff'
      OBVIOUS
    <3>1. Bears("power", 0)' /\ (machine["power"] = 0 \/ "power" \in DOMAIN p => machine'["power"] = 0)
      BY <1>14, CFieldsAre DEF WishedOff
    <3>2. Brings({"power"}) => "power" \in DOMAIN p \/ Brings({"power"})'
      BY <1>15
    <3> QED BY <1>1, <3>1, <3>2 DEF WishedOff
  <2>2. \A c : WishedMode(c) => WishedMode(c)'
    <3> SUFFICES ASSUME NEW c, WishedMode(c)
                 PROVE  WishedMode(c)'
      OBVIOUS
    <3>1. Bears("power", 1)' /\ (machine["power"] = 1 \/ "power" \in DOMAIN p => machine'["power"] = 1)
      BY <1>14, CFieldsAre DEF WishedMode
    <3>2. Bears("mode", c)' /\ (machine["mode"] = c \/ "mode" \in DOMAIN p => machine'["mode"] = c)
      BY <1>14, CFieldsAre DEF WishedMode
    <3>3. Brings({"power", "mode"}) =>
            ("power" \in DOMAIN p /\ "mode" \in DOMAIN p) \/ Brings({"power", "mode"})'
      BY <1>15
    <3> QED BY <1>1, <3>1, <3>2, <3>3, CSameModel DEF WishedMode
  <2> QED BY <1>1, <2>1, <2>2, CSameModel DEF CInv, Wished
<1> QED BY <1>8, <1>9, <1>10, <1>11, <1>12, <1>13, <1>16 DEF CInv

LEMMA COperatedKeeps ==
  ASSUME CInv, NEW g \in C!Fields, NEW v \in C!Codes(g), C!Operated(g, v)
  PROVE  CInv'
<1> DEFINE new == [machine EXCEPT ![g] = v]
<1>1. /\ C!Becomes(new) /\ down' = [i \in DOMAIN down |-> [down[i] EXCEPT !.inStep = FALSE]]
      /\ model' = model /\ raw' = raw /\ valuesTold' = valuesTold /\ shown' = shown /\ wish' = None
  BY DEF C!Operated
<1>2. /\ CType /\ machine \in [C!Fields -> 0 .. 8] /\ \A f \in C!Fields : machine[f] \in Settable(f)
      /\ down \in Seq(CCommands)
  BY DEF CInv, CType
<1>3. v \in Settable(g) /\ v \in 0 .. 8
  <2>1. CASE g = "power"
    <3>1. v \in {0, 1}
      BY <2>1 DEF C!Codes
    <3> QED BY <2>1, <3>1, CFieldsAre DEF Settable
  <2>2. CASE g = "mode"
    <3>1. v \in {0, 2, 8}
      BY <2>2 DEF C!Codes
    <3> QED BY <2>2, <3>1, CFieldsAre DEF Settable
  <2>3. CASE g # "power" /\ g # "mode"
    <3>1. v \in {2, 6}
      BY <2>3 DEF C!Codes
    <3>2. g \in Settings
      BY <2>3, CFieldsAre
    <3> QED BY <3>1, <3>2 DEF Settable
  <2> QED BY <2>1, <2>2, <2>3
<1>4. new \in [C!Fields -> 0 .. 8] /\ \A f \in C!Fields : new[f] \in Settable(f)
  BY <1>2, <1>3
<1> HIDE DEF new
<1>5. /\ machine' = new /\ up' \in Seq(Reports)
      /\ (\E i \in DOMAIN up' : up'[i].full) => \E i \in DOMAIN up : up[i].full
      /\ \A f \in C!Fields : new[f] # machine[f] => UnderWay(f)' /\ ~Quiet(f)'
      /\ \A f \in C!Fields : new[f] = machine[f] =>
           (UnderWay(f) => UnderWay(f)') /\ (Quiet(f)' <=> Quiet(f))
  BY <1>1, <1>2, <1>4, CBecomesDoes
<1>6. /\ down' \in Seq(CCommands) /\ DOMAIN down' = DOMAIN down
      /\ \A i \in DOMAIN down : down'[i].fields = down[i].fields /\ down'[i].inStep = FALSE
  <2>1. \A i \in DOMAIN down : down[i] \in CCommands
    BY <1>2
  <2>2. \A c \in CCommands : LET d == [c EXCEPT !.inStep = FALSE]
                             IN d \in CCommands /\ d.fields = c.fields /\ d.inStep = FALSE
    BY DEF CCommands
  <2>3. /\ DOMAIN down' = DOMAIN down
        /\ \A i \in DOMAIN down : down'[i] \in CCommands /\ down'[i].fields = down[i].fields
                                  /\ down'[i].inStep = FALSE
    BY <1>1, <2>1, <2>2
  <2>4. down' \in Seq(CCommands)
    <3>1. DOMAIN down = 1 .. Len(down) /\ Len(down) \in Nat
      BY <1>2
    <3>2. down' \in [1 .. Len(down) -> CCommands]
      BY <1>1, <2>3, <3>1
    <3> QED BY <3>1, <3>2
  <2> QED BY <2>3, <2>4
<1>7. CType'
  BY <1>1, <1>4, <1>5, <1>6, <1>2 DEF CType
<1>8. Heard' => Heard
  BY <1>1, <1>5 DEF Heard
<1>9. \A f \in C!Fields : new[f] = machine[f] /\ Known(f) => Known(f)'
  BY <1>1, <1>5, <1>6 DEF Known
<1>10. RawKnown => RawKnown'
  BY <1>5, <1>9 DEF RawKnown
<1>11. SettingsShown => SettingsShown'
  BY <1>1, <1>5, CFieldsAre DEF SettingsShown
<1>12. ASSUME ModeShown
       PROVE  ModeShown'
  <2> SUFFICES ASSUME Quiet("power")', Quiet("mode")', C!ModeIsNamed'
               PROVE  shown'["mode"] = C!MachineMode' \/ Ahead'
    BY DEF ModeShown
  <2>1. new["power"] = machine["power"] /\ new["mode"] = machine["mode"]
    BY <1>5, CFieldsAre
  <2>2. Quiet("power") /\ Quiet("mode")
    BY <1>5, <2>1, CFieldsAre
  <2>3. C!MachineMode' = C!MachineMode /\ C!ModeIsNamed
    BY <1>1, <1>5, <2>1, CSameModel DEF C!MachineMode, C!ModeIsNamed
  <2>4. Ahead => Ahead'
    BY <1>5, <1>6, <2>1 DEF Ahead
  <2> QED BY <1>1, <1>12, <2>2, <2>3, <2>4 DEF ModeShown
<1>13. Fits' /\ Wished'
  BY <1>1, <1>6 DEF Fits, Wished
<1> QED BY <1>7, <1>8, <1>10, <1>11, <1>12, <1>13 DEF CInv

\* In step the handler has every field as the machine has it.
LEMMA InStepKnows ==
  ASSUME CInv, C!InStep, NEW f \in C!Fields
  PROVE  raw[f] = machine[f]
<1>1. valuesTold /\ DOMAIN up = {} /\ DOMAIN down = {}
  BY DEF C!InStep
<1> QED BY <1>1 DEF CInv, Heard, RawKnown, UnderWay, Known

\* A command goes out, and what the handler holds is what it says or as before.
LEMMA CSendKeeps ==
  ASSUME CInv, NEW c \in CCommands, down' = Append(down, c),
         c.inStep => C!InStep /\ \A f \in DOMAIN c.fields : c.fields[f] # machine[f] => May(c, f),
         raw' \in [C!Fields -> 0 .. 8 \cup {None}],
         \A f \in C!Fields : raw'[f] \in Settable(f) \cup {None},
         \A f \in C!Fields : raw'[f] = raw[f] \/ (f \in DOMAIN c.fields /\ c.fields[f] = raw'[f]),
         model' = model, machine' = machine, up' = up, valuesTold' = valuesTold, shown' = shown
  PROVE  /\ CType' /\ Fits'
         /\ Heard' => RawKnown' /\ SettingsShown' /\ ModeShown'
<1> DEFINE n == Len(down)
<1>1. down \in Seq(CCommands)
  BY DEF CInv, CType
<1>2. /\ DOMAIN down = 1 .. n /\ n \in Nat /\ DOMAIN down' = 1 .. (n + 1)
      /\ \A i \in 1 .. n : down'[i] = down[i]
      /\ down'[n + 1] = c /\ down' \in Seq(CCommands)
      /\ down = <<>> => n = 0
  <2>1. down' \in Seq(CCommands)
    BY <1>1
  <2> QED BY <1>1, <2>1, AppendFacts
<1> HIDE DEF n
<1>3. CType'
  BY <1>2 DEF CInv, CType
<1>4. Fits'
  <2>1. ASSUME NEW i \in DOMAIN down', down'[i].inStep
        PROVE  i = 1 /\ \A f \in DOMAIN down'[i].fields :
                          down'[i].fields[f] # machine[f] => May(down'[i], f)
    <3>1. CASE i \in 1 .. n
      BY <1>2, <2>1, <3>1 DEF CInv, Fits
    <3>2. CASE i = n + 1
      <4>1. c.inStep /\ C!InStep
        BY <1>2, <2>1, <3>2
      <4>2. n = 0
        BY <1>2, <4>1 DEF C!InStep
      <4>3. i = 1
        BY <3>2, <4>2
      <4> QED BY <1>2, <2>1, <3>2, <4>1, <4>3
    <3> QED BY <1>2, <3>1, <3>2
  <2> QED BY <2>1 DEF Fits, May
<1>5. ASSUME NEW f \in C!Fields, Known(f)
      PROVE  Known(f)'
  <2>1. CASE raw'[f] = raw[f]
    BY <1>2, <1>5, <2>1 DEF Known
  <2>2. CASE f \in DOMAIN c.fields /\ c.fields[f] = raw'[f]
    <3>1. n + 1 \in DOMAIN down'
      BY <1>2
    <3> QED BY <1>2, <2>2, <3>1 DEF Known
  <2> QED BY <2>1, <2>2
<1>6. \A f : (Quiet(f)' <=> Quiet(f)) /\ (UnderWay(f)' <=> UnderWay(f))
  BY DEF Quiet, UnderWay
<1>7. Heard' => Heard
  BY DEF Heard
<1>8. RawKnown => RawKnown'
  BY <1>5, <1>6 DEF RawKnown
<1>9. SettingsShown => SettingsShown'
  BY <1>6 DEF SettingsShown
<1>10. ModeShown => ModeShown'
  <2>1. Ahead => Ahead'
    BY <1>2 DEF Ahead
  <2>2. C!MachineMode' = C!MachineMode /\ C!ModeIsNamed' = C!ModeIsNamed
    BY CSameModel
  <2> QED BY <1>6, <2>1, <2>2 DEF ModeShown
<1> QED BY <1>3, <1>4, <1>7, <1>8, <1>9, <1>10 DEF CInv

\* setProperty, with r for raw_clip_state: r is raw, but for the power that
\* the portable unit's modes set first.
LEMMA WriteDoes ==
  ASSUME CInv, NEW f \in C!Fields, NEW v \in Settable(f), NEW r,
         r = raw \/ (model = "POT" /\ f = "mode" /\ r = [raw EXCEPT !["power"] = 1]),
         C!Write(f, v, r),
         model' = model, machine' = machine, up' = up, valuesTold' = valuesTold, shown' = shown
  PROVE  /\ CType' /\ Fits'
         /\ Heard' => RawKnown' /\ SettingsShown' /\ ModeShown'
         /\ raw' = [r EXCEPT ![f] = v]
         /\ \E c \in CCommands :
              /\ down' = Append(down, c)
              /\ DOMAIN c.fields = C!Attach(f, v) \cap C!Fields
              /\ \A g \in DOMAIN c.fields : c.fields[g] = C!Byte(raw'[g])
<1> DEFINE s == [r EXCEPT ![f] = v]
           D == C!Attach(f, v) \cap C!Fields
           p == [g \in D |-> C!Byte(s[g])]
           c == [fields |-> p, for |-> f, inStep |-> C!InStep]
<1>1. raw \in [C!Fields -> 0 .. 8 \cup {None}] /\ \A g \in C!Fields : raw[g] \in Settable(g) \cup {None}
  BY DEF CInv, CType
<1>2. raw' = s /\ down' = Append(down, c)
  BY <1>1 DEF C!Write, C!Send
<1>3. v \in 0 .. 8 /\ v # None
  BY SettableIsByte
<1>4. /\ r \in [C!Fields -> 0 .. 8 \cup {None}] /\ \A g \in C!Fields : r[g] \in Settable(g) \cup {None}
      /\ \A g \in C!Fields : r[g] = raw[g] \/ (model = "POT" /\ f = "mode" /\ g = "power" /\ r[g] = 1)
  <2>1. CASE r = raw
    BY <1>1, <2>1
  <2>2. CASE model = "POT" /\ f = "mode" /\ r = [raw EXCEPT !["power"] = 1]
    <3>1. 1 \in Settable("power") /\ 1 \in 0 .. 8
      BY CFieldsAre DEF Settable
    <3> QED BY <1>1, <2>2, <3>1, CFieldsAre
  <2> QED BY <2>1, <2>2
<1>5. /\ s \in [C!Fields -> 0 .. 8 \cup {None}] /\ \A g \in C!Fields : s[g] \in Settable(g) \cup {None}
      /\ s[f] = v /\ \A g \in C!Fields : g # f => s[g] = r[g]
  BY <1>3, <1>4
<1> HIDE DEF s
<1>6. \A g \in C!Fields : C!Byte(s[g]) \in Settable(g) /\ C!Byte(s[g]) \in 0 .. 8
  <2> SUFFICES ASSUME NEW g \in C!Fields
               PROVE  C!Byte(s[g]) \in Settable(g)
    BY SettableIsByte
  <2>1. 0 \in Settable(g)
    BY DEF Settable
  <2> QED BY <1>5, <2>1 DEF C!Byte
<1>7. p \in Parts /\ DOMAIN p = D /\ \A g \in D : p[g] = C!Byte(s[g])
  <2>1. D \in SUBSET C!Fields /\ p \in [D -> 0 .. 8] /\ \A g \in D : p[g] \in Settable(g)
    BY <1>6
  <2> HIDE DEF D
  <2>2. DOMAIN p = D /\ \A g \in D : p[g] = C!Byte(s[g])
    OBVIOUS
  <2> HIDE DEF p
  <2> QED BY <2>1, <2>2, PartMade
<1>8. \A g \in D : g \in C!Fields
  OBVIOUS
<1>9. f \in D
  BY DEF C!Attach
<1>10. model = "POT" /\ f = "mode" => "power" \in D
  BY CFieldsAre DEF C!Attach, C!AttachPOT
<1> HIDE DEF p, D
<1>11. c \in CCommands /\ c.fields = p /\ c.for = f /\ c.inStep = C!InStep
  <2>1. C!InStep \in BOOLEAN
    BY DEF C!InStep, CInv, CType
  <2> QED BY <1>7, <2>1 DEF CCommands
<1> HIDE DEF c
<1>12. ASSUME NEW g \in C!Fields
       PROVE  raw'[g] = raw[g] \/ (g \in DOMAIN c.fields /\ c.fields[g] = raw'[g])
  <2>1. CASE g = f
    BY <1>2, <1>3, <1>5, <1>7, <1>9, <1>11, <2>1 DEF C!Byte
  <2>2. CASE g # f
    <3>1. raw'[g] = r[g]
      BY <1>2, <1>5, <2>2
    <3>2. CASE r[g] = raw[g]
      BY <3>1, <3>2
    <3>3. CASE model = "POT" /\ f = "mode" /\ g = "power" /\ r[g] = 1
      <4>1. g \in D /\ p[g] = C!Byte(s[g]) /\ s[g] = 1
        BY <1>5, <1>7, <1>10, <2>2, <3>3
      <4>2. 1 # None
        BY NoneIsNoByte
      <4>3. C!Byte(s[g]) = s[g]
        BY <4>1, <4>2 DEF C!Byte
      <4> QED BY <1>2, <1>7, <1>11, <4>1, <4>3
    <3> QED BY <1>4, <3>2, <3>3
  <2> QED BY <2>1, <2>2
<1>13. ASSUME c.inStep
       PROVE  C!InStep /\ \A g \in DOMAIN c.fields : c.fields[g] # machine[g] => May(c, g)
  <2>1. C!InStep
    BY <1>11, <1>13
  <2> SUFFICES ASSUME NEW g \in DOMAIN c.fields, ~May(c, g)
               PROVE  c.fields[g] = machine[g]
    BY <2>1
  <2>2. g \in C!Fields /\ g # f /\ c.fields[g] = C!Byte(s[g])
    BY <1>7, <1>8, <1>11 DEF May
  <2>3. r[g] = raw[g]
    BY <1>4, <1>11, <2>2 DEF May
  <2>4. s[g] = machine[g]
    BY <1>5, <2>1, <2>2, <2>3, InStepKnows
  <2>5. machine[g] # None
    BY <2>2, SettableIsByte DEF CInv, CType
  <2> QED BY <2>2, <2>4, <2>5 DEF C!Byte
<1>14. /\ raw' \in [C!Fields -> 0 .. 8 \cup {None}]
       /\ \A g \in C!Fields : raw'[g] \in Settable(g) \cup {None}
  BY <1>2, <1>5
<1>15. /\ CType' /\ Fits'
       /\ Heard' => RawKnown' /\ SettingsShown' /\ ModeShown'
  BY <1>2, <1>11, <1>12, <1>13, <1>14, CSendKeeps
<1>16. /\ DOMAIN c.fields = C!Attach(f, v) \cap C!Fields
       /\ \A g \in DOMAIN c.fields : c.fields[g] = C!Byte(raw'[g])
  BY <1>2, <1>7, <1>11 DEF D
<1> QED BY <1>2, <1>11, <1>15, <1>16 DEF s

LEMMA CSetPowerKeeps ==
  ASSUME CInv, NEW v \in {0, 1}, C!SetPower(v)
  PROVE  CInv'
<1>1. /\ C!Write("power", v, raw) /\ wish' = None
      /\ model' = model /\ machine' = machine /\ up' = up /\ valuesTold' = valuesTold /\ shown' = shown
  BY DEF C!SetPower
<1>2. v \in Settable("power")
  BY CFieldsAre DEF Settable
<1>3. CType' /\ Fits' /\ (Heard' => RawKnown' /\ SettingsShown' /\ ModeShown')
  BY <1>1, <1>2, CFieldsAre, WriteDoes
<1>4. Wished'
  BY <1>1 DEF Wished
<1> QED BY <1>3, <1>4 DEF CInv

\* Nothing under way brings another value than v.
Unopposed(f, v) ==
  /\ \A i \in DOMAIN down : f \in DOMAIN down[i].fields => down[i].fields[f] = v
  /\ \A i \in DOMAIN up : f \in DOMAIN up[i].fields => up[i].fields[f] = v

\* What a command that says no other value of f leaves of Bears and Brings.
LEMMA CSendBears ==
  ASSUME CInv, NEW c \in CCommands, down' = Append(down, c), up' = up
  PROVE  /\ \A f, v : /\ Unopposed(f, v) /\ raw'[f] = v
                      /\ f \in DOMAIN c.fields => c.fields[f] = v
                      => Bears(f, v)'
         /\ \A fs : Brings(fs) \/ fs \subseteq DOMAIN c.fields => Brings(fs)'
<1> DEFINE n == Len(down)
<1>1. down \in Seq(CCommands)
  BY DEF CInv, CType
<1>2. /\ DOMAIN down = 1 .. n /\ n \in Nat /\ DOMAIN down' = 1 .. (n + 1)
      /\ \A i \in 1 .. n : down'[i] = down[i]
      /\ down'[n + 1] = c
  BY <1>1, AppendFacts
<1> HIDE DEF n
<1>3. ASSUME NEW f, NEW v, Unopposed(f, v), raw'[f] = v, f \in DOMAIN c.fields => c.fields[f] = v
      PROVE  Bears(f, v)'
  <2>1. ASSUME NEW i \in DOMAIN down', f \in DOMAIN down'[i].fields
        PROVE  down'[i].fields[f] = v
    <3>1. CASE i \in 1 .. n
      BY <1>2, <1>3, <2>1, <3>1 DEF Unopposed
    <3>2. CASE i = n + 1
      BY <1>2, <1>3, <2>1, <3>2
    <3> QED BY <1>2, <3>1, <3>2
  <2> QED BY <1>3, <2>1 DEF Bears, Unopposed
<1>4. ASSUME NEW fs, Brings(fs) \/ fs \subseteq DOMAIN c.fields
      PROVE  Brings(fs)'
  <2>1. CASE Brings(fs)
    BY <1>2, <2>1 DEF Brings
  <2>2. CASE fs \subseteq DOMAIN c.fields
    <3>1. n + 1 \in DOMAIN down' /\ fs \subseteq DOMAIN down'[n + 1].fields
      BY <1>2, <2>2
    <3> QED BY <3>1 DEF Brings
  <2> QED BY <1>4, <2>1, <2>2
<1> QED BY <1>3, <1>4

LEMMA CSetSettingKeeps ==
  ASSUME CInv, NEW f \in Settings, NEW v \in {2, 6}, C!SetSetting(f, v)
  PROVE  CInv'
<1>1. /\ C!Write(f, v, raw) /\ wish' = wish
      /\ model' = model /\ machine' = machine /\ up' = up /\ valuesTold' = valuesTold /\ shown' = shown
  BY DEF C!SetSetting
<1>2. v \in Settable(f) /\ f \in C!Fields
  BY CFieldsAre DEF Settable
<1>3. /\ CType' /\ Fits' /\ (Heard' => RawKnown' /\ SettingsShown' /\ ModeShown')
      /\ raw' = [raw EXCEPT ![f] = v]
      /\ \E c \in CCommands :
           /\ down' = Append(down, c)
           /\ DOMAIN c.fields = C!Attach(f, v) \cap C!Fields
           /\ \A g \in DOMAIN c.fields : c.fields[g] = C!Byte(raw'[g])
  BY <1>1, <1>2, WriteDoes
<1>4. raw \in [C!Fields -> 0 .. 8 \cup {None}]
  BY DEF CInv, CType
<1>5. raw'["power"] = raw["power"] /\ raw'["mode"] = raw["mode"]
  BY <1>3, <1>4, CFieldsAre
<1>6. PICK c \in CCommands :
        /\ down' = Append(down, c)
        /\ DOMAIN c.fields = C!Attach(f, v) \cap C!Fields
        /\ \A g \in DOMAIN c.fields : c.fields[g] = C!Byte(raw'[g])
  BY <1>3
<1>7. ASSUME model = "POT"
      PROVE  "power" \notin DOMAIN c.fields
  BY <1>6, <1>7, CFieldsAre DEF C!Attach, C!AttachPOT
<1>8. /\ \A g, w : /\ Unopposed(g, w) /\ raw'[g] = w
                   /\ g \in DOMAIN c.fields => c.fields[g] = w
                   => Bears(g, w)'
      /\ \A fs : Brings(fs) \/ fs \subseteq DOMAIN c.fields => Brings(fs)'
  BY <1>1, <1>6, CSendBears
<1>9. \A w : raw["mode"] = w /\ w # None /\ "mode" \in DOMAIN c.fields => c.fields["mode"] = w
  BY <1>5, <1>6 DEF C!Byte
<1>10. Wished'
  <2> SUFFICES ASSUME wish # None, model = "POT"
               PROVE  valuesTold /\ (WishedOff' \/ \E k \in DOMAIN C!ModeNames : WishedMode(k)')
    BY <1>1, CSameModel DEF Wished
  <2>1. valuesTold /\ (WishedOff \/ \E k \in DOMAIN C!ModeNames : WishedMode(k))
    BY DEF CInv, Wished
  <2>2. \A w : Bears("power", w) => Bears("power", w)'
    BY <1>5, <1>7, <1>8 DEF Bears, Unopposed
  <2>3. \A w : Bears("mode", w) /\ w # None => Bears("mode", w)'
    BY <1>5, <1>8, <1>9 DEF Bears, Unopposed
  <2>4. CASE WishedOff
    BY <1>1, <1>8, <2>1, <2>2, <2>4 DEF WishedOff
  <2>5. ASSUME NEW k \in DOMAIN C!ModeNames, WishedMode(k)
        PROVE  WishedMode(k)'
    <3>1. k # None
      BY NamesAreWords, NoneIsNoByte DEF CInv, CType
    <3>2. Bears("power", 1)' /\ Bears("mode", k)'
      BY <2>2, <2>3, <2>5, <3>1 DEF WishedMode
    <3>3. Brings({"power", "mode"}) => Brings({"power", "mode"})'
      BY <1>8
    <3> QED BY <1>1, <2>5, <3>2, <3>3, CSameModel DEF WishedMode
  <2> QED BY <2>1, <2>4, <2>5
<1> QED BY <1>3, <1>10 DEF CInv

\* The window unit's mode 'off' does nothing; the portable unit's writes the
\* power alone.
LEMMA CModeOffKeeps ==
  ASSUME CInv, C!SetMode("off")
  PROVE  CInv'
<1>1. /\ IF model = "POT" THEN C!WriteModePOT("off") ELSE C!WriteModeWIN("off")
      /\ wish' = IF C!InStep THEN "off" ELSE None
      /\ model' = model /\ machine' = machine /\ up' = up /\ valuesTold' = valuesTold /\ shown' = shown
  BY DEF C!SetMode
<1>2. /\ raw \in [C!Fields -> 0 .. 8 \cup {None}] /\ \A g \in C!Fields : raw[g] \in Settable(g) \cup {None}
      /\ C!InStep \in BOOLEAN
  BY DEF CInv, CType, C!InStep
<1>3. CASE model # "POT"
  <2>1. raw' = raw /\ down' = down
    BY <1>1, <1>3 DEF C!WriteModeWIN
  <2>2. CType'
    BY <1>1, <2>1 DEF CInv, CType
  <2>3. Fits' /\ Wished'
    BY <1>1, <1>3, <2>1 DEF CInv, Fits, May, Wished
  <2>4. /\ Heard' <=> Heard
        /\ RawKnown => RawKnown'
        /\ SettingsShown => SettingsShown'
    BY <1>1, <2>1 DEF Heard, RawKnown, Known, UnderWay, Quiet, SettingsShown
  <2>5. ModeShown => ModeShown'
    <3>1. Ahead' <=> Ahead
      BY <1>1, <2>1 DEF Ahead
    <3>2. \A f : Quiet(f)' <=> Quiet(f)
      BY <1>1 DEF Quiet
    <3> QED BY <1>1, <3>1, <3>2, CSameModel DEF ModeShown
  <2> QED BY <2>2, <2>3, <2>4, <2>5 DEF CInv
<1>4. CASE model = "POT"
  <2> DEFINE p == [f \in {"power"} |-> 0]
             c == [fields |-> p, for |-> "mode", inStep |-> C!InStep]
  <2>1. raw' = [raw EXCEPT !["power"] = 0] /\ down' = Append(down, c)
    BY <1>1, <1>4 DEF C!WriteModePOT, C!Send
  <2>2. 0 \in Settable("power") /\ {"power"} \in SUBSET C!Fields
    BY CFieldsAre DEF Settable
  <2>3. DOMAIN p = {"power"} /\ p["power"] = 0
    OBVIOUS
  <2>4. p \in Parts
    <3>1. p \in [{"power"} -> 0 .. 8] /\ \A f \in {"power"} : p[f] \in Settable(f)
      BY <2>2
    <3> HIDE DEF p
    <3> QED BY <2>2, <3>1, PartMade
  <2> HIDE DEF p
  <2>5. c \in CCommands /\ c.fields = p /\ c.for = "mode" /\ c.inStep = C!InStep
    BY <1>2, <2>4, CFieldsAre DEF CCommands
  <2> HIDE DEF c
  <2>6. /\ raw' \in [C!Fields -> 0 .. 8 \cup {None}]
        /\ \A f \in C!Fields : raw'[f] \in Settable(f) \cup {None}
        /\ raw'["power"] = 0
        /\ \A f \in C!Fields : f # "power" => raw'[f] = raw[f]
    BY <1>2, <2>1, <2>2, CFieldsAre
  <2>7. \A f \in C!Fields : raw'[f] = raw[f] \/ (f \in DOMAIN c.fields /\ c.fields[f] = raw'[f])
    BY <2>3, <2>5, <2>6
  <2>8. c.inStep => C!InStep /\ \A f \in DOMAIN c.fields : c.fields[f] # machine[f] => May(c, f)
    BY <1>4, <2>3, <2>5 DEF May
  <2>9. CType' /\ Fits' /\ (Heard' => RawKnown' /\ SettingsShown' /\ ModeShown')
    BY <1>1, <2>1, <2>5, <2>6, <2>7, <2>8, CSendKeeps
  <2>10. Wished'
    <3> SUFFICES ASSUME C!InStep
                 PROVE  valuesTold' /\ WishedOff'
      BY <1>1 DEF Wished
    <3>1. valuesTold /\ up = <<>> /\ down = <<>>
      BY DEF C!InStep
    <3>2. Unopposed("power", 0)
      BY <3>1 DEF Unopposed
    <3>3. Bears("power", 0)' /\ Brings({"power"})'
      BY <1>1, <2>1, <2>3, <2>5, <2>6, <3>2, CSendBears
    <3> QED BY <1>1, <3>1, <3>3 DEF WishedOff
  <2> QED BY <2>9, <2>10 DEF CInv
<1> QED BY <1>3, <1>4

LEMMA CModeOnKeeps ==
  ASSUME CInv, NEW m, m # "off", C!SetMode(m)
  PROVE  CInv'
<1>1. /\ IF model = "POT" THEN C!WriteModePOT(m) ELSE C!WriteModeWIN(m)
      /\ wish' = IF C!InStep THEN m ELSE None
      /\ model' = model /\ machine' = machine /\ up' = up /\ valuesTold' = valuesTold /\ shown' = shown
  BY DEF C!SetMode
<1>2. PICK k \in DOMAIN C!ModeNames, r \in {raw, [raw EXCEPT !["power"] = 1]} :
        /\ C!ModeNames[k] = m /\ C!Write("mode", k, r)
        /\ r = IF model = "POT" THEN [raw EXCEPT !["power"] = 1] ELSE raw
  <2>1. CASE model = "POT"
    BY <1>1, <2>1 DEF C!WriteModePOT
  <2>2. CASE model # "POT"
    BY <1>1, <2>2 DEF C!WriteModeWIN
  <2> QED BY <2>1, <2>2
<1>3. k \in Settable("mode") /\ k # None /\ 1 # None
  <2>1. k \in 0 .. 8
    BY NamesAreWords DEF CInv, CType
  <2> QED BY <2>1, NoneIsNoByte, CFieldsAre DEF Settable
<1>4. r = raw \/ (model = "POT" /\ "mode" = "mode" /\ r = [raw EXCEPT !["power"] = 1])
  BY <1>2
<1>5. /\ CType' /\ Fits' /\ (Heard' => RawKnown' /\ SettingsShown' /\ ModeShown')
      /\ raw' = [r EXCEPT !["mode"] = k]
      /\ \E c \in CCommands :
           /\ down' = Append(down, c)
           /\ DOMAIN c.fields = C!Attach("mode", k) \cap C!Fields
           /\ \A g \in DOMAIN c.fields : c.fields[g] = C!Byte(raw'[g])
  BY <1>1, <1>2, <1>3, <1>4, CFieldsAre, WriteDoes
<1>6. PICK c \in CCommands :
        /\ down' = Append(down, c)
        /\ DOMAIN c.fields = C!Attach("mode", k) \cap C!Fields
        /\ \A g \in DOMAIN c.fields : c.fields[g] = C!Byte(raw'[g])
  BY <1>5
<1>7. Wished'
  <2> SUFFICES ASSUME C!InStep, model = "POT"
               PROVE  valuesTold' /\ WishedMode(k)'
    BY <1>1, <1>2, CSameModel DEF Wished
  <2>1. valuesTold /\ up = <<>> /\ down = <<>>
    BY DEF C!InStep
  <2>2. raw'["power"] = 1 /\ raw'["mode"] = k
    <3>1. raw \in [C!Fields -> 0 .. 8 \cup {None}]
      BY DEF CInv, CType
    <3> QED BY <1>2, <1>5, <3>1, CFieldsAre
  <2>3. "power" \in DOMAIN c.fields /\ "mode" \in DOMAIN c.fields
    BY <1>6, CFieldsAre DEF C!Attach, C!AttachPOT
  <2>4. c.fields["power"] = 1 /\ c.fields["mode"] = k
    BY <1>3, <1>6, <2>2, <2>3 DEF C!Byte
  <2>5. Unopposed("power", 1) /\ Unopposed("mode", k)
    BY <2>1 DEF Unopposed
  <2>6. Bears("power", 1)' /\ Bears("mode", k)' /\ Brings({"power", "mode"})'
    BY <1>1, <1>6, <2>2, <2>3, <2>4, <2>5, CSendBears
  <2>7. wish' = C!ModeNames'[k]
    BY <1>1, <1>2, CSameModel
  <2> QED BY <1>1, <2>1, <2>6, <2>7 DEF WishedMode
<1> QED BY <1>5, <1>7 DEF CInv

LEMMA CNextKeeps ==
  ASSUME CInv, C!Next
  PROVE  CInv'
<1>1. CASE C!ProcessTLV \/ C!NewHandler \/ C!AnswerQuery \/ C!Receive
  BY <1>1, CProcessKeeps, CNewHandlerKeeps, CAnswerKeeps, CReceiveKeeps
<1>2. ASSUME NEW m, C!SetMode(m)
      PROVE  CInv'
  BY <1>2, CModeOffKeeps, CModeOnKeeps
<1>3. ASSUME NEW v \in {0, 1}, C!SetPower(v)
      PROVE  CInv'
  BY <1>3, CSetPowerKeeps
<1>4. ASSUME NEW f \in Settings, NEW v \in {2, 6}, C!SetSetting(f, v)
      PROVE  CInv'
  BY <1>4, CSetSettingKeeps
<1>5. ASSUME NEW f \in C!Fields, NEW v \in C!Codes(f), C!Operated(f, v)
      PROVE  CInv'
  BY <1>5, COperatedKeeps
<1> QED BY <1>1, <1>2, <1>3, <1>4, <1>5 DEF C!Next

LEMMA CStutterKeeps ==
  ASSUME CInv, UNCHANGED C!vars
  PROVE  CInv'
<1>1. /\ model' = model /\ machine' = machine /\ down' = down /\ up' = up /\ raw' = raw
      /\ valuesTold' = valuesTold /\ shown' = shown /\ wish' = wish
  BY DEF C!vars
<1>2. CType' /\ Fits'
  BY <1>1 DEF CInv, CType, Fits, May
<1>3. /\ \A f : (Quiet(f)' <=> Quiet(f)) /\ (UnderWay(f)' <=> UnderWay(f)) /\ (Known(f)' <=> Known(f))
      /\ Heard' <=> Heard
      /\ Ahead' <=> Ahead
  BY <1>1 DEF Quiet, UnderWay, Known, Heard, Ahead
<1>4. Heard' => RawKnown' /\ SettingsShown' /\ ModeShown'
  BY <1>1, <1>3, CSameModel DEF CInv, RawKnown, SettingsShown, ModeShown
<1>5. Wished'
  <2>1. \A f, v : Bears(f, v)' <=> Bears(f, v)
    BY <1>1 DEF Bears
  <2>2. \A fs : Brings(fs)' <=> Brings(fs)
    BY <1>1 DEF Brings
  <2>3. WishedOff' <=> WishedOff
    BY <1>1, <2>1, <2>2 DEF WishedOff
  <2>4. \A c : WishedMode(c)' <=> WishedMode(c)
    BY <1>1, <2>1, <2>2, CSameModel DEF WishedMode
  <2> QED BY <1>1, <2>3, <2>4, CSameModel DEF CInv, Wished
<1> QED BY <1>2, <1>4, <1>5 DEF CInv

LEMMA CInitHolds ==
  ASSUME C!Init
  PROVE  CInv
<1>1. /\ model \in Models /\ machine \in [C!Fields -> 0 .. 8]
      /\ \A f \in C!Fields : machine[f] \in C!Codes(f)
      /\ down = <<>> /\ up = <<>> /\ raw = [f \in C!Fields |-> None] /\ valuesTold = FALSE
      /\ shown = [f \in C!Fields \ {"power"} |-> None] /\ wish = None
  BY DEF C!Init
<1>2. ASSUME NEW f \in C!Fields
      PROVE  machine[f] \in Settable(f)
  <2>1. CASE f \in Settings
    <3>1. f # "power" /\ f # "mode"
      BY <2>1, CFieldsAre
    <3>2. C!Codes(f) = {2, 6}
      BY <3>1 DEF C!Codes
    <3> QED BY <1>1, <2>1, <3>2 DEF Settable
  <2>2. CASE f \notin Settings
    BY <1>1, <2>2 DEF Settable
  <2> QED BY <2>1, <2>2
<1>3. raw \in [C!Fields -> 0 .. 8 \cup {None}] /\ \A f \in C!Fields : raw[f] \in Settable(f) \cup {None}
  BY <1>1
<1>4. shown \in [C!Fields \ {"power"} -> Shows]
  BY <1>1 DEF Shows
<1>5. up \in Seq(Reports) /\ down \in Seq(CCommands)
  BY <1>1
<1>6. CType
  <2>1. valuesTold \in BOOLEAN
    BY <1>1
  <2> QED BY <1>1, <1>2, <1>3, <1>4, <1>5, <2>1 DEF CType
<1>7. ~Heard /\ Fits /\ Wished
  BY <1>1 DEF Heard, Fits, Wished
<1> QED BY <1>6, <1>7 DEF CInv

UnitsInv == model \in Models => CInv

LEMMA UnitsInvInductive ==
  /\ MCInit => UnitsInv
  /\ UnitsInv /\ [MCNext]_<<shared, own>> => UnitsInv'
<1>1. ASSUME MCInit, model \in Models
      PROVE  CInv
  <2>1. ~W!Init /\ ~F!Init
    BY <1>1, AppliancesAssumption DEF W!Init, F!Init
  <2> QED BY <1>1, <2>1, CInitHolds DEF MCInit
<1>2. ASSUME model \in Models => CInv, [MCNext]_<<shared, own>>, model' \in Models
      PROVE  CInv'
  <2>1. model' = model
    BY <1>2, ModelStays DEF shared
  <2>2. CInv
    BY <1>2, <2>1
  <2>3. CASE C!Next
    BY <2>2, <2>3, CNextKeeps
  <2>4. CASE ~C!Next
    <3>1. UNCHANGED <<shared, own>>
      BY <1>2, <2>1, <2>4, AppliancesAssumption DEF MCNext
    <3>2. UNCHANGED C!vars
      BY <3>1 DEF shared, own, C!vars
    <3> QED BY <2>2, <3>2, CStutterKeeps
  <2> QED BY <2>3, <2>4
<1> QED BY <1>1, <1>2 DEF UnitsInv

LEMMA UnitsShow ==
  ASSUME CInv
  PROVE  C!SettledAgrees /\ C!AskedModeIsSet
<1>1. ASSUME C!InStep
      PROVE  /\ valuesTold /\ up = <<>> /\ down = <<>>
             /\ \A f : Quiet(f)
             /\ Heard /\ ~Ahead /\ \A fs : ~Brings(fs)
  BY <1>1 DEF C!InStep, Quiet, Heard, Ahead, Brings
<1>2. C!SettledAgrees
  <2> SUFFICES ASSUME C!InStep
               PROVE  /\ C!ModeIsNamed => shown["mode"] = C!MachineMode
                      /\ \A f \in Settings : machine[f] # 0 => shown[f] = machine[f]
    BY DEF C!SettledAgrees
  <2>1. SettingsShown /\ ModeShown
    BY <1>1 DEF CInv
  <2> QED BY <1>1, <2>1 DEF SettingsShown, ModeShown
<1>3. C!AskedModeIsSet
  <2> SUFFICES ASSUME model = "POT", C!InStep, wish # None
               PROVE  C!MachineMode = wish
    BY DEF C!AskedModeIsSet, C!ModeIsSet
  <2>1. WishedOff \/ \E c \in DOMAIN C!ModeNames : WishedMode(c)
    BY DEF CInv, Wished
  <2>2. CASE WishedOff
    BY <1>1, <2>2 DEF WishedOff, C!MachineMode
  <2>3. ASSUME NEW c \in DOMAIN C!ModeNames, WishedMode(c)
        PROVE  C!MachineMode = wish
    BY <1>1, <2>3 DEF WishedMode, C!MachineMode
  <2> QED BY <2>1, <2>2, <2>3
<1> QED BY <1>2, <1>3

LEMMA UnitsInvHolds == MCSpec => []UnitsInv
BY UnitsInvInductive, PTL DEF MCSpec

\* However reports of power and mode follow each other, and whatever is asked
\* and set by hand meanwhile, a portable or window unit in step is shown in
\* the mode it runs in and with its settings.
THEOREM UnitsAreShown == MCSpec => [](model \in Models => C!SettledAgrees)
<1>1. UnitsInv => (model \in Models => C!SettledAgrees)
  BY UnitsShow DEF UnitsInv
<1> QED BY <1>1, UnitsInvHolds, PTL

\* The mode last chosen, with nothing to overtake it, is the one a portable
\* unit is then in (modes2clip and write_attach of POT_056905_WW.ts).
THEOREM AskedModesAreSet == MCSpec => [](model \in Models => C!AskedModeIsSet)
<1>1. UnitsInv => (model \in Models => C!AskedModeIsSet)
  BY UnitsShow DEF UnitsInv
<1> QED BY <1>1, UnitsInvHolds, PTL

\* setProperty sends, beside what was asked, the values it holds of others:
\* sent in step these are the machine's, so nothing else changes.
THEOREM OnlyTheAskedAlwaysChanges == MCSpec => OnlyTheAskedChanges
<1> DEFINE Body ==
      down # <<>> /\ model \in Models /\ Len(down') < Len(down) /\ machine' # machine /\ Head(down).inStep
        => \A f \in DOMAIN machine :
             machine'[f] # machine[f]
               => f = Head(down).for \/ (Head(down).for = "mode" /\ f = "power" /\ model = "POT")
<1>1. UnitsInv /\ [MCNext]_<<shared, own>> => [Body]_C!vars
  <2> SUFFICES ASSUME UnitsInv, [MCNext]_<<shared, own>>,
                      down # <<>>, model \in Models, Len(down') < Len(down), machine' # machine,
                      Head(down).inStep,
                      NEW f \in DOMAIN machine, machine'[f] # machine[f]
               PROVE  f = Head(down).for \/ (Head(down).for = "mode" /\ f = "power" /\ model = "POT")
    OBVIOUS
  <2>1. C!Next
    BY Apart DEF MCNext, shared
  <2>2. CInv /\ down \in Seq(CCommands)
    BY DEF UnitsInv, CInv, CType
  <2>3. C!Receive
    <3>1. ASSUME NEW g, NEW v, C!Operated(g, v)
          PROVE  FALSE
      <4>1. down' = [i \in DOMAIN down |-> [down[i] EXCEPT !.inStep = FALSE]]
        BY <3>1 DEF C!Operated
      <4>2. DOMAIN down = 1 .. Len(down) /\ Len(down) \in Nat
        BY <2>2
      <4>3. Len(down') = Len(down)
        BY <4>1, <4>2
      <4> QED BY <4>2, <4>3
    <3> QED BY <2>1, <3>1 DEF C!Next, C!ProcessTLV, C!NewHandler, C!AnswerQuery, C!SetMode, C!SetPower,
               C!SetSetting
  <2>4. f \in DOMAIN Head(down).fields /\ Head(down).fields[f] # machine[f]
    BY <2>3 DEF C!Receive, C!Becomes
  <2>5. 1 \in DOMAIN down /\ down[1] = Head(down)
    BY <2>2
  <2>6. May(Head(down), f)
    BY <2>2, <2>4, <2>5 DEF CInv, Fits
  <2> QED BY <2>6 DEF May
<1> QED BY <1>1, UnitsInvHolds, PTL DEF MCSpec, OnlyTheAskedChanges, C!OnlyTheAskedChanges

-----------------------------------------------------------------------------
(* Refrigerators.  Their conversions.                                      *)

UnitNames == {"C", "F"}

LEMMA MaxIs ==
  ASSUME NEW S \in SUBSET Int, NEW m \in S, \A y \in S : m >= y
  PROVE  F!Max(S) = m
<1> DEFINE x == CHOOSE x \in S : \A y \in S : x >= y
<1>1. x \in S /\ \A y \in S : x >= y
  OBVIOUS
<1>2. F!Max(S) = x
  BY DEF F!Max
<1> HIDE DEF x
<1>3. x = m
  BY <1>1
<1> QED BY <1>2, <1>3

LEMMA MinIs ==
  ASSUME NEW S \in SUBSET Int, NEW m \in S, \A y \in S : m <= y
  PROVE  F!Min(S) = m
<1> DEFINE x == CHOOSE x \in S : \A y \in S : x <= y
<1>1. x \in S /\ \A y \in S : x <= y
  OBVIOUS
<1>2. F!Min(S) = x
  BY DEF F!Min
<1> HIDE DEF x
<1>3. x = m
  BY <1>1
<1> QED BY <1>2, <1>3

LEMMA FreezerTable ==
  ASSUME NEW r \in 1 .. 15
  PROVE  F!FromFreezerFWC("F", r) =
           IF r = 11 THEN -3 ELSE IF r = 12 THEN -7 ELSE IF r = 13 THEN -12
           ELSE IF r = 14 THEN -15 ELSE IF r = 15 THEN -17 ELSE 8 - r
<1>1. F!FromFreezerFWC("F", r) = <<7, 7, 6, 5, 4, 3, 2, 1, 0, -1, -2, -3, -7, -12, -15, -17>>[r + 1]
  BY DEF F!FromFreezerFWC
<1>2. r \in {1, 2, 3, 4, 5, 6, 7, 8, 9, 10, 11, 12, 13, 14, 15}
  OBVIOUS
<1> QED BY <1>1, <1>2

\* The bytes of each kind of setpoint have a least and a greatest one.
LEMMA BytesEnds ==
  ASSUME model \in Fridges, setpoint \in Setpoints, NEW k \in {0, 1}, model = "EBIVPC4" => k = 1
  PROVE  \E lo, hi \in F!Bytes(k) : \A r \in F!Bytes(k) : lo <= r /\ r <= hi
<1> DEFINE u == F!Unit(k)
<1>1. u = (IF k = 1 THEN "C" ELSE "F") /\ setpoint \in {"fridge", "freezer"}
  BY AppliancesAssumption DEF F!Unit
<1>2. \A r : r \in F!Bytes(k) <=> r \in 1 .. 15 /\ \E x \in F!HaRange(u) : F!Decode(u, r) = 2 * x
  BY DEF F!Bytes
<1>3. CASE model = "EBIVPC4" /\ setpoint = "fridge"
  <2>1. \A r \in 1 .. 15 : F!Decode(u, r) = 13 - r
    BY <1>3 DEF F!Decode, F!DecodeEBI
  <2>2. F!HaRange(u) = 1 .. 7
    BY <1>1, <1>3 DEF F!HaRange, F!FridgeRange
  <2> HIDE DEF u
  <2>3. 1 \in F!Bytes(k) /\ 11 \in F!Bytes(k) /\ \A r \in F!Bytes(k) : 1 <= r /\ r <= 11
    BY <1>2, <2>1, <2>2
  <2> QED BY <2>3
<1>4. CASE model = "EBIVPC4" /\ setpoint # "fridge"
  <2>1. \A r \in 1 .. 15 : F!Decode(u, r) = -(r + 29)
    BY <1>4 DEF F!Decode, F!DecodeEBI
  <2>2. F!HaRange(u) = -23 .. -15
    BY <1>1, <1>4 DEF F!HaRange, F!FreezerRange
  <2> HIDE DEF u
  <2>3. -15 \in F!HaRange(u) /\ -22 \in F!HaRange(u)
    BY <2>2
  <2>4. F!Decode(u, 1) = 2 * (-15) /\ F!Decode(u, 15) = 2 * (-22)
    BY <2>1
  <2>5. 1 \in F!Bytes(k) /\ 15 \in F!Bytes(k) /\ \A r \in F!Bytes(k) : 1 <= r /\ r <= 15
    BY <1>2, <2>3, <2>4
  <2> QED BY <2>5
<1>5. CASE model = "600FWC" /\ setpoint = "fridge" /\ k = 1
  <2>1. \A r \in 1 .. 15 : F!Decode(u, r) = 2 * (8 - r)
    BY <1>1, <1>5 DEF F!Decode, F!ConvertFridgeFWC
  <2>2. F!HaRange(u) = 1 .. 7
    BY <1>1, <1>5 DEF F!HaRange, F!FridgeRangeFWC
  <2> HIDE DEF u
  <2>3. 7 \in F!HaRange(u) /\ 1 \in F!HaRange(u)
    BY <2>2
  <2>4. F!Decode(u, 1) = 2 * 7 /\ F!Decode(u, 7) = 2 * 1
    BY <2>1
  <2>5. 1 \in F!Bytes(k) /\ 7 \in F!Bytes(k) /\ \A r \in F!Bytes(k) : 1 <= r /\ r <= 7
    BY <1>2, <2>1, <2>2, <2>3, <2>4
  <2> QED BY <2>5
<1>6. CASE model = "600FWC" /\ setpoint = "fridge" /\ k # 1
  <2>1. \A r \in 1 .. 15 : F!Decode(u, r) = 2 * (47 - r)
    BY <1>1, <1>6 DEF F!Decode, F!ConvertFridgeFWC
  <2>2. F!HaRange(u) = 33 .. 46
    BY <1>1, <1>6 DEF F!HaRange, F!FridgeRangeFWC
  <2> HIDE DEF u
  <2>3. 46 \in F!HaRange(u) /\ 33 \in F!HaRange(u)
    BY <2>2
  <2>4. F!Decode(u, 1) = 2 * 46 /\ F!Decode(u, 14) = 2 * 33
    BY <2>1
  <2>5. 1 \in F!Bytes(k) /\ 14 \in F!Bytes(k) /\ \A r \in F!Bytes(k) : 1 <= r /\ r <= 14
    BY <1>2, <2>1, <2>2, <2>3, <2>4
  <2> QED BY <2>5
<1>7. CASE model = "600FWC" /\ setpoint # "fridge" /\ k = 1
  <2>1. \A r \in 1 .. 15 : F!Decode(u, r) = 2 * (-13 - r)
    BY <1>1, <1>7 DEF F!Decode, F!FromFreezerFWC
  <2>2. F!HaRange(u) = -24 .. -14
    BY <1>1, <1>7 DEF F!HaRange, F!FreezerRangeFWC
  <2> HIDE DEF u
  <2>3. -14 \in F!HaRange(u) /\ -24 \in F!HaRange(u)
    BY <2>2
  <2>4. F!Decode(u, 1) = 2 * (-14) /\ F!Decode(u, 11) = 2 * (-24)
    BY <2>1
  <2>5. 1 \in F!Bytes(k) /\ 11 \in F!Bytes(k) /\ \A r \in F!Bytes(k) : 1 <= r /\ r <= 11
    BY <1>2, <2>1, <2>2, <2>3, <2>4
  <2> QED BY <2>5
<1>8. CASE model \notin {"EBIVPC4", "600FWC"} /\ setpoint = "fridge" /\ k = 1
  <2>1. \A r \in 1 .. 15 : F!Decode(u, r) = 2 * (8 - r)
    BY <1>1, <1>8 DEF F!Decode, F!ConvertFridge
  <2>2. F!HaRange(u) = 1 .. 7
    BY <1>1, <1>8 DEF F!HaRange, F!FridgeRange
  <2> HIDE DEF u
  <2>3. 7 \in F!HaRange(u) /\ 1 \in F!HaRange(u)
    BY <2>2
  <2>4. F!Decode(u, 1) = 2 * 7 /\ F!Decode(u, 7) = 2 * 1
    BY <2>1
  <2>5. 1 \in F!Bytes(k) /\ 7 \in F!Bytes(k) /\ \A r \in F!Bytes(k) : 1 <= r /\ r <= 7
    BY <1>2, <2>1, <2>2, <2>3, <2>4
  <2> QED BY <2>5
<1>9. CASE model \notin {"EBIVPC4", "600FWC"} /\ setpoint = "fridge" /\ k # 1
  <2>1. \A r \in 1 .. 15 : F!Decode(u, r) = 2 * (44 - r)
    BY <1>1, <1>9 DEF F!Decode, F!ConvertFridge
  <2>2. F!HaRange(u) = 33 .. 43
    BY <1>1, <1>9 DEF F!HaRange, F!FridgeRange
  <2> HIDE DEF u
  <2>3. 43 \in F!HaRange(u) /\ 33 \in F!HaRange(u)
    BY <2>2
  <2>4. F!Decode(u, 1) = 2 * 43 /\ F!Decode(u, 11) = 2 * 33
    BY <2>1
  <2>5. 1 \in F!Bytes(k) /\ 11 \in F!Bytes(k) /\ \A r \in F!Bytes(k) : 1 <= r /\ r <= 11
    BY <1>2, <2>1, <2>2, <2>3, <2>4
  <2> QED BY <2>5
<1>10. CASE model \notin {"EBIVPC4", "600FWC"} /\ setpoint # "fridge" /\ k = 1
  <2>1. \A r \in 1 .. 15 : F!Decode(u, r) = 2 * (-14 - r)
    BY <1>1, <1>10 DEF F!Decode, F!ConvertFreezer
  <2>2. F!HaRange(u) = -23 .. -15
    BY <1>1, <1>10 DEF F!HaRange, F!FreezerRange
  <2> HIDE DEF u
  <2>3. -15 \in F!HaRange(u) /\ -23 \in F!HaRange(u)
    BY <2>2
  <2>4. F!Decode(u, 1) = 2 * (-15) /\ F!Decode(u, 9) = 2 * (-23)
    BY <2>1
  <2>5. 1 \in F!Bytes(k) /\ 9 \in F!Bytes(k) /\ \A r \in F!Bytes(k) : 1 <= r /\ r <= 9
    BY <1>2, <2>1, <2>2, <2>3, <2>4
  <2> QED BY <2>5
<1>11. CASE model \notin {"EBIVPC4", "600FWC"} /\ setpoint # "fridge" /\ k # 1
  <2>1. \A r \in 1 .. 15 : F!Decode(u, r) = 2 * (6 - r)
    BY <1>1, <1>11 DEF F!Decode, F!ConvertFreezer
  <2>2. F!HaRange(u) = -7 .. 5
    BY <1>1, <1>11 DEF F!HaRange, F!FreezerRange
  <2> HIDE DEF u
  <2>3. 5 \in F!HaRange(u) /\ -7 \in F!HaRange(u)
    BY <2>2
  <2>4. F!Decode(u, 1) = 2 * 5 /\ F!Decode(u, 13) = 2 * (-7)
    BY <2>1
  <2>5. 1 \in F!Bytes(k) /\ 13 \in F!Bytes(k) /\ \A r \in F!Bytes(k) : 1 <= r /\ r <= 13
    BY <1>2, <2>1, <2>2, <2>3, <2>4
  <2> QED BY <2>5
<1>12. CASE model = "600FWC" /\ setpoint # "fridge" /\ k # 1
  <2>1. \A r \in 1 .. 15 : F!Decode(u, r) = 2 * F!FromFreezerFWC("F", r)
    BY <1>1, <1>12 DEF F!Decode
  <2>2. F!HaRange(u) = -17 .. 7
    BY <1>1, <1>12 DEF F!HaRange, F!FreezerRangeFWC
  <2>3. F!FromFreezerFWC("F", 1) = 7 /\ F!FromFreezerFWC("F", 15) = -17
    BY FreezerTable
  <2> HIDE DEF u
  <2>4. 7 \in F!HaRange(u) /\ -17 \in F!HaRange(u)
    BY <2>2
  <2>5. 1 \in F!Bytes(k) /\ 15 \in F!Bytes(k) /\ \A r \in F!Bytes(k) : 1 <= r /\ r <= 15
    BY <1>2, <2>1, <2>3, <2>4
  <2> QED BY <2>5
<1> QED BY <1>3, <1>4, <1>5, <1>6, <1>7, <1>8, <1>9, <1>10, <1>11, <1>12

LEMMA CornersAmong ==
  ASSUME model \in Fridges, setpoint \in Setpoints, NEW k \in {0, 1}, model = "EBIVPC4" => k = 1
  PROVE  F!Corners(F!Bytes(k)) \subseteq F!Bytes(k)
<1>1. PICK lo, hi \in F!Bytes(k) : \A r \in F!Bytes(k) : lo <= r /\ r <= hi
  BY BytesEnds
<1>2. F!Bytes(k) \in SUBSET Int
  BY DEF F!Bytes
<1> HIDE DEF F!Bytes
<1>3. F!Max(F!Bytes(k)) = hi
  BY <1>1, <1>2, MaxIs
<1>4. F!Min(F!Bytes(k)) = lo
  BY <1>1, <1>2, MinIs
<1> QED BY <1>3, <1>4 DEF F!Corners

\* Where every degree is a byte of its own the machine takes what is asked.
LEMMA ExactRight ==
  ASSUME NEW k, NEW x \in F!HaRange(F!Unit(k)), F!HaRange(F!Unit(k)) \subseteq Int,
         F!Representable(F!Unit(k)) = F!HaRange(F!Unit(k)),
         F!Encode(F!Unit(k), x) \in 1 .. 15,
         F!Decode(F!Unit(k), F!Encode(F!Unit(k), x)) = 2 * x
  PROVE  /\ F!Encode(F!Unit(k), x) \in F!Bytes(k)
         /\ F!Decode(F!Unit(k), F!Encode(F!Unit(k), x))
              = 2 * F!Max({y \in F!Representable(F!Unit(k)) : y <= x})
<1> DEFINE S == {y \in F!HaRange(F!Unit(k)) : y <= x}
<1>1. S \in SUBSET Int /\ x \in S /\ \A y \in S : x >= y
  OBVIOUS
<1> HIDE DEF S
<1>2. F!Max(S) = x
  BY <1>1, MaxIs
<1>3. F!Encode(F!Unit(k), x) \in F!Bytes(k)
  BY DEF F!Bytes
<1> QED BY <1>2, <1>3 DEF S

LEMMA FreezerByte ==
  ASSUME NEW x \in Int
  PROVE  F!ToFreezerFWC("F", x) =
           IF x < -15 THEN 15 ELSE IF x < -12 THEN 14 ELSE IF x < -7 THEN 13
           ELSE IF x < -3 THEN 12 ELSE 8 - x
BY DEF F!ToFreezerFWC

\* What is asked becomes the byte of the warmest value not warmer than it.
LEMMA EncodeRight ==
  ASSUME model \in Fridges, setpoint \in Setpoints, model # "EBIVPC4",
         NEW k \in {0, 1}, NEW x \in F!HaRange(F!Unit(k))
  PROVE  /\ F!Encode(F!Unit(k), x) \in F!Bytes(k)
         /\ F!Decode(F!Unit(k), F!Encode(F!Unit(k), x))
              = 2 * F!Max({y \in F!Representable(F!Unit(k)) : y <= x})
<1> DEFINE u == F!Unit(k)
<1>1. u = (IF k = 1 THEN "C" ELSE "F") /\ setpoint \in {"fridge", "freezer"}
  BY AppliancesAssumption DEF F!Unit
<1>2. ~(model = "600FWC" /\ setpoint = "freezer" /\ k # 1) => F!Representable(u) = F!HaRange(u)
  BY <1>1 DEF F!Representable
<1>3. CASE model = "600FWC" /\ setpoint = "fridge" /\ k = 1
  <2>1. F!HaRange(u) = 1 .. 7
    BY <1>1, <1>3 DEF F!HaRange, F!FridgeRangeFWC
  <2>2. x \in 1 .. 7
    BY <2>1
  <2>3. F!Encode(u, x) = (8 - x) % 256
    BY <1>1, <1>3 DEF F!Encode, F!Byte, F!ConvertFridgeFWC
  <2>4. F!Encode(u, x) = 8 - x /\ 8 - x \in 1 .. 15
    BY <2>2, <2>3
  <2>5. F!Decode(u, 8 - x) = 2 * (8 - (8 - x))
    BY <1>1, <1>3 DEF F!Decode, F!ConvertFridgeFWC
  <2>6. F!HaRange(u) \subseteq Int /\ F!Decode(u, F!Encode(u, x)) = 2 * x
    BY <2>1, <2>2, <2>4, <2>5
  <2> QED BY <1>2, <1>3, <2>4, <2>6, ExactRight
<1>4. CASE model = "600FWC" /\ setpoint = "fridge" /\ k # 1
  <2>1. F!HaRange(u) = 33 .. 46
    BY <1>1, <1>4 DEF F!HaRange, F!FridgeRangeFWC
  <2>2. x \in 33 .. 46
    BY <2>1
  <2>3. F!Encode(u, x) = (47 - x) % 256
    BY <1>1, <1>4 DEF F!Encode, F!Byte, F!ConvertFridgeFWC
  <2>4. F!Encode(u, x) = 47 - x /\ 47 - x \in 1 .. 15
    BY <2>2, <2>3
  <2>5. F!Decode(u, 47 - x) = 2 * (47 - (47 - x))
    BY <1>1, <1>4 DEF F!Decode, F!ConvertFridgeFWC
  <2>6. F!HaRange(u) \subseteq Int /\ F!Decode(u, F!Encode(u, x)) = 2 * x
    BY <2>1, <2>2, <2>4, <2>5
  <2> QED BY <1>2, <1>4, <2>4, <2>6, ExactRight
<1>5. CASE model = "600FWC" /\ setpoint # "fridge" /\ k = 1
  <2>1. F!HaRange(u) = -24 .. -14
    BY <1>1, <1>5 DEF F!HaRange, F!FreezerRangeFWC
  <2>2. x \in -24 .. -14
    BY <2>1
  <2>3. F!Encode(u, x) = (-13 - x) % 256
    BY <1>1, <1>5 DEF F!Encode, F!Byte, F!ToFreezerFWC
  <2>4. F!Encode(u, x) = -13 - x /\ -13 - x \in 1 .. 15
    BY <2>2, <2>3
  <2>5. F!Decode(u, -13 - x) = 2 * (-13 - (-13 - x))
    BY <1>1, <1>5 DEF F!Decode, F!FromFreezerFWC
  <2>6. F!HaRange(u) \subseteq Int /\ F!Decode(u, F!Encode(u, x)) = 2 * x
    BY <2>1, <2>2, <2>4, <2>5
  <2> QED BY <1>2, <1>5, <2>4, <2>6, ExactRight
<1>6. CASE model # "600FWC" /\ setpoint = "fridge" /\ k = 1
  <2>1. F!HaRange(u) = 1 .. 7
    BY <1>1, <1>6 DEF F!HaRange, F!FridgeRange
  <2>2. x \in 1 .. 7
    BY <2>1
  <2>3. F!Encode(u, x) = (8 - x) % 256
    BY <1>1, <1>6 DEF F!Encode, F!Byte, F!ConvertFridge
  <2>4. F!Encode(u, x) = 8 - x /\ 8 - x \in 1 .. 15
    BY <2>2, <2>3
  <2>5. F!Decode(u, 8 - x) = 2 * (8 - (8 - x))
    BY <1>1, <1>6 DEF F!Decode, F!ConvertFridge
  <2>6. F!HaRange(u) \subseteq Int /\ F!Decode(u, F!Encode(u, x)) = 2 * x
    BY <2>1, <2>2, <2>4, <2>5
  <2> QED BY <1>2, <1>6, <2>4, <2>6, ExactRight
<1>7. CASE model # "600FWC" /\ setpoint = "fridge" /\ k # 1
  <2>1. F!HaRange(u) = 33 .. 43
    BY <1>1, <1>7 DEF F!HaRange, F!FridgeRange
  <2>2. x \in 33 .. 43
    BY <2>1
  <2>3. F!Encode(u, x) = (44 - x) % 256
    BY <1>1, <1>7 DEF F!Encode, F!Byte, F!ConvertFridge
  <2>4. F!Encode(u, x) = 44 - x /\ 44 - x \in 1 .. 15
    BY <2>2, <2>3
  <2>5. F!Decode(u, 44 - x) = 2 * (44 - (44 - x))
    BY <1>1, <1>7 DEF F!Decode, F!ConvertFridge
  <2>6. F!HaRange(u) \subseteq Int /\ F!Decode(u, F!Encode(u, x)) = 2 * x
    BY <2>1, <2>2, <2>4, <2>5
  <2> QED BY <1>2, <1>7, <2>4, <2>6, ExactRight
<1>8. CASE model # "600FWC" /\ setpoint # "fridge" /\ k = 1
  <2>1. F!HaRange(u) = -23 .. -15
    BY <1>1, <1>8 DEF F!HaRange, F!FreezerRange
  <2>2. x \in -23 .. -15
    BY <2>1
  <2>3. F!Encode(u, x) = (-14 - x) % 256
    BY <1>1, <1>8 DEF F!Encode, F!Byte, F!ConvertFreezer
  <2>4. F!Encode(u, x) = -14 - x /\ -14 - x \in 1 .. 15
    BY <2>2, <2>3
  <2>5. F!Decode(u, -14 - x) = 2 * (-14 - (-14 - x))
    BY <1>1, <1>8 DEF F!Decode, F!ConvertFreezer
  <2>6. F!HaRange(u) \subseteq Int /\ F!Decode(u, F!Encode(u, x)) = 2 * x
    BY <2>1, <2>2, <2>4, <2>5
  <2> QED BY <1>2, <1>8, <2>4, <2>6, ExactRight
<1>9. CASE model # "600FWC" /\ setpoint # "fridge" /\ k # 1
  <2>1. F!HaRange(u) = -7 .. 5
    BY <1>1, <1>9 DEF F!HaRange, F!FreezerRange
  <2>2. x \in -7 .. 5
    BY <2>1
  <2>3. F!Encode(u, x) = (6 - x) % 256
    BY <1>1, <1>9 DEF F!Encode, F!Byte, F!ConvertFreezer
  <2>4. F!Encode(u, x) = 6 - x /\ 6 - x \in 1 .. 15
    BY <2>2, <2>3
  <2>5. F!Decode(u, 6 - x) = 2 * (6 - (6 - x))
    BY <1>1, <1>9 DEF F!Decode, F!ConvertFreezer
  <2>6. F!HaRange(u) \subseteq Int /\ F!Decode(u, F!Encode(u, x)) = 2 * x
    BY <2>1, <2>2, <2>4, <2>5
  <2> QED BY <1>2, <1>9, <2>4, <2>6, ExactRight
<1>10. CASE model = "600FWC" /\ setpoint # "fridge" /\ k # 1
  <2> DEFINE b == IF x < -15 THEN 15 ELSE IF x < -12 THEN 14 ELSE IF x < -7 THEN 13
                  ELSE IF x < -3 THEN 12 ELSE 8 - x
             m == IF x < -15 THEN -17 ELSE IF x < -12 THEN -15 ELSE IF x < -7 THEN -12
                  ELSE IF x < -3 THEN -7 ELSE x
             S == {y \in {-17, -15, -12, -7} \cup (-3 .. 7) : y <= x}
  <2>1. F!HaRange(u) = -17 .. 7 /\ F!Representable(u) = {-17, -15, -12, -7} \cup (-3 .. 7)
    BY <1>1, <1>10 DEF F!HaRange, F!FreezerRangeFWC, F!Representable
  <2>2. x \in -17 .. 7
    BY <2>1
  <2>3. F!ToFreezerFWC("F", x) = b
    BY <2>2, FreezerByte
  <2>4. F!Encode(u, x) = b % 256
    BY <1>1, <1>10, <2>3 DEF F!Encode, F!Byte
  <2>5. b \in 1 .. 15 /\ m \in -17 .. 7
    BY <2>2
  <2>6. F!FromFreezerFWC("F", b) = m
    BY <2>2, <2>5, FreezerTable
  <2>7. S \in SUBSET Int /\ m \in S /\ \A y \in S : m >= y
    BY <2>2
  <2> HIDE DEF b, m
  <2>8. F!Encode(u, x) = b
    BY <2>4, <2>5
  <2>9. F!Decode(u, b) = 2 * m
    BY <1>1, <1>10, <2>6 DEF F!Decode
  <2>10. b \in F!Bytes(k)
    BY <2>1, <2>5, <2>9 DEF F!Bytes
  <2>11. F!Max(S) = m
    <3> HIDE DEF S
    <3> QED BY <2>7, MaxIs
  <2> QED BY <2>1, <2>8, <2>9, <2>10, <2>11
<1> QED BY <1>3, <1>4, <1>5, <1>6, <1>7, <1>8, <1>9, <1>10

\* The two formulas of 2REF11EBIVPC4, one after the other.
LEMMA ShiftRight ==
  ASSUME model = "EBIVPC4", NEW x \in F!HaRange("C")
  PROVE  F!Decode("C", F!Encode("C", x)) = IF setpoint = "fridge" THEN x + 5 ELSE x - 15
<1>1. CASE setpoint = "fridge"
  <2>1. x \in 1 .. 7
    BY <1>1 DEF F!HaRange, F!FridgeRange
  <2>2. F!Encode("C", x) = (8 - x) % 256
    BY <1>1 DEF F!Encode, F!Byte, F!ConvertFridge
  <2>3. (8 - x) % 256 = 8 - x
    BY <2>1
  <2>4. F!Decode("C", 8 - x) = 13 - (8 - x)
    BY <1>1 DEF F!Decode, F!DecodeEBI
  <2> QED BY <1>1, <2>1, <2>2, <2>3, <2>4
<1>2. CASE setpoint # "fridge"
  <2>1. x \in -23 .. -15
    BY <1>2 DEF F!HaRange, F!FreezerRange
  <2>2. F!Encode("C", x) = (-14 - x) % 256
    BY <1>2 DEF F!Encode, F!Byte, F!ConvertFreezer
  <2>3. (-14 - x) % 256 = -14 - x
    BY <2>1
  <2>4. F!Decode("C", -14 - x) = -((-14 - x) + 29)
    BY <1>2 DEF F!Decode, F!DecodeEBI
  <2> QED BY <1>2, <2>1, <2>2, <2>3, <2>4
<1> QED BY <1>1, <1>2

\* What a byte of the machine is shown as is a value Home Assistant offers.
LEMMA BytesAreOffered ==
  ASSUME setpoint \in Setpoints, NEW k \in {0, 1}, NEW r \in F!Bytes(k)
  PROVE  model # "EBIVPC4" => \E x \in F!Representable(F!Unit(k)) : F!Decode(F!Unit(k), r) = 2 * x
<1>1. CASE ~(model = "600FWC" /\ setpoint = "freezer" /\ k # 1)
  BY <1>1 DEF F!Bytes, F!Representable, F!Unit
<1>2. CASE model = "600FWC" /\ setpoint = "freezer" /\ k # 1
  <2>1. F!Unit(k) = "F" /\ r \in 1 .. 15
    BY <1>2 DEF F!Unit, F!Bytes
  <2>2. F!Decode("F", r) = 2 * F!FromFreezerFWC("F", r)
    BY <1>2 DEF F!Decode
  <2>3. F!FromFreezerFWC("F", r) \in {-17, -15, -12, -7} \cup (-3 .. 7)
    BY <2>1, FreezerTable
  <2>4. F!Representable("F") = {-17, -15, -12, -7} \cup (-3 .. 7)
    BY <1>2 DEF F!Representable
  <2> QED BY <2>1, <2>2, <2>3, <2>4
<1> QED BY <1>1, <1>2

LEMMA DecodeIsInt ==
  ASSUME NEW u \in UnitNames, NEW r \in 1 .. 15
  PROVE  F!Decode(u, r) \in Int
<1>1. F!FromFreezerFWC(u, r) \in Int
  <2>1. CASE u = "F"
    BY <2>1, FreezerTable
  <2>2. CASE u # "F"
    BY <2>2 DEF F!FromFreezerFWC
  <2> QED BY <2>1, <2>2
<1>2. /\ F!ConvertFridgeFWC(u, r) \in Int /\ F!ConvertFridge(u, r) \in Int
      /\ F!ConvertFreezer(u, r) \in Int /\ F!DecodeEBI(r) \in Int
  BY DEF F!ConvertFridgeFWC, F!ConvertFridge, F!ConvertFreezer, F!DecodeEBI
<1> QED BY <1>1, <1>2 DEF F!Decode

LEMMA EncodeIsByte ==
  ASSUME NEW u \in UnitNames, NEW x \in Int
  PROVE  F!Encode(u, x) \in 0 .. 255
<1>1. F!ToFreezerFWC(u, x) \in Int
  BY DEF F!ToFreezerFWC
<1>2. /\ F!ConvertFridgeFWC(u, x) \in Int /\ F!ConvertFridge(u, x) \in Int
      /\ F!ConvertFreezer(u, x) \in Int
  BY DEF F!ConvertFridgeFWC, F!ConvertFridge, F!ConvertFreezer
<1>3. \A y \in Int : y % 256 \in 0 .. 255
  OBVIOUS
<1> QED BY <1>1, <1>2, <1>3 DEF F!Encode, F!Byte

-----------------------------------------------------------------------------
(* The inductive invariant of the refrigerators.                           *)

FStatuses == [unit : F!Units, raw : 1 .. 15]
FCommands == [unit : F!Units \cup {None}, raw : 0 .. 255 \cup {None}]
FMessages == ({"unit"} \X UnitNames) \cup ({"setpoint"} \X Int)

FType ==
  /\ model \in Fridges /\ setpoint \in Setpoints
  /\ machine \in FStatuses /\ machine.raw \in F!Bytes(machine.unit)
  /\ up \in Seq(FStatuses) /\ down \in Seq(FCommands) /\ out \in Seq(FMessages)
  /\ temperatureUnit \in UnitNames \cup {None}
  /\ model = "EBIVPC4" => temperatureUnit = "C"
  /\ DOMAIN shown = {"unit", "setpoint"}

MachineUnit == F!Unit(machine.unit)

\* The last status under way is the machine's; with none under way the handler
\* has read it, or a command will be answered.
LastIsTrue == up # <<>> => up[Len(up)] = machine
Applied == temperatureUnit = MachineUnit /\ publishCache = F!Decode(MachineUnit, machine.raw)
Heeded == up = <<>> => Applied \/ down # <<>>

\* What was asked in step is the machine's or on its way, in the machine's
\* unit, and nobody has changed that.
Asked(r) ==
  /\ temperatureUnit = MachineUnit /\ wish \in F!HaRange(MachineUnit)
  /\ \A i \in DOMAIN down : down[i].unit \in {None, machine.unit} /\ down[i].raw \in {None, r}
  /\ \A i \in DOMAIN up : up[i].unit = machine.unit
  /\ machine.raw = r \/ \E i \in DOMAIN down : down[i].raw = r
FWished ==
  wish # None /\ (model = "EBIVPC4" => F!Encode(MachineUnit, wish) \in F!Bytes(machine.unit))
    => Asked(F!Encode(MachineUnit, wish))

FInv ==
  /\ FType
  /\ LastIsTrue /\ Heeded
  /\ Comes(out, shown, "unit", temperatureUnit) /\ Comes(out, shown, "setpoint", publishCache)
  /\ FWished

LEMMA FSameModel ==
  ASSUME model' = model, setpoint' = setpoint
  PROVE  /\ F!Units' = F!Units /\ FStatuses' = FStatuses /\ FCommands' = FCommands
         /\ \A k : F!Bytes(k)' = F!Bytes(k)
         /\ \A u : F!HaRange(u)' = F!HaRange(u)
         /\ \A u, x : F!Encode(u, x)' = F!Encode(u, x) /\ F!Decode(u, x)' = F!Decode(u, x)
<1>1. F!Units' = F!Units
  BY DEF F!Units
<1>2. \A u : F!HaRange(u)' = F!HaRange(u)
  BY DEF F!HaRange
<1>3. \A u, x : F!Encode(u, x)' = F!Encode(u, x)
  BY DEF F!Encode
<1>4. \A u, x : F!Decode(u, x)' = F!Decode(u, x)
  BY DEF F!Decode, F!DecodeEBI
<1>5. \A k : F!Bytes(k)' = F!Bytes(k)
  BY <1>2, <1>4 DEF F!Bytes
<1> QED BY <1>1, <1>2, <1>3, <1>4, <1>5 DEF FStatuses, FCommands

LEMMA UnitsAre ==
  /\ F!Units \subseteq {0, 1}
  /\ \A k \in F!Units : /\ F!Unit(k) \in UnitNames
                        /\ F!Unit(k) = "C" <=> k = 1
                        /\ model = "EBIVPC4" => k = 1
  /\ 1 \in F!Units
  /\ model # "EBIVPC4" => F!Units = {0, 1}
BY DEF F!Units, F!Unit, UnitNames

LEMMA FMessageFacts ==
  ASSUME NEW m \in FMessages
  PROVE  m = <<m[1], m[2]>> /\ m[1] \in {"unit", "setpoint"}
BY DEF FMessages

\* What is published comes, and what came of the other topic still does.
LEMMA SentComes ==
  ASSUME NEW o \in Seq(FMessages), NEW m \in FMessages, NEW s
  PROVE  /\ Append(o, m) \in Seq(FMessages)
         /\ Comes(Append(o, m), s, m[1], m[2])
         /\ \A g, v : g # m[1] /\ Comes(o, s, g, v) => Comes(Append(o, m), s, g, v)
<1> DEFINE r == Append(o, m)
           n == Len(o)
<1>1. /\ DOMAIN o = 1 .. n /\ n \in Nat /\ DOMAIN r = 1 .. (n + 1)
      /\ \A i \in 1 .. n : r[i] = o[i]
      /\ r[n + 1] = m /\ r \in Seq(FMessages)
  BY AppendFacts
<1> HIDE DEF r, n
<1>2. m = <<m[1], m[2]>>
  BY FMessageFacts
<1>3. Comes(r, s, m[1], m[2])
  <2>1. n + 1 \in DOMAIN r /\ \A i \in DOMAIN r : ~(i > n + 1)
    BY <1>1
  <2> QED BY <1>1, <1>2, <2>1 DEF Comes
<1>4. ASSUME NEW g, NEW v, g # m[1], Comes(o, s, g, v)
      PROVE  Comes(r, s, g, v)
  <2>1. ASSUME NEW k \in DOMAIN o, o[k] = <<g, v>>, \A i \in DOMAIN o : i > k => o[i][1] # g
        PROVE  Comes(r, s, g, v)
    <3>1. k \in DOMAIN r /\ r[k] = <<g, v>>
      BY <1>1, <2>1
    <3>2. \A i \in DOMAIN r : i > k => r[i][1] # g
      BY <1>1, <1>4, <2>1
    <3> QED BY <3>1, <3>2 DEF Comes
  <2>2. ASSUME \A i \in DOMAIN o : o[i][1] # g, s[g] = v
        PROVE  Comes(r, s, g, v)
    <3>1. \A i \in DOMAIN r : r[i][1] # g
      BY <1>1, <1>4, <2>2
    <3> QED BY <2>2, <3>1 DEF Comes
  <2> QED BY <1>4, <2>1, <2>2 DEF Comes
<1> QED BY <1>1, <1>3, <1>4 DEF r

\* Home Assistant takes the first message: what comes is the same.
LEMMA DeliveredComes ==
  ASSUME NEW o \in Seq(FMessages), o # <<>>, NEW s, DOMAIN s = {"unit", "setpoint"},
         NEW t, t = [s EXCEPT ![Head(o)[1]] = Head(o)[2]]
  PROVE  /\ Tail(o) \in Seq(FMessages) /\ DOMAIN t = {"unit", "setpoint"}
         /\ \A g, v : g \in {"unit", "setpoint"} /\ Comes(o, s, g, v) => Comes(Tail(o), t, g, v)
<1> DEFINE r == Tail(o)
           n == Len(o)
           m == Head(o)
<1>1. /\ DOMAIN o = 1 .. n /\ n \in Nat \ {0} /\ DOMAIN r = 1 .. (n - 1)
      /\ \A i \in 1 .. (n - 1) : r[i] = o[i + 1]
      /\ m = o[1] /\ m \in FMessages /\ r \in Seq(FMessages)
  BY TailFacts
<1>2. DOMAIN t = {"unit", "setpoint"} /\ t[m[1]] = m[2]
      /\ \A g \in {"unit", "setpoint"} : g # m[1] => t[g] = s[g]
  BY <1>1, FMessageFacts
<1>3. m = <<m[1], m[2]>>
  BY <1>1, FMessageFacts
<1> HIDE DEF r, n, m
<1>4. \A i \in DOMAIN r : i + 1 \in DOMAIN o /\ r[i] = o[i + 1]
  BY <1>1
<1>5. ASSUME NEW g \in {"unit", "setpoint"}, NEW v, Comes(o, s, g, v)
      PROVE  Comes(r, t, g, v)
  <2>1. ASSUME NEW k \in DOMAIN o, o[k] = <<g, v>>, \A i \in DOMAIN o : i > k => o[i][1] # g
        PROVE  Comes(r, t, g, v)
    <3>1. CASE k = 1
      <4>1. \A i \in DOMAIN r : r[i][1] # g
        BY <1>1, <2>1, <3>1
      <4>2. t[g] = v
        BY <1>1, <1>2, <2>1, <3>1
      <4> QED BY <4>1, <4>2 DEF Comes
    <3>2. CASE k # 1
      <4>1. k - 1 \in DOMAIN r /\ r[k - 1] = <<g, v>>
        BY <1>1, <2>1, <3>2
      <4>2. \A i \in DOMAIN r : i > k - 1 => i + 1 > k
        BY <1>1
      <4>3. \A i \in DOMAIN r : i > k - 1 => r[i][1] # g
        BY <1>4, <2>1, <4>2
      <4> QED BY <4>1, <4>3 DEF Comes
    <3> QED BY <3>1, <3>2
  <2>2. ASSUME \A i \in DOMAIN o : o[i][1] # g, s[g] = v
        PROVE  Comes(r, t, g, v)
    <3>1. \A i \in DOMAIN r : r[i][1] # g
      BY <1>4, <2>2
    <3>2. m[1] # g
      BY <1>1, <2>2
    <3> QED BY <1>2, <2>2, <3>1, <3>2 DEF Comes
  <2> QED BY <1>5, <2>1, <2>2 DEF Comes
<1> QED BY <1>1, <1>2, <1>5 DEF r

LEMMA FDeliverKeeps ==
  ASSUME FInv, F!Deliver
  PROVE  FInv'
<1>1. /\ out # <<>> /\ shown' = [shown EXCEPT ![Head(out)[1]] = Head(out)[2]] /\ out' = Tail(out)
      /\ model' = model /\ setpoint' = setpoint /\ machine' = machine /\ down' = down /\ up' = up
      /\ temperatureUnit' = temperatureUnit /\ publishCache' = publishCache /\ wish' = wish
  BY DEF F!Deliver
<1>2. out \in Seq(FMessages) /\ DOMAIN shown = {"unit", "setpoint"}
  BY DEF FInv, FType
<1>3. /\ out' \in Seq(FMessages) /\ DOMAIN shown' = {"unit", "setpoint"}
      /\ \A g, v : g \in {"unit", "setpoint"} /\ Comes(out, shown, g, v) => Comes(out', shown', g, v)
  BY <1>1, <1>2, DeliveredComes
<1>4. FType'
  BY <1>1, <1>3, FSameModel DEF FInv, FType
<1>5. LastIsTrue' /\ Heeded'
  BY <1>1, FSameModel DEF FInv, LastIsTrue, Heeded, Applied, MachineUnit
<1>6. FWished'
  <2>1. \A r : Asked(r) => Asked(r)'
    BY <1>1, FSameModel DEF Asked, MachineUnit
  <2> QED BY <1>1, <2>1, FSameModel DEF FInv, FWished, MachineUnit
<1>7. Comes(out, shown, "unit", temperatureUnit)' /\ Comes(out, shown, "setpoint", publishCache)'
  BY <1>1, <1>3 DEF FInv
<1> QED BY <1>4, <1>5, <1>6, <1>7 DEF FInv

\* A new unit and new degrees are published, and then known.
LEMMA FProcessKeeps ==
  ASSUME FInv, F!ProcessFrame
  PROVE  FInv'
<1> DEFINE h == Head(up)
           u == F!Unit(h.unit)
           d == F!Decode(u, h.raw)
           a == F!SetTemperatureUnit(u)
           b == IF publishCache = d THEN <<>> ELSE <<<<"setpoint", d>>>>
           o == out \o a
<1>1. /\ up # <<>> /\ up' = Tail(up)
      /\ temperatureUnit' = (IF a = <<>> THEN temperatureUnit ELSE u)
      /\ publishCache' = d
      /\ out' = out \o a \o b
      /\ model' = model /\ setpoint' = setpoint /\ machine' = machine /\ down' = down
      /\ shown' = shown /\ wish' = wish
  BY DEF F!ProcessFrame, F!ProcessStatus
<1>2. out \in Seq(FMessages) /\ up \in Seq(FStatuses)
  BY DEF FInv, FType
<1>3. /\ Len(up) \in Nat \ {0} /\ DOMAIN up = 1 .. Len(up) /\ DOMAIN up' = 1 .. (Len(up) - 1)
      /\ \A i \in 1 .. (Len(up) - 1) : up'[i] = up[i + 1]
      /\ h = up[1] /\ h \in FStatuses /\ up' \in Seq(FStatuses)
  BY <1>1, <1>2, TailFacts
<1>4. h.unit \in F!Units /\ h.raw \in 1 .. 15
  BY <1>3 DEF FStatuses
<1>5. u \in UnitNames /\ d \in Int /\ (model = "EBIVPC4" => u = "C")
  BY <1>4, UnitsAre, DecodeIsInt
<1> HIDE DEF h, u, d
<1>6. temperatureUnit' = u
  <2>1. temperatureUnit # u => a = <<<<"unit", u>>>>
    BY DEF F!SetTemperatureUnit
  <2>2. <<<<"unit", u>>>> # <<>>
    OBVIOUS
  <2> HIDE DEF a
  <2> QED BY <1>1, <2>1, <2>2
<1>7. /\ o \in Seq(FMessages) /\ Comes(o, shown, "unit", u) /\ Comes(o, shown, "setpoint", publishCache)
  <2>0. Comes(out, shown, "unit", temperatureUnit) /\ Comes(out, shown, "setpoint", publishCache)
    BY DEF FInv
  <2>1. CASE temperatureUnit = u
    <3>1. o = out
      BY <1>2, <2>1 DEF F!SetTemperatureUnit
    <3> QED BY <1>2, <2>0, <2>1, <3>1
  <2>2. CASE temperatureUnit # u
    <3> DEFINE m == <<"unit", u>>
    <3>1. m \in FMessages /\ m[1] = "unit" /\ m[2] = u
      BY <1>5 DEF FMessages
    <3>2. o = out \o <<m>>
      BY <2>2 DEF F!SetTemperatureUnit
    <3> HIDE DEF m, o
    <3>3. o = Append(out, m)
      BY <1>2, <3>1, <3>2
    <3> QED BY <1>2, <2>0, <3>1, <3>3, SentComes
  <2> QED BY <2>1, <2>2
<1> HIDE DEF a
<1>8. out' = o \o b
  BY <1>1
<1> HIDE DEF o
<1>9. /\ out' \in Seq(FMessages) /\ Comes(out', shown, "unit", u) /\ Comes(out', shown, "setpoint", d)
  <2>1. CASE publishCache = d
    <3>1. out' = o
      BY <1>7, <1>8, <2>1
    <3> QED BY <1>7, <2>1, <3>1
  <2>2. CASE publishCache # d
    <3> DEFINE m == <<"setpoint", d>>
    <3>1. m \in FMessages /\ m[1] = "setpoint" /\ m[2] = d
      BY <1>5 DEF FMessages
    <3>2. out' = o \o <<m>>
      BY <1>8, <2>2
    <3> HIDE DEF m
    <3>3. out' = Append(o, m)
      BY <1>7, <3>1, <3>2
    <3> QED BY <1>7, <3>1, <3>3, SentComes
  <2> QED BY <2>1, <2>2
<1>10. FType'
  <2>1. temperatureUnit' \in UnitNames \cup {None} /\ (model = "EBIVPC4" => temperatureUnit' = "C")
    BY <1>5, <1>6
  <2> QED BY <1>1, <1>3, <1>9, <2>1, FSameModel DEF FInv, FType
<1>11. LastIsTrue'
  <2> SUFFICES ASSUME up' # <<>>
               PROVE  up'[Len(up')] = machine
    BY <1>1 DEF LastIsTrue
  <2>1. Len(up') = Len(up) - 1 /\ Len(up') # 0
    <3>1. up' \in Seq(FStatuses)
      BY <1>3
    <3>2. Len(up') # 0
      BY <3>1
    <3>3. Len(Tail(up)) = Len(up) - 1
      BY <1>1, <1>2
    <3> QED BY <1>1, <3>2, <3>3
  <2>2. up'[Len(up')] = up[Len(up)]
    <3>1. Len(up) \in Nat /\ \A i \in 1 .. (Len(up) - 1) : up'[i] = up[i + 1]
      BY <1>3
    <3>2. Len(up) - 1 \in 1 .. (Len(up) - 1) /\ (Len(up) - 1) + 1 = Len(up)
      BY <2>1, <3>1
    <3> QED BY <2>1, <3>1, <3>2
  <2> QED BY <1>1, <2>2 DEF FInv, LastIsTrue
<1>12. Heeded'
  <2>1. up' = <<>> => Len(up) = 1
    <3>1. Len(up') = Len(up) - 1
      BY <1>1, <1>2, <1>3
    <3>2. Len(up) - 1 = 0 => Len(up) = 1
      <4>1. Len(up) \in Nat
        BY <1>3
      <4> QED BY <4>1
    <3>3. up' = <<>> => Len(up') = 0
      OBVIOUS
    <3> QED BY <3>1, <3>2, <3>3
  <2> SUFFICES ASSUME up' = <<>>
               PROVE  Applied'
    BY DEF Heeded
  <2>2. h = machine
    BY <1>1, <1>3, <2>1 DEF FInv, LastIsTrue
  <2>3. MachineUnit' = u /\ d = F!Decode(u, machine.raw)
    BY <1>1, <2>2 DEF MachineUnit, u, d
  <2> QED BY <1>1, <1>6, <2>3, FSameModel DEF Applied
<1>13. FWished'
  <2>1. ASSUME NEW r, Asked(r)
        PROVE  Asked(r)'
    <3>1. h.unit = machine.unit
      BY <1>3, <2>1 DEF Asked
    <3>2. temperatureUnit' = MachineUnit
      BY <1>6, <3>1 DEF MachineUnit, u
    <3>3. \A i \in DOMAIN up' : up'[i].unit = machine.unit
      <4>1. \A i \in DOMAIN up : up[i].unit = machine.unit
        BY <2>1 DEF Asked
      <4> SUFFICES ASSUME NEW i \in 1 .. (Len(up) - 1)
                   PROVE  up'[i].unit = machine.unit
        BY <1>3
      <4>2. i + 1 \in DOMAIN up
        BY <1>3
      <4>3. up'[i] = up[i + 1]
        BY <1>3
      <4> QED BY <4>1, <4>2, <4>3
    <3>4. MachineUnit' = MachineUnit
      BY <1>1 DEF MachineUnit
    <3> QED BY <1>1, <2>1, <3>2, <3>3, <3>4, FSameModel DEF Asked
  <2>2. MachineUnit' = MachineUnit
    BY <1>1 DEF MachineUnit
  <2> QED BY <1>1, <2>1, <2>2, FSameModel DEF FInv, FWished
<1>14. Comes(out, shown, "unit", temperatureUnit)' /\ Comes(out, shown, "setpoint", publishCache)'
  BY <1>1, <1>6, <1>9
<1> QED BY <1>10, <1>11, <1>12, <1>13, <1>14 DEF FInv

\* A command goes out: all but what was asked is as it was.
LEMMA FSendKeeps ==
  ASSUME FInv, NEW c \in FCommands, down' = Append(down, c),
         model' = model, setpoint' = setpoint, machine' = machine, up' = up, out' = out, shown' = shown,
         temperatureUnit' = temperatureUnit, publishCache' = publishCache
  PROVE  /\ FType' /\ LastIsTrue' /\ Heeded'
         /\ Comes(out, shown, "unit", temperatureUnit)' /\ Comes(out, shown, "setpoint", publishCache)'
         /\ MachineUnit' = MachineUnit
         /\ \A i \in DOMAIN down' : down'[i] = c \/ (i \in DOMAIN down /\ down'[i] = down[i])
         /\ \A i \in DOMAIN down : i \in DOMAIN down' /\ down'[i] = down[i]
         /\ \E i \in DOMAIN down' : down'[i] = c
<1>1. down \in Seq(FCommands)
  BY DEF FInv, FType
<1>2. /\ DOMAIN down = 1 .. Len(down) /\ Len(down) \in Nat
      /\ DOMAIN down' = 1 .. (Len(down) + 1)
      /\ \A i \in 1 .. Len(down) : down'[i] = down[i]
      /\ down'[Len(down) + 1] = c
  BY <1>1, AppendFacts
<1>3. down' \in Seq(FCommands) /\ down' # <<>>
  BY <1>1
<1>4. FType'
  BY <1>3, FSameModel DEF FInv, FType
<1>5. LastIsTrue' /\ Heeded'
  BY <1>3 DEF FInv, LastIsTrue, Heeded
<1>6. Comes(out, shown, "unit", temperatureUnit)' /\ Comes(out, shown, "setpoint", publishCache)'
  BY DEF FInv
<1>7. MachineUnit' = MachineUnit
  BY DEF MachineUnit
<1>8. /\ \A i \in DOMAIN down' : down'[i] = c \/ (i \in DOMAIN down /\ down'[i] = down[i])
      /\ \A i \in DOMAIN down : i \in DOMAIN down' /\ down'[i] = down[i]
      /\ \E i \in DOMAIN down' : down'[i] = c
  <2>1. Len(down) + 1 \in DOMAIN down'
    BY <1>2
  <2>2. \A i \in DOMAIN down' : i = Len(down) + 1 \/ i \in DOMAIN down
    BY <1>2
  <2> QED BY <1>2, <2>1, <2>2
<1> QED BY <1>4, <1>5, <1>6, <1>7, <1>8

\* The unit that a command carries: the handler's, one that the machine knows.
LEMMA UnitCodeIs ==
  ASSUME FInv
  PROVE  /\ F!UnitCode \in F!Units /\ F!HandlerUnit \in UnitNames
         /\ temperatureUnit = MachineUnit => F!HandlerUnit = MachineUnit /\ F!UnitCode = machine.unit
<1>1. /\ machine.unit \in F!Units /\ temperatureUnit \in UnitNames \cup {None}
      /\ model = "EBIVPC4" => temperatureUnit = "C"
  BY DEF FInv, FType, FStatuses
<1>2. F!HandlerUnit \in UnitNames /\ (model = "EBIVPC4" => F!HandlerUnit = "C")
  BY <1>1 DEF F!HandlerUnit, UnitNames
<1>3. F!UnitCode \in F!Units
  BY <1>2, UnitsAre DEF F!UnitCode
<1>4. ASSUME temperatureUnit = MachineUnit
      PROVE  F!HandlerUnit = MachineUnit /\ F!UnitCode = machine.unit
  <2>1. MachineUnit \in UnitNames /\ (MachineUnit = "C" <=> machine.unit = 1)
    BY <1>1, UnitsAre DEF MachineUnit
  <2>2. MachineUnit # None
    BY <2>1, AppliancesAssumption DEF UnitNames
  <2>3. F!HandlerUnit = MachineUnit
    BY <1>4, <2>2 DEF F!HandlerUnit
  <2>4. machine.unit \in {0, 1}
    BY <1>1, UnitsAre
  <2> QED BY <2>1, <2>3, <2>4 DEF F!UnitCode
<1> QED BY <1>2, <1>3, <1>4

\* In step the handler holds what the machine has, and it is shown.
LEMMA FInStep ==
  ASSUME FInv, F!InStep
  PROVE  /\ Applied /\ shown["unit"] = temperatureUnit /\ shown["setpoint"] = publishCache
         /\ DOMAIN up = {} /\ DOMAIN down = {}
<1>1. up = <<>> /\ down = <<>> /\ out = <<>>
  BY DEF F!InStep
<1>2. DOMAIN up = {} /\ DOMAIN down = {} /\ DOMAIN out = {}
  BY <1>1
<1> QED BY <1>1, <1>2 DEF FInv, Heeded, Comes

LEMMA FOtherKeeps ==
  ASSUME FInv, F!SetOther
  PROVE  FInv'
<1> DEFINE k == IF model = "EBIVPC4" THEN None ELSE F!UnitCode
           c == [unit |-> k, raw |-> None]
<1>1. /\ down' = Append(down, c)
      /\ model' = model /\ setpoint' = setpoint /\ machine' = machine /\ up' = up /\ out' = out
      /\ shown' = shown /\ temperatureUnit' = temperatureUnit /\ publishCache' = publishCache
      /\ wish' = wish
  BY DEF F!SetOther, F!Send
<1>2. k \in F!Units \cup {None}
  BY UnitCodeIs
<1>3. k \in {None, F!UnitCode}
  OBVIOUS
<1> HIDE DEF k
<1>4. c \in FCommands /\ c.unit = k /\ c.raw = None
  BY <1>2 DEF FCommands
<1> HIDE DEF c
<1>5. /\ FType' /\ LastIsTrue' /\ Heeded'
      /\ Comes(out, shown, "unit", temperatureUnit)' /\ Comes(out, shown, "setpoint", publishCache)'
      /\ MachineUnit' = MachineUnit
      /\ \A i \in DOMAIN down' : down'[i] = c \/ (i \in DOMAIN down /\ down'[i] = down[i])
      /\ \A i \in DOMAIN down : i \in DOMAIN down' /\ down'[i] = down[i]
  BY <1>1, <1>4, FSendKeeps
<1>6. FWished'
  <2>1. ASSUME NEW r, Asked(r)
        PROVE  Asked(r)'
    <3>1. c.unit \in {None, machine.unit}
      BY <1>3, <1>4, <2>1, UnitCodeIs DEF Asked
    <3> QED BY <1>1, <1>4, <1>5, <2>1, <3>1, FSameModel DEF Asked
  <2> QED BY <1>1, <1>5, <2>1, FSameModel DEF FInv, FWished
<1> QED BY <1>5, <1>6 DEF FInv

LEMMA FSetpointKeeps ==
  ASSUME FInv, NEW x \in -24 .. 46, F!SetSetpoint(x)
  PROVE  FInv'
<1> DEFINE b == F!Encode(F!HandlerUnit, x)
           c == [unit |-> F!UnitCode, raw |-> b]
<1>1. /\ down' = Append(down, c)
      /\ model' = model /\ setpoint' = setpoint /\ machine' = machine /\ up' = up /\ out' = out
      /\ shown' = shown /\ temperatureUnit' = temperatureUnit /\ publishCache' = publishCache
      /\ wish' = IF F!InStep THEN x ELSE None
      /\ F!InStep => x \in F!HaRange(shown.unit)
  BY DEF F!SetSetpoint, F!Send
<1>2. b \in 0 .. 255 /\ F!UnitCode \in F!Units
  BY UnitCodeIs, EncodeIsByte
<1> HIDE DEF b
<1>3. c \in FCommands /\ c.unit = F!UnitCode /\ c.raw = b
  BY <1>2 DEF FCommands
<1> HIDE DEF c
<1>4. /\ FType' /\ LastIsTrue' /\ Heeded'
      /\ Comes(out, shown, "unit", temperatureUnit)' /\ Comes(out, shown, "setpoint", publishCache)'
      /\ MachineUnit' = MachineUnit
      /\ \A i \in DOMAIN down' : down'[i] = c \/ (i \in DOMAIN down /\ down'[i] = down[i])
      /\ \E i \in DOMAIN down' : down'[i] = c
  BY <1>1, <1>3, FSendKeeps
<1>5. FWished'
  <2> SUFFICES ASSUME F!InStep
               PROVE  Asked(F!Encode(MachineUnit, wish))'
    BY <1>1 DEF FWished
  <2>1. Applied /\ shown["unit"] = temperatureUnit /\ DOMAIN up = {} /\ DOMAIN down = {}
    BY FInStep
  <2>2. F!HandlerUnit = MachineUnit /\ F!UnitCode = machine.unit
    BY <2>1, UnitCodeIs DEF Applied
  <2>3. wish' = x /\ x \in F!HaRange(MachineUnit) /\ temperatureUnit = MachineUnit
    BY <1>1, <2>1 DEF Applied
  <2>4. PICK r : r = b
    OBVIOUS
  <2>5. F!Encode(MachineUnit, wish)' = r
    BY <1>1, <1>4, <2>2, <2>3, <2>4, FSameModel DEF b
  <2>6. Asked(r)'
    BY <1>1, <1>3, <1>4, <2>1, <2>2, <2>3, <2>4, FSameModel DEF Asked
  <2> QED BY <2>5, <2>6 DEF Asked
<1> QED BY <1>4, <1>5 DEF FInv

\* The machine becomes m, with a status of it: the last under way is its own.
LEMMA FBecomesKeeps ==
  ASSUME FInv, NEW m \in FStatuses, m.raw \in F!Bytes(m.unit), F!Becomes(m), down' \in Seq(FCommands)
  PROVE  /\ FType' /\ LastIsTrue' /\ Heeded'
         /\ Comes(out, shown, "unit", temperatureUnit)' /\ Comes(out, shown, "setpoint", publishCache)'
         /\ \A i \in DOMAIN up' : up'[i] = m \/ (i \in DOMAIN up /\ up'[i] = up[i])
<1>1. /\ machine' = m /\ up' = Append(up, m)
      /\ model' = model /\ setpoint' = setpoint /\ temperatureUnit' = temperatureUnit
      /\ publishCache' = publishCache /\ out' = out /\ shown' = shown
  BY DEF F!Becomes
<1>2. up \in Seq(FStatuses)
  BY DEF FInv, FType
<1>3. /\ DOMAIN up = 1 .. Len(up) /\ Len(up) \in Nat
      /\ DOMAIN up' = 1 .. (Len(up) + 1)
      /\ \A i \in 1 .. Len(up) : up'[i] = up[i]
      /\ up'[Len(up) + 1] = m
  BY <1>1, <1>2, AppendFacts
<1>4. up' \in Seq(FStatuses) /\ up' # <<>> /\ Len(up') = Len(up) + 1
  BY <1>1, <1>2
<1>5. FType'
  BY <1>1, <1>4, FSameModel DEF FInv, FType
<1>6. LastIsTrue' /\ Heeded'
  BY <1>1, <1>3, <1>4 DEF LastIsTrue, Heeded
<1>7. Comes(out, shown, "unit", temperatureUnit)' /\ Comes(out, shown, "setpoint", publishCache)'
  BY <1>1 DEF FInv
<1>8. \A i \in DOMAIN up' : up'[i] = m \/ (i \in DOMAIN up /\ up'[i] = up[i])
  <2>1. \A i \in DOMAIN up' : i = Len(up) + 1 \/ i \in DOMAIN up
    BY <1>3
  <2> QED BY <1>3, <2>1
<1> QED BY <1>5, <1>6, <1>7, <1>8

LEMMA FOperatedKeeps ==
  ASSUME FInv, F!Operated
  PROVE  FInv'
<1>0. PICK u \in F!Units : \E r \in F!Corners(F!Bytes(u)) : F!Becomes([unit |-> u, raw |-> r])
  BY DEF F!Operated
<1>1. PICK r \in F!Corners(F!Bytes(u)) : F!Becomes([unit |-> u, raw |-> r])
  BY <1>0
<1>2. down' = down /\ wish' = None
  BY DEF F!Operated
<1> DEFINE m == [unit |-> u, raw |-> r]
<1>3. r \in F!Bytes(u) /\ r \in 1 .. 15
  <2>1. model \in Fridges /\ setpoint \in Setpoints
    BY DEF FInv, FType
  <2>2. u \in {0, 1} /\ (model = "EBIVPC4" => u = 1)
    BY UnitsAre
  <2>3. r \in F!Bytes(u)
    BY <2>1, <2>2, CornersAmong
  <2> QED BY <2>3 DEF F!Bytes
<1>4. m \in FStatuses /\ m.raw \in F!Bytes(m.unit)
  BY <1>3 DEF FStatuses
<1>5. F!Becomes(m)
  BY <1>1
<1> HIDE DEF m
<1>6. down' \in Seq(FCommands)
  BY <1>2 DEF FInv, FType
<1>7. /\ FType' /\ LastIsTrue' /\ Heeded'
      /\ Comes(out, shown, "unit", temperatureUnit)' /\ Comes(out, shown, "setpoint", publishCache)'
  BY <1>4, <1>5, <1>6, FBecomesKeeps
<1> QED BY <1>2, <1>7 DEF FInv, FWished

LEMMA FReceiveKeeps ==
  ASSUME FInv, F!Receive
  PROVE  FInv'
<1> DEFINE c == Head(down)
           u == IF c.unit = None THEN machine.unit ELSE c.unit
<1>1. PICK r \in F!Taken(c, u) : F!Becomes([unit |-> u, raw |-> r])
  BY DEF F!Receive
<1>2. down # <<>> /\ down' = Tail(down) /\ wish' = wish
  BY DEF F!Receive
<1> DEFINE m == [unit |-> u, raw |-> r]
<1>3. /\ model \in Fridges /\ setpoint \in Setpoints /\ down \in Seq(FCommands)
      /\ machine \in FStatuses /\ machine.raw \in F!Bytes(machine.unit)
  BY DEF FInv, FType
<1>4. /\ DOMAIN down = 1 .. Len(down) /\ Len(down) \in Nat \ {0} /\ DOMAIN down' = 1 .. (Len(down) - 1)
      /\ \A i \in 1 .. (Len(down) - 1) : down'[i] = down[i + 1]
      /\ c = down[1] /\ c \in FCommands /\ down' \in Seq(FCommands)
  BY <1>2, <1>3, TailFacts
<1> HIDE DEF c
<1>5. u \in F!Units
  BY <1>3, <1>4 DEF FCommands, FStatuses
<1> HIDE DEF u
<1>6. r \in F!Bytes(u) /\ r \in 1 .. 15
  <2>1. u \in {0, 1} /\ (model = "EBIVPC4" => u = 1)
    BY <1>5, UnitsAre
  <2>2. F!Corners(F!Bytes(u)) \subseteq F!Bytes(u)
    BY <1>3, <2>1, CornersAmong
  <2>3. r \in F!Bytes(u)
    BY <1>1, <1>3, <2>2 DEF F!Taken
  <2> QED BY <2>3 DEF F!Bytes
<1>7. m \in FStatuses /\ m.raw \in F!Bytes(m.unit) /\ m.unit = u /\ m.raw = r
  BY <1>5, <1>6 DEF FStatuses
<1>8. F!Becomes(m)
  BY <1>1
<1> HIDE DEF m
<1>9. /\ FType' /\ LastIsTrue' /\ Heeded'
      /\ Comes(out, shown, "unit", temperatureUnit)' /\ Comes(out, shown, "setpoint", publishCache)'
      /\ \A i \in DOMAIN up' : up'[i] = m \/ (i \in DOMAIN up /\ up'[i] = up[i])
  BY <1>4, <1>7, <1>8, FBecomesKeeps
<1>10. /\ machine' = m /\ model' = model /\ setpoint' = setpoint /\ temperatureUnit' = temperatureUnit
  BY <1>8 DEF F!Becomes
<1>11. ASSUME NEW b, Asked(b), b \in F!Bytes(machine.unit)
       PROVE  Asked(b)' /\ MachineUnit' = MachineUnit
  <2>1. 1 \in DOMAIN down /\ c.unit \in {None, machine.unit} /\ c.raw \in {None, b}
    BY <1>4, <1>11 DEF Asked
  <2>2. u = machine.unit
    BY <2>1 DEF u
  <2>3. MachineUnit' = MachineUnit
    BY <1>7, <1>10, <2>2 DEF MachineUnit
  <2>4. c.raw = b => m.raw = b
    BY <1>1, <1>7, <1>11, <2>1, <2>2 DEF F!Taken
  <2>5. c.raw # b => m.raw = machine.raw
    <3>1. None \notin F!Bytes(machine.unit)
      <4>1. \A x \in 1 .. 15 : x \in 0 .. 255
        OBVIOUS
      <4>2. None \notin 0 .. 255
        BY AppliancesAssumption
      <4> QED BY <4>1, <4>2 DEF F!Bytes
    <3> QED BY <1>1, <1>7, <2>1, <2>2, <3>1 DEF F!Taken
  <2>6. \A i \in DOMAIN down' : i + 1 \in DOMAIN down /\ down'[i] = down[i + 1]
    BY <1>4
  <2>7. \A i \in DOMAIN down : i # 1 => i - 1 \in DOMAIN down' /\ down'[i - 1] = down[i]
    BY <1>4
  <2>8. machine'.raw = b \/ \E i \in DOMAIN down' : down'[i].raw = b
    BY <1>4, <1>10, <1>11, <2>4, <2>5, <2>7 DEF Asked
  <2>9. \A i \in DOMAIN down' : down'[i].unit \in {None, machine'.unit} /\ down'[i].raw \in {None, b}
    BY <1>7, <1>10, <1>11, <2>2, <2>6 DEF Asked
  <2>10. \A i \in DOMAIN up' : up'[i].unit = machine'.unit
    BY <1>7, <1>9, <1>10, <1>11, <2>2 DEF Asked
  <2>11. temperatureUnit' = MachineUnit' /\ wish' \in F!HaRange(MachineUnit)
    BY <1>2, <1>10, <1>11, <2>3 DEF Asked
  <2> QED BY <1>10, <2>3, <2>8, <2>9, <2>10, <2>11, FSameModel DEF Asked
<1>12. FWished'
  <2>1. PICK b : b = F!Encode(MachineUnit, wish)
    OBVIOUS
  <2>2. CASE wish # None /\ (model = "EBIVPC4" => b \in F!Bytes(machine.unit))
    <3>1. Asked(b)
      BY <2>1, <2>2 DEF FInv, FWished
    <3>2. b \in F!Bytes(machine.unit)
      <4>1. wish \in F!HaRange(F!Unit(machine.unit))
        BY <3>1 DEF Asked, MachineUnit
      <4>2. machine.unit \in {0, 1}
        BY <1>3, UnitsAre DEF FStatuses
      <4> QED BY <1>3, <2>1, <2>2, <4>1, <4>2, EncodeRight DEF MachineUnit
    <3>3. Asked(b)' /\ MachineUnit' = MachineUnit
      BY <1>11, <3>1, <3>2
    <3>4. F!Encode(MachineUnit, wish)' = b
      BY <1>2, <1>10, <2>1, <3>3, FSameModel
    <3> QED BY <3>3, <3>4 DEF Asked, FWished
  <2>3. CASE wish # None /\ model = "EBIVPC4" /\ b \notin F!Bytes(machine.unit)
    <3>1. machine.unit = 1 /\ machine'.unit = 1
      BY <1>3, <1>5, <1>7, <1>10, <2>3, UnitsAre DEF FStatuses
    <3>2. F!Encode(MachineUnit, wish)' = b /\ F!Bytes(machine.unit)' = F!Bytes(machine.unit)
      BY <1>2, <1>10, <2>1, <3>1, FSameModel DEF MachineUnit
    <3> QED BY <1>10, <2>3, <3>2 DEF FWished
  <2>4. CASE wish = None
    BY <1>2, <2>4 DEF FWished
  <2> QED BY <2>2, <2>3, <2>4
<1> QED BY <1>9, <1>12 DEF FInv

LEMMA FNextKeeps ==
  ASSUME FInv, F!Next
  PROVE  FInv'
BY FProcessKeeps, FDeliverKeeps, FOtherKeeps, FReceiveKeeps, FOperatedKeeps, FSetpointKeeps DEF F!Next

LEMMA FStutterKeeps ==
  ASSUME FInv, UNCHANGED F!vars
  PROVE  FInv'
<1>1. /\ model' = model /\ setpoint' = setpoint /\ machine' = machine /\ down' = down /\ up' = up
      /\ temperatureUnit' = temperatureUnit /\ publishCache' = publishCache /\ out' = out
      /\ shown' = shown /\ wish' = wish
  BY DEF F!vars
<1>2. FType'
  BY <1>1, FSameModel DEF FInv, FType
<1>3. LastIsTrue' /\ Heeded'
  BY <1>1, FSameModel DEF FInv, LastIsTrue, Heeded, Applied, MachineUnit
<1>4. FWished'
  <2>1. \A r : Asked(r) => Asked(r)'
    BY <1>1, FSameModel DEF Asked, MachineUnit
  <2> QED BY <1>1, <2>1, FSameModel DEF FInv, FWished, MachineUnit
<1>5. Comes(out, shown, "unit", temperatureUnit)' /\ Comes(out, shown, "setpoint", publishCache)'
  BY <1>1 DEF FInv
<1> QED BY <1>2, <1>3, <1>4, <1>5 DEF FInv

LEMMA FInitHolds ==
  ASSUME F!Init
  PROVE  FInv
<1>1. /\ model \in Fridges /\ setpoint \in Setpoints
      /\ down = (IF model = "EBIVPC4" THEN <<>> ELSE <<F!Query>>)
      /\ up = (IF model = "EBIVPC4" THEN <<machine>> ELSE <<>>)
      /\ temperatureUnit = (IF model = "EBIVPC4" THEN "C" ELSE None)
      /\ publishCache = None
      /\ shown = [unit |-> temperatureUnit, setpoint |-> None]
      /\ out = <<>> /\ wish = None
  BY DEF F!Init, F!Start
<1>0. PICK u \in F!Units : \E r \in F!Corners(F!Bytes(u)) : machine = [unit |-> u, raw |-> r]
  BY DEF F!Init
<1>2. PICK r \in F!Corners(F!Bytes(u)) : machine = [unit |-> u, raw |-> r]
  BY <1>0
<1>3. r \in F!Bytes(u) /\ r \in 1 .. 15
  <2>1. u \in {0, 1} /\ (model = "EBIVPC4" => u = 1)
    BY UnitsAre
  <2>2. r \in F!Bytes(u)
    BY <1>1, <2>1, CornersAmong
  <2> QED BY <2>2 DEF F!Bytes
<1>4. machine \in FStatuses /\ machine.raw \in F!Bytes(machine.unit)
  BY <1>2, <1>3 DEF FStatuses
<1>5. F!Query \in FCommands
  BY DEF F!Query, FCommands
<1>6. up \in Seq(FStatuses) /\ down \in Seq(FCommands) /\ out \in Seq(FMessages)
  BY <1>1, <1>4, <1>5
<1>7. FType
  <2>1. temperatureUnit \in UnitNames \cup {None} /\ (model = "EBIVPC4" => temperatureUnit = "C")
    BY <1>1 DEF UnitNames
  <2>2. DOMAIN shown = {"unit", "setpoint"}
    BY <1>1
  <2> QED BY <1>1, <1>4, <1>6, <2>1, <2>2 DEF FType
<1>8. LastIsTrue /\ Heeded
  BY <1>1 DEF LastIsTrue, Heeded
<1>9. Comes(out, shown, "unit", temperatureUnit) /\ Comes(out, shown, "setpoint", publishCache)
  <2>1. DOMAIN out = {} /\ shown["unit"] = temperatureUnit /\ shown["setpoint"] = publishCache
    BY <1>1
  <2> QED BY <2>1 DEF Comes
<1>10. FWished
  BY <1>1 DEF FWished
<1> QED BY <1>7, <1>8, <1>9, <1>10 DEF FInv

LEMMA FridgesShow ==
  ASSUME FInv
  PROVE  F!SettledAgrees /\ F!AskedIsSet
<1>1. /\ setpoint \in Setpoints /\ model \in Fridges
      /\ machine.unit \in {0, 1} /\ machine.raw \in F!Bytes(machine.unit)
  BY UnitsAre DEF FInv, FType, FStatuses
<1>2. F!SettledAgrees
  <2> SUFFICES ASSUME F!InStep
               PROVE  /\ shown["unit"] = MachineUnit
                      /\ shown["setpoint"] = F!Decode(MachineUnit, machine.raw)
                      /\ model # "EBIVPC4" => \E x \in F!Representable(MachineUnit) : shown["setpoint"] = 2 * x
    BY DEF F!SettledAgrees, MachineUnit
  <2>1. shown["unit"] = MachineUnit /\ shown["setpoint"] = F!Decode(MachineUnit, machine.raw)
    BY FInStep DEF Applied
  <2> QED BY <1>1, <2>1, BytesAreOffered DEF MachineUnit
<1>3. ASSUME F!InStep, wish # None,
             model = "EBIVPC4" => F!Encode(MachineUnit, wish) \in F!Bytes(machine.unit)
      PROVE  /\ shown["unit"] = MachineUnit /\ wish \in F!HaRange(MachineUnit)
             /\ shown["setpoint"] = F!Decode(MachineUnit, F!Encode(MachineUnit, wish))
  <2>1. /\ shown["unit"] = MachineUnit /\ shown["setpoint"] = F!Decode(MachineUnit, machine.raw)
        /\ DOMAIN down = {}
    BY <1>3, FInStep DEF Applied
  <2>2. Asked(F!Encode(MachineUnit, wish))
    BY <1>3 DEF FInv, FWished
  <2>3. wish \in F!HaRange(MachineUnit) /\ machine.raw = F!Encode(MachineUnit, wish)
    BY <2>1, <2>2 DEF Asked
  <2> QED BY <2>1, <2>3
<1>4. model # "EBIVPC4" => F!WishIsShown
  <2> SUFFICES ASSUME model # "EBIVPC4", F!InStep, wish # None
               PROVE  shown["setpoint"] = 2 * F!Max({x \in F!Representable(shown["unit"]) : x <= wish})
    BY DEF F!WishIsShown
  <2>1. /\ shown["unit"] = MachineUnit /\ wish \in F!HaRange(MachineUnit)
        /\ shown["setpoint"] = F!Decode(MachineUnit, F!Encode(MachineUnit, wish))
    BY <1>3
  <2>2. F!Decode(MachineUnit, F!Encode(MachineUnit, wish))
          = 2 * F!Max({y \in F!Representable(MachineUnit) : y <= wish})
    BY <1>1, <2>1, EncodeRight DEF MachineUnit
  <2> QED BY <2>1, <2>2
<1>5. model = "EBIVPC4" => F!WishIsShifted
  <2> SUFFICES ASSUME model = "EBIVPC4", F!InStep, wish # None, F!Encode("C", wish) \in F!Bytes(1)
               PROVE  shown["setpoint"] = IF setpoint = "fridge" THEN wish + 5 ELSE wish - 15
    BY DEF F!WishIsShifted
  <2>1. machine.unit = 1 /\ MachineUnit = "C"
    BY UnitsAre DEF FInv, FType, FStatuses, MachineUnit, F!Unit
  <2>2. /\ wish \in F!HaRange("C")
        /\ shown["setpoint"] = F!Decode("C", F!Encode("C", wish))
    BY <1>3, <2>1
  <2> QED BY <1>1, <2>2, ShiftRight
<1> QED BY <1>2, <1>4, <1>5 DEF F!AskedIsSet

FridgesInv == model \in Fridges => FInv

LEMMA FridgesInvHolds == MCSpec => []FridgesInv
<1>1. MCInit => FridgesInv
  <2> SUFFICES ASSUME MCInit, model \in Fridges
               PROVE  FInv
    BY DEF FridgesInv
  <2>1. F!Init
    BY Apart DEF MCInit, C!Init, W!Init
  <2> QED BY <2>1, FInitHolds
<1>2. FridgesInv /\ [MCNext]_<<shared, own>> => FridgesInv'
  <2> SUFFICES ASSUME FridgesInv, [MCNext]_<<shared, own>>, model' \in Fridges
               PROVE  FInv'
    BY DEF FridgesInv
  <2>1. CASE MCNext
    <3>1. model \in Fridges
      BY <2>1, ModelStays
    <3>2. F!Next
      BY <2>1, <3>1, Apart DEF MCNext
    <3> QED BY <3>1, <3>2, FNextKeeps DEF FridgesInv
  <2>2. CASE UNCHANGED <<shared, own>>
    <3>1. UNCHANGED F!vars /\ model' = model
      BY <2>2 DEF shared, own, F!vars
    <3> QED BY <3>1, FStutterKeeps DEF FridgesInv
  <2> QED BY <2>1, <2>2
<1> QED BY <1>1, <1>2, PTL DEF MCSpec

-----------------------------------------------------------------------------
(* All of them.                                                            *)

\* Whatever is reported, asked, done by hand and lost, and in whatever order,
\* Home Assistant shows the appliance once nothing is under way.
THEOREM SettledAlwaysAgrees == MCSpec => []SettledAgrees
<1>1. FridgesInv => (model \in Fridges => F!SettledAgrees)
  BY FridgesShow DEF FridgesInv
<1>2. /\ model \in Models => C!SettledAgrees
      /\ model \in Washers => W!ShowsTheMachine /\ W!EntitiesAreFed
      /\ model \in Fridges => F!SettledAgrees
      => SettledAgrees
  BY DEF SettledAgrees
<1> QED BY <1>1, <1>2, UnitsAreShown, WashersAreShown, FridgesInvHolds, PTL

\* A mode of a portable unit and a setpoint of a refrigerator that were chosen
\* with nothing to overtake them are what the appliance then has, a setpoint
\* as the warmest value not above it that the machine knows; but for
\* 2REF11EBIVPC4, whose setpoint is then off by what its two formulas differ.
THEOREM AskedIsAlwaysSet == MCSpec => []AskedIsSet
<1>1. FridgesInv => (model \in Fridges => F!AskedIsSet)
  BY FridgesShow DEF FridgesInv
<1>2. /\ model \in Models => C!AskedModeIsSet
      /\ model \in Fridges => F!AskedIsSet
      => AskedIsSet
  BY DEF AskedIsSet
<1> QED BY <1>1, <1>2, AskedModesAreSet, FridgesInvHolds, PTL
=============================================================================
