------------------------- MODULE CloudBridgeProofs -------------------------
(* What is proved of CloudBridge, for both kinds of appliances, any number *)
(* of Device objects, BridgedDevices, connections and calls of enable()    *)
(* under way while everything else happens, with power that may fail.      *)
EXTENDS CloudBridge, TLAPS

PoolType ==
  [bridged : Bs \cup {NoB}, alive : SUBSET Bs, downstream : [Bs -> Devs \cup {NoDev}],
   connection : [Bs -> Us \cup {NoUp}], timer : SUBSET Bs,
   upstream : [Us -> Lives], owner : [Us -> Bs \cup {NoB}],
   outrun : SUBSET Bs]

\* A BridgedDevice has a connection exactly when it is alive and does not wait.
Connected(q) ==
  /\ q.timer \subseteq q.alive
  /\ \A b \in Bs : q.connection[b] # NoUp <=> b \in q.alive \ q.timer

\* Its connection is in use, and it is the one it listens to.
Listening(q) ==
  /\ \A b \in Bs : \A u \in Us : q.connection[b] = u => q.owner[u] = b
  /\ \A u \in Us : q.owner[u] \in Bs <=> q.upstream[u] # "free"
  /\ \A b \in q.alive : \A u \in Us : q.owner[u] = b => q.connection[b] = u

\* A connection that is not being closed has a live BridgedDevice; of ThinQ2
\* none is abandoned.
Released(q) ==
  /\ \A u \in Us : q.upstream[u] \in {"starting", "open"} => q.owner[u] \in q.alive
  /\ Platform = "thinq2" => \A u \in Us : q.upstream[u] \notin {"abandoned", "stray"}

PoolInv(q) == q \in PoolType /\ Connected(q) /\ Listening(q) /\ Released(q)

OthersType ==
  /\ open \subseteq Devs
  /\ current \in Devs \cup {NoDev}
  /\ enabling \in [Calls -> Devs \cup {NoDev}]

\* The map has no entry without a registration on disk.
Registered == bridgedDevices # NoB => deviceState

IInv == OthersType /\ Registered /\ PoolInv(Pool)

-----------------------------------------------------------------------------
(* What each operation on the pool returns.                                *)

LEMMA DetachFields ==
  ASSUME NEW q \in PoolType, NEW S \in SUBSET Bs
  PROVE  /\ Detach(q, S) \in PoolType
         /\ Detach(q, S).bridged = q.bridged /\ Detach(q, S).alive = q.alive
         /\ Detach(q, S).timer = q.timer /\ Detach(q, S).owner = q.owner
         /\ Detach(q, S).downstream = q.downstream /\ Detach(q, S).outrun = q.outrun
         /\ \A b \in Bs : Detach(q, S).connection[b] = IF b \in S THEN NoUp ELSE q.connection[b]
         /\ \A u \in Us : Detach(q, S).upstream[u] =
              IF \E b \in S : q.connection[b] = u THEN DestroyUpstream(q.upstream[u])
              ELSE q.upstream[u]
  BY DEF Detach, PoolType, DestroyUpstream, Lives

LEMMA DestroyFields ==
  ASSUME NEW q \in PoolType, NEW S \in SUBSET Bs
  PROVE  /\ Destroy(q, S) \in PoolType
         /\ Destroy(q, S).bridged = q.bridged /\ Destroy(q, S).alive = q.alive \ S
         /\ Destroy(q, S).timer = q.timer \ S /\ Destroy(q, S).owner = q.owner
         /\ \A b \in Bs : Destroy(q, S).connection[b] = IF b \in S THEN NoUp ELSE q.connection[b]
         /\ \A u \in Us : Destroy(q, S).upstream[u] =
              IF \E b \in S : q.connection[b] = u THEN DestroyUpstream(q.upstream[u])
              ELSE q.upstream[u]
<1> DEFINE d == Detach(q, S)
<1>1. /\ d \in PoolType
      /\ d.bridged = q.bridged /\ d.alive = q.alive /\ d.timer = q.timer /\ d.owner = q.owner
      /\ \A b \in Bs : d.connection[b] = IF b \in S THEN NoUp ELSE q.connection[b]
      /\ \A u \in Us : d.upstream[u] =
              IF \E b \in S : q.connection[b] = u THEN DestroyUpstream(q.upstream[u])
              ELSE q.upstream[u]
  BY DetachFields
<1>2. Destroy(q, S) = [d EXCEPT !.alive = q.alive \ S, !.timer = q.timer \ S,
                                !.downstream = [b \in Bs |-> IF b \in S THEN NoDev ELSE q.downstream[b]]]
  BY DEF Destroy
<1> HIDE DEF d
<1>3. [b \in Bs |-> IF b \in S THEN NoDev ELSE q.downstream[b]] \in [Bs -> Devs \cup {NoDev}]
  BY DEF PoolType
<1>4. q.alive \ S \in SUBSET Bs /\ q.timer \ S \in SUBSET Bs
  BY DEF PoolType
<1> QED BY <1>1, <1>2, <1>3, <1>4 DEF PoolType

\* Connect for a BridgedDevice of a pool whose timers are not yet cleared.
LEMMA ConnectFields ==
  ASSUME NEW q \in PoolType, NEW b \in Bs, SpareUs(q) # {}
  PROVE  \E u \in Us :
         /\ q.upstream[u] = "free"
         /\ Connect(q, b) \in PoolType
         /\ Connect(q, b).bridged = q.bridged /\ Connect(q, b).alive = q.alive
         /\ Connect(q, b).timer = q.timer
         /\ Connect(q, b).connection = [q.connection EXCEPT ![b] = u]
         /\ Connect(q, b).upstream = [q.upstream EXCEPT ![u] = "starting"]
         /\ Connect(q, b).owner = [q.owner EXCEPT ![u] = b]
<1> DEFINE u == CHOOSE u \in SpareUs(q) : TRUE
<1>1. u \in Us /\ q.upstream[u] = "free"
  BY DEF SpareUs
<1>2. Connect(q, b) = [q EXCEPT !.connection = [q.connection EXCEPT ![b] = u],
                                !.upstream = [q.upstream EXCEPT ![u] = "starting"],
                                !.owner = [q.owner EXCEPT ![u] = b]]
  BY DEF Connect
<1> HIDE DEF u
<1> DEFINE cs == [q.connection EXCEPT ![b] = u]
           us == [q.upstream EXCEPT ![u] = "starting"]
           os == [q.owner EXCEPT ![u] = b]
           q1 == [q EXCEPT !.connection = cs]
           q2 == [q1 EXCEPT !.upstream = us]
<1>3. cs \in [Bs -> Us \cup {NoUp}] /\ us \in [Us -> Lives] /\ os \in [Us -> Bs \cup {NoB}]
  BY <1>1 DEF PoolType, Lives
<1> HIDE DEF cs, us, os
<1>4. /\ q1 \in PoolType /\ q1.bridged = q.bridged /\ q1.alive = q.alive /\ q1.timer = q.timer
      /\ q1.connection = cs
  BY <1>3 DEF PoolType
<1>5. /\ q2 \in PoolType /\ q2.bridged = q1.bridged /\ q2.alive = q1.alive
      /\ q2.timer = q1.timer /\ q2.connection = q1.connection /\ q2.upstream = us
  <2> HIDE DEF q1
  <2> QED BY <1>3, <1>4 DEF PoolType
<1>6. Connect(q, b) = [q2 EXCEPT !.owner = os]
  BY <1>2 DEF cs, us, os, PoolType
<1> HIDE DEF q1, q2
<1>7. /\ Connect(q, b) \in PoolType /\ Connect(q, b).bridged = q2.bridged
      /\ Connect(q, b).alive = q2.alive /\ Connect(q, b).timer = q2.timer
      /\ Connect(q, b).connection = q2.connection /\ Connect(q, b).upstream = q2.upstream
      /\ Connect(q, b).owner = os
  BY <1>3, <1>5, <1>6 DEF PoolType
<1>8. /\ Connect(q, b).connection = [q.connection EXCEPT ![b] = u]
      /\ Connect(q, b).upstream = [q.upstream EXCEPT ![u] = "starting"]
      /\ Connect(q, b).owner = [q.owner EXCEPT ![u] = b]
  BY <1>4, <1>5, <1>7 DEF cs, us, os
<1> QED BY <1>1, <1>4, <1>5, <1>7, <1>8

-----------------------------------------------------------------------------
(* What each operation on the pool keeps.                                  *)

\* Handlers act on Pool, and leave the one they were given by SetPool.
LEMMA PoolSet ==
  ASSUME NEW q, PoolInv(q), SetPool(q)
  PROVE  PoolInv(Pool)' /\ bridgedDevices' = q.bridged
<1>1. /\ bridgedDevices' = q.bridged /\ alive' = q.alive /\ downstream' = q.downstream
      /\ connection' = q.connection /\ timer' = q.timer /\ upstream' = q.upstream
      /\ owner' = q.owner /\ outrun' = q.outrun
  BY DEF SetPool
<1>2. q \in PoolType
  BY DEF PoolInv
<1>3. Pool' = q
  BY <1>1, <1>2 DEF Pool, PoolType
<1> QED BY <1>1, <1>3 DEF PoolInv, Connected, Listening, Released

LEMMA PoolStays ==
  ASSUME PoolInv(Pool), UNCHANGED poolVars
  PROVE  PoolInv(Pool)' /\ bridgedDevices' = bridgedDevices
<1>1. SetPool(Pool)
  BY DEF SetPool, Pool, poolVars
<1>2. Pool.bridged = bridgedDevices
  BY DEF Pool
<1> QED BY <1>1, <1>2, PoolSet

LEMMA EmptyKeeps == PoolInv(EmptyPool) /\ EmptyPool.bridged = NoB
<1>1. EmptyPool \in PoolType /\ EmptyPool.bridged = NoB /\ EmptyPool.alive = {} /\ EmptyPool.timer = {}
  BY DEF EmptyPool, PoolType, Lives
<1>2. \A b \in Bs : EmptyPool.connection[b] = NoUp
  BY DEF EmptyPool
<1>3. \A u \in Us : EmptyPool.upstream[u] = "free" /\ EmptyPool.owner[u] = NoB
  BY DEF EmptyPool
<1> QED BY <1>1, <1>2, <1>3, CloudBridgeAssumption DEF PoolInv, Connected, Listening, Released

LEMMA DestroyKeeps ==
  ASSUME NEW q, PoolInv(q), NEW S \in SUBSET Bs
  PROVE  PoolInv(Destroy(q, S)) /\ Destroy(q, S).bridged = q.bridged
<1> DEFINE d == Destroy(q, S)
<1>0. q \in PoolType
  BY DEF PoolInv
<1>1. /\ d \in PoolType
      /\ d.bridged = q.bridged /\ d.alive = q.alive \ S /\ d.timer = q.timer \ S /\ d.owner = q.owner
      /\ \A b \in Bs : d.connection[b] = IF b \in S THEN NoUp ELSE q.connection[b]
      /\ \A u \in Us : d.upstream[u] =
              IF \E b \in S : q.connection[b] = u THEN DestroyUpstream(q.upstream[u])
              ELSE q.upstream[u]
  BY <1>0, DestroyFields
<1> HIDE DEF d
<1>2. Connected(d)
  BY <1>0, <1>1 DEF PoolInv, Connected, PoolType
<1>3. Listening(d)
  <2>1. \A u \in Us : d.upstream[u] = "free" <=> q.upstream[u] = "free"
    BY <1>1 DEF PoolInv, Listening, DestroyUpstream
  <2>2. \A b \in Bs : \A u \in Us : d.connection[b] = u => d.owner[u] = b
    BY <1>1, CloudBridgeAssumption DEF PoolInv, Listening
  <2>3. \A b \in d.alive : \A u \in Us : d.owner[u] = b => d.connection[b] = u
    BY <1>0, <1>1 DEF PoolInv, Listening, PoolType
  <2> QED BY <1>1, <2>1, <2>2, <2>3 DEF PoolInv, Listening
<1>4. Released(d)
  <2>1. ASSUME NEW u \in Us, d.upstream[u] \in {"starting", "open"}
        PROVE  d.owner[u] \in d.alive
    <3>1. ~(\E b \in S : q.connection[b] = u) /\ d.upstream[u] = q.upstream[u]
      BY <1>1, <2>1 DEF DestroyUpstream
    <3>2. q.owner[u] \in q.alive
      BY <2>1, <3>1 DEF PoolInv, Released
    <3>3. q.connection[q.owner[u]] = u
      BY <3>2 DEF PoolInv, Listening
    <3> QED BY <1>1, <3>1, <3>2, <3>3
  <2>2. ASSUME Platform = "thinq2", NEW u \in Us
        PROVE  d.upstream[u] \notin {"abandoned", "stray"}
    <3>1. q.upstream[u] \notin {"abandoned", "stray"}
      BY <2>2 DEF PoolInv, Released
    <3> QED BY <1>1, <2>2, <3>1 DEF DestroyUpstream
  <2> QED BY <2>1, <2>2 DEF Released
<1> QED BY <1>1, <1>2, <1>3, <1>4 DEF PoolInv, d

\* Connections come and go without a BridgedDevice's doing so.
LEMMA ConnectLeaves ==
  ASSUME NEW q \in PoolType, NEW b
  PROVE  /\ Connect(q, b).bridged = q.bridged /\ Connect(q, b).alive = q.alive
         /\ Connect(q, b).downstream = q.downstream /\ Connect(q, b).outrun = q.outrun
  BY DEF Connect, PoolType

LEMMA CreateLeaves ==
  ASSUME NEW q \in PoolType, NEW d \in Devs, Room(q)
  PROVE  \E b \in Bs \ q.alive :
         /\ b # q.bridged
         /\ Create(q, d).bridged = b /\ Create(q, d).alive = q.alive \cup {b}
         /\ Create(q, d).downstream = [q.downstream EXCEPT ![b] = d]
         /\ Create(q, d).outrun = q.outrun \ {b}
<1> DEFINE b == CHOOSE b \in SpareBs(q) : TRUE
           r == [q EXCEPT !.alive = q.alive \cup {b}, !.downstream[b] = d, !.bridged = b,
                          !.outrun = q.outrun \ {b}]
<1>1. b \in Bs /\ b \notin q.alive /\ b # q.bridged
  BY DEF Room, SpareBs
<1>2. Create(q, d) = Connect(r, b)
  BY DEF Create
<1> HIDE DEF b
<1>3. r = [q EXCEPT !.alive = q.alive \cup {b},
                    !.downstream = [q.downstream EXCEPT ![b] = d], !.bridged = b,
                    !.outrun = q.outrun \ {b}]
  OBVIOUS
<1>4. /\ q.alive \cup {b} \in SUBSET Bs /\ q.outrun \ {b} \in SUBSET Bs
      /\ [q.downstream EXCEPT ![b] = d] \in [Bs -> Devs \cup {NoDev}]
  BY <1>1 DEF PoolType
<1>5. /\ r \in PoolType /\ r.bridged = b /\ r.alive = q.alive \cup {b}
      /\ r.downstream = [q.downstream EXCEPT ![b] = d] /\ r.outrun = q.outrun \ {b}
  BY <1>1, <1>3, <1>4 DEF PoolType
<1> HIDE DEF r
<1> QED BY <1>1, <1>2, <1>5, ConnectLeaves

LEMMA CreateKeeps ==
  ASSUME NEW q, PoolInv(q), NEW d \in Devs, Room(q)
  PROVE  PoolInv(Create(q, d))
<1> DEFINE b == CHOOSE b \in SpareBs(q) : TRUE
           r == [q EXCEPT !.alive = q.alive \cup {b}, !.downstream[b] = d, !.bridged = b,
                          !.outrun = q.outrun \ {b}]
           c == Connect(r, b)
<1>1. b \in Bs /\ b \notin q.alive /\ \A u \in Us : q.owner[u] # b
  BY DEF Room, SpareBs
<1>2. Create(q, d) = c
  BY DEF Create
<1>3. q \in PoolType
  BY DEF PoolInv
<1> HIDE DEF b
<1>4. r = [q EXCEPT !.alive = q.alive \cup {b},
                    !.downstream = [q.downstream EXCEPT ![b] = d], !.bridged = b,
                    !.outrun = q.outrun \ {b}]
  OBVIOUS
<1>5. /\ q.alive \cup {b} \in SUBSET Bs /\ q.outrun \ {b} \in SUBSET Bs
      /\ [q.downstream EXCEPT ![b] = d] \in [Bs -> Devs \cup {NoDev}]
  BY <1>1, <1>3 DEF PoolType
<1>6. /\ r \in PoolType /\ r.alive = q.alive \cup {b}
      /\ r.timer = q.timer /\ r.connection = q.connection
      /\ r.upstream = q.upstream /\ r.owner = q.owner
  BY <1>1, <1>3, <1>4, <1>5 DEF PoolType
<1>7. SpareUs(r) # {}
  BY <1>6 DEF Room, SpareUs
<1> HIDE DEF r
<1>8. PICK u \in Us :
         /\ r.upstream[u] = "free"
         /\ c \in PoolType
         /\ c.bridged = r.bridged /\ c.alive = r.alive
         /\ c.timer = r.timer
         /\ c.connection = [r.connection EXCEPT ![b] = u]
         /\ c.upstream = [r.upstream EXCEPT ![u] = "starting"]
         /\ c.owner = [r.owner EXCEPT ![u] = b]
  BY <1>1, <1>6, <1>7, ConnectFields
<1> HIDE DEF c
<1>9. /\ \A x \in Bs : c.connection[x] = IF x = b THEN u ELSE q.connection[x]
      /\ \A v \in Us : c.upstream[v] = IF v = u THEN "starting" ELSE q.upstream[v]
      /\ \A v \in Us : c.owner[v] = IF v = u THEN b ELSE q.owner[v]
      /\ c.alive = q.alive \cup {b} /\ c.timer = q.timer /\ q.upstream[u] = "free"
  BY <1>1, <1>3, <1>6, <1>8 DEF PoolType
<1>10. Connected(c)
  BY <1>1, <1>3, <1>9, CloudBridgeAssumption DEF PoolInv, Connected, PoolType
<1>11. Listening(c)
  BY <1>1, <1>3, <1>9 DEF PoolInv, Listening, PoolType
<1>12. Released(c)
  BY <1>1, <1>9 DEF PoolInv, Released
<1> QED BY <1>2, <1>8, <1>10, <1>11, <1>12 DEF PoolInv

LEMMA StopKeeps ==
  ASSUME NEW q, PoolInv(q)
  PROVE  PoolInv(Stop(q)) /\ Stop(q).bridged = NoB
<1>0. q \in PoolType
  BY DEF PoolInv
<1>1. CASE q.bridged = NoB
  BY <1>1 DEF Stop
<1>2. CASE q.bridged # NoB
  <2> DEFINE r == [q EXCEPT !.bridged = NoB]
  <2>1. /\ r \in PoolType /\ r.bridged = NoB /\ r.alive = q.alive /\ r.timer = q.timer
        /\ r.connection = q.connection /\ r.upstream = q.upstream /\ r.owner = q.owner
    BY <1>0 DEF PoolType
  <2>2. Stop(q) = Destroy(r, {q.bridged})
    BY <1>2 DEF Stop
  <2>3. {q.bridged} \in SUBSET Bs
    BY <1>0, <1>2 DEF PoolType
  <2> HIDE DEF r
  <2>4. PoolInv(r)
    BY <2>1 DEF PoolInv, Connected, Listening, Released
  <2> QED BY <2>1, <2>2, <2>3, <2>4, DestroyKeeps
<1> QED BY <1>1, <1>2

LEMMA DeviceCloseKeeps ==
  ASSUME NEW q, PoolInv(q), NEW d
  PROVE  PoolInv(DeviceClose(q, d)) /\ DeviceClose(q, d).bridged \in {q.bridged, NoB}
<1> DEFINE q1 == IF current = d THEN Stop(q) ELSE q
           S == {b \in q1.alive : q1.downstream[b] = d}
<1>1. PoolInv(q1) /\ q1.bridged \in {q.bridged, NoB}
  BY StopKeeps
<1>2. DeviceClose(q, d) = Destroy(q1, S)
  BY DEF DeviceClose
<1> HIDE DEF q1
<1>3. S \in SUBSET Bs
  BY <1>1 DEF PoolInv, PoolType
<1> HIDE DEF S
<1>4. PoolInv(Destroy(q1, S)) /\ Destroy(q1, S).bridged = q1.bridged
  BY <1>1, <1>3, DestroyKeeps
<1> QED BY <1>1, <1>2, <1>4

\* Only what is registered is started.
LEMMA StartKeeps ==
  ASSUME NEW q, PoolInv(q), NEW d \in Devs, NEW off, Room(q)
  PROVE  PoolInv(Start(q, d, off)) /\ (Start(q, d, off) = q \/ deviceState)
<1>1. CASE off \/ ~deviceState
  BY <1>1 DEF Start
<1>2. CASE ~off /\ deviceState
  BY <1>2, CreateKeeps DEF Start
<1> QED BY <1>1, <1>2

\* The timer has fired: the pool has it no longer when the connection is made.
LEMMA ReconnectKeeps ==
  ASSUME NEW q, PoolInv(q), NEW b \in q.timer, SpareUs(q) # {}
  PROVE  LET c == Connect([q EXCEPT !.timer = q.timer \ {b}], b) IN
         PoolInv(c) /\ c.bridged = q.bridged
<1> DEFINE r == [q EXCEPT !.timer = q.timer \ {b}]
           c == Connect(r, b)
<1>1. q \in PoolType
  BY DEF PoolInv
<1>2. /\ r \in PoolType /\ r.bridged = q.bridged /\ r.alive = q.alive
      /\ r.timer = q.timer \ {b} /\ r.connection = q.connection
      /\ r.upstream = q.upstream /\ r.owner = q.owner
  BY <1>1 DEF PoolType
<1>3. b \in Bs /\ b \in q.alive
  BY <1>1 DEF PoolType, PoolInv, Connected
<1>4. \A u \in Us : q.owner[u] # b
  BY <1>3, CloudBridgeAssumption DEF PoolInv, Connected, Listening
<1>5. SpareUs(r) # {}
  BY <1>2 DEF SpareUs
<1> HIDE DEF r
<1>6. PICK u \in Us :
         /\ r.upstream[u] = "free"
         /\ c \in PoolType
         /\ c.bridged = r.bridged /\ c.alive = r.alive
         /\ c.timer = r.timer
         /\ c.connection = [r.connection EXCEPT ![b] = u]
         /\ c.upstream = [r.upstream EXCEPT ![u] = "starting"]
         /\ c.owner = [r.owner EXCEPT ![u] = b]
  BY <1>2, <1>3, <1>5, ConnectFields
<1> HIDE DEF c
<1>7. /\ \A x \in Bs : c.connection[x] = IF x = b THEN u ELSE q.connection[x]
      /\ \A v \in Us : c.upstream[v] = IF v = u THEN "starting" ELSE q.upstream[v]
      /\ \A v \in Us : c.owner[v] = IF v = u THEN b ELSE q.owner[v]
      /\ c.alive = q.alive /\ c.timer = q.timer \ {b} /\ q.upstream[u] = "free"
  BY <1>1, <1>2, <1>3, <1>6 DEF PoolType
<1>8. Connected(c)
  BY <1>1, <1>3, <1>7, CloudBridgeAssumption DEF PoolInv, Connected, PoolType
<1>9. Listening(c)
  BY <1>1, <1>3, <1>4, <1>7 DEF PoolInv, Listening, PoolType
<1>10. Released(c)
  BY <1>3, <1>7 DEF PoolInv, Released
<1>11. PoolInv(c) /\ c.bridged = q.bridged
  BY <1>2, <1>6, <1>8, <1>9, <1>10 DEF PoolInv
<1> QED BY <1>11 DEF c, r

\* A connection closes that is in use, and so has a BridgedDevice.
LEMMA CloseKeeps ==
  ASSUME NEW q, PoolInv(q), NEW u \in Us, q.upstream[u] # "free"
  PROVE  LET c == [Disconnect(q, q.owner[u]) EXCEPT !.upstream[u] = "free", !.owner[u] = NoB] IN
         PoolInv(c) /\ c.bridged = q.bridged
<1> DEFINE b == q.owner[u]
           e == Detach(q, {b})
           t == IF q.connection[b] = NoUp THEN q.timer ELSE q.timer \cup {b}
           f == Disconnect(q, b)
           c == [f EXCEPT !.upstream[u] = "free", !.owner[u] = NoB]
<1>1. q \in PoolType /\ b \in Bs
  BY DEF PoolInv, Listening
<1>2. /\ e \in PoolType
      /\ e.bridged = q.bridged /\ e.alive = q.alive
      /\ e.timer = q.timer /\ e.owner = q.owner
      /\ \A x \in Bs : e.connection[x] = IF x \in {b} THEN NoUp ELSE q.connection[x]
      /\ \A v \in Us : e.upstream[v] =
              IF \E x \in {b} : q.connection[x] = v THEN DestroyUpstream(q.upstream[v])
              ELSE q.upstream[v]
  BY <1>1, DetachFields
<1>3. b \in q.alive => q.connection[b] = u
  BY DEF PoolInv, Listening
<1>4. f = IF q.connection[b] = NoUp THEN q ELSE [e EXCEPT !.timer = q.timer \cup {b}]
  BY DEF Disconnect
<1> HIDE DEF e, f
<1>5. q.timer \cup {b} \in SUBSET Bs
  BY <1>1 DEF PoolType
<1>6. /\ f \in PoolType /\ f.bridged = q.bridged /\ f.alive = q.alive /\ f.owner = q.owner
      /\ f.timer = IF b \in q.alive THEN q.timer \cup {b} ELSE q.timer
      /\ \A x \in Bs : f.connection[x] = IF x = b THEN NoUp ELSE q.connection[x]
      /\ \A v \in Us \ {u} : f.upstream[v] = q.upstream[v]
  <2>1. CASE q.connection[b] = NoUp
    <3>1. b \notin q.alive /\ f = q
      BY <1>3, <1>4, <2>1, CloudBridgeAssumption
    <3> QED BY <1>1, <2>1, <3>1
  <2>2. CASE q.connection[b] # NoUp
    <3>1. b \in q.alive
      BY <1>1, <2>2 DEF PoolInv, Connected
    <3>2. f = [e EXCEPT !.timer = q.timer \cup {b}]
      BY <1>4, <2>2
    <3>3. /\ f \in PoolType /\ f.bridged = e.bridged /\ f.alive = e.alive /\ f.owner = e.owner
          /\ f.timer = q.timer \cup {b} /\ f.connection = e.connection /\ f.upstream = e.upstream
      BY <1>2, <1>5, <3>2 DEF PoolType
    <3> QED BY <1>2, <1>3, <3>1, <3>3
  <2> QED BY <2>1, <2>2
<1>7. c = [f EXCEPT !.upstream = [f.upstream EXCEPT ![u] = "free"],
                    !.owner = [f.owner EXCEPT ![u] = NoB]]
  OBVIOUS
<1>8. /\ [f.upstream EXCEPT ![u] = "free"] \in [Us -> Lives]
      /\ [f.owner EXCEPT ![u] = NoB] \in [Us -> Bs \cup {NoB}]
  BY <1>6 DEF PoolType, Lives
<1>9. /\ c \in PoolType /\ c.bridged = q.bridged /\ c.alive = q.alive /\ c.timer = f.timer
      /\ c.connection = f.connection
      /\ c.upstream = [f.upstream EXCEPT ![u] = "free"]
      /\ c.owner = [f.owner EXCEPT ![u] = NoB]
  BY <1>6, <1>7, <1>8 DEF PoolType
<1> HIDE DEF c
<1>10. /\ c.timer = IF b \in q.alive THEN q.timer \cup {b} ELSE q.timer
       /\ \A x \in Bs : c.connection[x] = IF x = b THEN NoUp ELSE q.connection[x]
       /\ \A v \in Us : c.upstream[v] = IF v = u THEN "free" ELSE q.upstream[v]
       /\ \A v \in Us : c.owner[v] = IF v = u THEN NoB ELSE q.owner[v]
  BY <1>1, <1>6, <1>9 DEF PoolType
<1>11. Connected(c)
  BY <1>1, <1>9, <1>10 DEF PoolInv, Connected, PoolType
<1>12. Listening(c)
  <2>1. \A x \in Bs : \A v \in Us : c.connection[x] = v => c.owner[v] = x
    BY <1>10, CloudBridgeAssumption DEF PoolInv, Listening
  <2>2. \A v \in Us : c.owner[v] \in Bs <=> c.upstream[v] # "free"
    BY <1>10, CloudBridgeAssumption DEF PoolInv, Listening
  <2>3. \A x \in c.alive : \A v \in Us : c.owner[v] = x => c.connection[x] = v
    <3> SUFFICES ASSUME NEW x \in c.alive, NEW v \in Us, c.owner[v] = x PROVE c.connection[x] = v
      OBVIOUS
    <3>1. x \in Bs /\ x \in q.alive
      BY <1>1, <1>9 DEF PoolType
    <3>2. v # u /\ q.owner[v] = x
      BY <1>10, <3>1, CloudBridgeAssumption
    <3>3. q.connection[x] = v
      BY <3>1, <3>2 DEF PoolInv, Listening
    <3>4. x # b
      BY <1>3, <3>1, <3>2, <3>3
    <3> QED BY <1>10, <3>1, <3>3, <3>4
  <2> QED BY <2>1, <2>2, <2>3 DEF Listening
<1>13. Released(c)
  BY <1>9, <1>10 DEF PoolInv, Released
<1>14. PoolInv(c) /\ c.bridged = q.bridged
  BY <1>9, <1>11, <1>12, <1>13 DEF PoolInv
<1> QED BY <1>14 DEF c, f

\* A new connection of the late kind is one of the other, to the pool.
LEMMA CreateLateKeeps ==
  ASSUME NEW q, PoolInv(q), NEW d \in Devs, Room(q)
  PROVE  PoolInv(CreateLate(q, d))
<1> DEFINE c == Create(q, d)
           os == c.outrun \cup ({q.bridged} \ {NoB}) \cup (IF d = current THEN {} ELSE {c.bridged})
<1>1. PoolInv(c)
  BY CreateKeeps
<1>2. CreateLate(q, d) = [c EXCEPT !.outrun = os]
  BY DEF CreateLate
<1>3. c.bridged \in Bs
  <2>1. q \in PoolType
    BY DEF PoolInv
  <2>2. \E b \in Bs \ q.alive :
         /\ b # q.bridged
         /\ c.bridged = b /\ c.alive = q.alive \cup {b}
         /\ c.downstream = [q.downstream EXCEPT ![b] = d]
         /\ c.outrun = q.outrun \ {b}
    BY <2>1, CreateLeaves
  <2> QED BY <2>2
<1>4. os \in SUBSET Bs
  BY <1>1, <1>3 DEF PoolInv, PoolType
<1> HIDE DEF c, os
<1>5. /\ CreateLate(q, d) \in PoolType /\ CreateLate(q, d).alive = c.alive
      /\ CreateLate(q, d).timer = c.timer /\ CreateLate(q, d).connection = c.connection
      /\ CreateLate(q, d).upstream = c.upstream /\ CreateLate(q, d).owner = c.owner
  BY <1>1, <1>2, <1>4 DEF PoolInv, PoolType
<1> QED BY <1>1, <1>5 DEF PoolInv, Connected, Listening, Released

\* The HTTP answer of ThinQ1, the connection of ThinQ2.
LEMMA OpenKeeps ==
  ASSUME PoolInv(Pool), NEW u \in Us, UpstreamOpens(u)
  PROVE  PoolInv(Pool)' /\ bridgedDevices' = bridgedDevices
<1> DEFINE life == IF upstream[u] = "starting" THEN "open" ELSE "stray"
           us == [upstream EXCEPT ![u] = life]
           c == [Pool EXCEPT !.upstream = us]
<1>1. /\ Pool \in PoolType /\ Pool.bridged = bridgedDevices /\ Pool.alive = alive
      /\ Pool.timer = timer /\ Pool.connection = connection /\ Pool.downstream = downstream
      /\ Pool.upstream = upstream /\ Pool.owner = owner /\ Pool.outrun = outrun
  BY DEF PoolInv, Pool
<1>2. us \in [Us -> Lives]
  BY <1>1 DEF PoolType, Lives
<1>3. upstream[u] \in {"starting", "abandoned"} /\ upstream' = us
  BY DEF UpstreamOpens
<1>4. \A v \in Us : us[v] = IF v = u THEN life ELSE upstream[v]
  BY <1>1 DEF PoolType
<1> HIDE DEF us
<1>5. /\ c \in PoolType /\ c.bridged = bridgedDevices /\ c.alive = alive
      /\ c.timer = timer /\ c.connection = connection /\ c.downstream = downstream
      /\ c.upstream = us /\ c.owner = owner /\ c.outrun = outrun
  BY <1>1, <1>2 DEF PoolType
<1> HIDE DEF c
<1>6. Connected(c)
  BY <1>1, <1>5 DEF PoolInv, Connected
<1>7. Listening(c)
  BY <1>1, <1>3, <1>4, <1>5 DEF PoolInv, Listening
<1>8. Released(c)
  BY <1>1, <1>3, <1>4, <1>5 DEF PoolInv, Released
<1>9. SetPool(c)
  BY <1>3, <1>5 DEF SetPool, UpstreamOpens
<1> QED BY <1>5, <1>6, <1>7, <1>8, <1>9, PoolSet DEF PoolInv

-----------------------------------------------------------------------------
(* The steps.                                                              *)

LEMMA InitHolds == Init => IInv
<1> SUFFICES ASSUME Init PROVE IInv
  OBVIOUS
<1>1. Pool = EmptyPool
  BY DEF Init, Pool, EmptyPool
<1>2. OthersType /\ Registered
  BY DEF Init, OthersType, Registered
<1> QED BY <1>1, <1>2, EmptyKeeps DEF IInv

LEMMA NewDeviceStep ==
  ASSUME IInv, NEW d \in Devs, NewDevice(d)
  PROVE  IInv'
<1> DEFINE q == IF Platform = "thinq2" /\ current # NoDev THEN DeviceClose(Pool, current) ELSE Pool
<1>1. PoolInv(q) /\ q.bridged \in {bridgedDevices, NoB}
  BY DeviceCloseKeeps DEF IInv, Pool
<1>2. Room(q) /\ SetPool(Start(q, d, suspended)) /\ UNCHANGED deviceState
  BY DEF NewDevice, diskVars
<1>3. OthersType'
  BY DEF IInv, OthersType, NewDevice
<1> HIDE DEF q
<1>4. PoolInv(Start(q, d, suspended)) /\ (Start(q, d, suspended) = q \/ deviceState)
  BY <1>1, <1>2, StartKeeps
<1>5. PoolInv(Pool)' /\ bridgedDevices' = Start(q, d, suspended).bridged
  BY <1>2, <1>4, PoolSet
<1>6. Registered'
  BY <1>1, <1>2, <1>4, <1>5 DEF IInv, Registered
<1> QED BY <1>3, <1>5, <1>6 DEF IInv

LEMMA DeviceClosesStep ==
  ASSUME IInv, NEW d \in Devs, DeviceCloses(d)
  PROVE  IInv'
<1>1. PoolInv(DeviceClose(Pool, d)) /\ DeviceClose(Pool, d).bridged \in {bridgedDevices, NoB}
  BY DeviceCloseKeeps DEF IInv, Pool
<1>2. SetPool(DeviceClose(Pool, d)) /\ UNCHANGED deviceState
  BY DEF DeviceCloses, diskVars
<1>3. PoolInv(Pool)' /\ bridgedDevices' = DeviceClose(Pool, d).bridged
  BY <1>1, <1>2, PoolSet
<1>4. OthersType'
  BY DEF IInv, OthersType, DeviceCloses
<1> QED BY <1>1, <1>2, <1>3, <1>4 DEF IInv, Registered

LEMMA UpstreamStep ==
  ASSUME IInv, NEW u \in Us, UpstreamOpens(u) \/ UpstreamCloses(u)
  PROVE  IInv'
<1>1. UNCHANGED <<open, current, enabling, deviceState>>
  BY DEF UpstreamOpens, UpstreamCloses, diskVars
<1>2. PoolInv(Pool)' /\ bridgedDevices' = bridgedDevices
  <2>1. CASE UpstreamOpens(u)
    BY <2>1, OpenKeeps DEF IInv
  <2>2. CASE UpstreamCloses(u)
    <3> DEFINE c == [Disconnect(Pool, Pool.owner[u]) EXCEPT !.upstream[u] = "free", !.owner[u] = NoB]
    <3>1. Pool.owner = owner /\ Pool.upstream = upstream /\ Pool.bridged = bridgedDevices
      BY DEF Pool
    <3>2. upstream[u] # "free"
      BY <2>2 DEF UpstreamCloses
    <3>3. PoolInv(c) /\ c.bridged = bridgedDevices
      BY <3>1, <3>2, CloseKeeps DEF IInv
    <3>4. SetPool(c)
      BY <2>2, <3>1 DEF UpstreamCloses
    <3> HIDE DEF c
    <3> QED BY <3>3, <3>4, PoolSet
  <2> QED BY <2>1, <2>2
<1> QED BY <1>1, <1>2 DEF IInv, OthersType, Registered

LEMMA ReconnectStep ==
  ASSUME IInv, NEW b \in Bs, ReconnectNow(b)
  PROVE  IInv'
<1> DEFINE c == Connect([Pool EXCEPT !.timer = Pool.timer \ {b}], b)
<1>1. Pool.timer = timer /\ Pool.bridged = bridgedDevices
  BY DEF Pool
<1>2. b \in Pool.timer /\ SpareUs(Pool) # {}
  BY <1>1 DEF ReconnectNow
<1>3. PoolInv(c) /\ c.bridged = bridgedDevices
  BY <1>1, <1>2, ReconnectKeeps DEF IInv
<1>4. SetPool(c) /\ UNCHANGED <<open, current, enabling, deviceState>>
  BY <1>1 DEF ReconnectNow, diskVars
<1> HIDE DEF c
<1>5. PoolInv(Pool)' /\ bridgedDevices' = bridgedDevices
  BY <1>3, <1>4, PoolSet
<1> QED BY <1>4, <1>5 DEF IInv, OthersType, Registered

\* The process ends: the pool is empty, whatever is on disk.
LEMMA ResetStep ==
  ASSUME IInv, Reset
  PROVE  IInv'
<1>1. PoolInv(Pool)' /\ bridgedDevices' = NoB
  BY EmptyKeeps, PoolSet DEF Reset
<1>2. OthersType'
  BY DEF Reset, OthersType
<1> QED BY <1>1, <1>2 DEF IInv, Registered

LEMMA SwitchStep ==
  ASSUME IInv, Suspend \/ Resume
  PROVE  IInv'
<1>1. UNCHANGED <<open, current, enabling, deviceState>> /\ current # NoDev
  BY DEF Suspend, Resume
<1>2. PoolInv(Pool)' /\ (bridgedDevices' # NoB => deviceState)
  <2>1. CASE Suspend
    BY <2>1, StopKeeps, PoolSet DEF Suspend, IInv
  <2>2. CASE Resume /\ deviceState
    <3>1. Room(Pool) /\ SetPool(Resumed(Pool))
      BY <2>2 DEF Resume
    <3>2. PoolInv(Resumed(Pool))
      BY <1>1, <3>1, StartKeeps DEF Resumed, IInv, OthersType
    <3> QED BY <2>2, <3>1, <3>2, PoolSet
  <2>3. CASE Resume /\ ~deviceState
    BY <2>3, PoolStays DEF Resume, IInv, Registered
  <2> QED BY <2>1, <2>2, <2>3
<1> QED BY <1>1, <1>2 DEF IInv, OthersType, Registered

LEMMA EnableStep ==
  ASSUME IInv, NEW k \in Calls, EnableBegins(k) \/ EnableEnds(k) \/ EnableFails(k)
  PROVE  IInv'
<1>1. OthersType'
  BY DEF IInv, OthersType, EnableBegins, EnableEnds, EnableFails
<1>2. PoolInv(Pool)' /\ (bridgedDevices' # NoB => deviceState')
  <2>1. CASE EnableBegins(k) \/ EnableFails(k)
    BY <2>1, PoolStays DEF EnableBegins, EnableFails, IInv, Registered, diskVars
  <2>2. CASE EnableEnds(k)
    <3>1. enabling[k] \in Devs /\ Room(Pool) /\ SetPool(CreateLate(Pool, enabling[k])) /\ deviceState'
      BY <2>2 DEF EnableEnds, IInv, OthersType
    <3>2. PoolInv(CreateLate(Pool, enabling[k]))
      BY <3>1, CreateLateKeeps DEF IInv
    <3> QED BY <3>1, <3>2, PoolSet
  <2> QED BY <2>1, <2>2
<1> QED BY <1>1, <1>2 DEF IInv, Registered

LEMMA DisableStep ==
  ASSUME IInv, Disable
  PROVE  IInv'
<1>1. PoolInv(Pool)' /\ bridgedDevices' = NoB
  BY StopKeeps, PoolSet DEF Disable, IInv
<1> QED BY <1>1 DEF IInv, OthersType, Registered, Disable

LEMMA AsideStep ==
  ASSUME IInv, PublishSelection \/ Login \/ Logout \/ UNCHANGED vars
  PROVE  IInv'
<1>1. UNCHANGED <<open, current, enabling, deviceState>> /\ UNCHANGED poolVars
  BY DEF PublishSelection, Login, Logout, vars, diskVars
<1>2. PoolInv(Pool)' /\ bridgedDevices' = bridgedDevices
  BY <1>1, PoolStays DEF IInv
<1> QED BY <1>1, <1>2 DEF IInv, OthersType, Registered

-----------------------------------------------------------------------------
THEOREM Invariance == Spec => []IInv
<1>1. IInv /\ [Next]_vars => IInv'
  <2> SUFFICES ASSUME IInv, [Next]_vars PROVE IInv'
    OBVIOUS
  <2>1. CASE \E d \in Devs : NewDevice(d) \/ DeviceCloses(d)
    BY <2>1, NewDeviceStep, DeviceClosesStep
  <2>2. CASE \E u \in Us : UpstreamOpens(u) \/ UpstreamCloses(u)
    BY <2>2, UpstreamStep
  <2>3. CASE \E b \in Bs : ReconnectNow(b)
    BY <2>3, ReconnectStep
  <2>4. CASE \/ Restart \/ PowerFailsInSuspended
             \/ \E u \in Us : FetchRejected(u)
             \/ \E k \in Calls : PowerFailsInRegister(k)
    <3>1. Reset
      BY <2>4 DEF Restart, PowerFailsInSuspended, FetchRejected, PowerFailsInRegister
    <3> QED BY <3>1, ResetStep
  <2>5. CASE Suspend \/ Resume
    BY <2>5, SwitchStep
  <2>6. CASE \E k \in Calls : EnableBegins(k) \/ EnableEnds(k) \/ EnableFails(k)
    BY <2>6, EnableStep
  <2>7. CASE Disable
    BY <2>7, DisableStep
  <2>8. CASE PublishSelection \/ Login \/ Logout \/ UNCHANGED vars
    BY <2>8, AsideStep
  <2> QED BY <2>1, <2>2, <2>3, <2>4, <2>5, <2>6, <2>7, <2>8 DEF Next
<1> QED BY <1>1, InitHolds, PTL DEF Spec

\* A live BridgedDevice has a connection or an armed timer, never both, and never
\* two connections, though its 'close' listener does not look at which connection
\* has closed (BridgedDevice, bridge/index.ts).
THEOREM AlwaysConnectedOnce == Spec => [](ConnectedOrWaiting /\ OneUpstreamEach)
<1>1. IInv => ConnectedOrWaiting /\ OneUpstreamEach
  <2> SUFFICES ASSUME IInv PROVE ConnectedOrWaiting /\ OneUpstreamEach
    OBVIOUS
  <2>1. /\ Pool.connection = connection /\ Pool.timer = timer /\ Pool.alive = alive
        /\ Pool.owner = owner
    BY DEF Pool
  <2>2. alive \subseteq Bs
    BY <2>1 DEF IInv, PoolInv, PoolType
  <2>3. ConnectedOrWaiting
    BY <2>1, <2>2 DEF IInv, PoolInv, Connected, ConnectedOrWaiting
  <2>4. OneUpstreamEach
    BY <2>1 DEF IInv, PoolInv, Listening, OneUpstreamEach
  <2> QED BY <2>3, <2>4
<1> QED BY <1>1, Invariance, PTL

\* A destroyed BridgedDevice has no timer that would connect it again and no
\* connection but what is being closed or, of ThinQ1, was still fetching when it
\* was destroyed (destroy, bridge/index.ts; destroy, bridge/thinq1connection.ts).
THEOREM DestroyedAlwaysQuiet == Spec => []DestroyedIsQuiet
<1>1. IInv => DestroyedIsQuiet
  <2>1. Pool.timer = timer /\ Pool.alive = alive /\ Pool.owner = owner /\ Pool.upstream = upstream
    BY DEF Pool
  <2> QED BY <2>1 DEF IInv, PoolInv, Connected, Released, DestroyedIsQuiet
<1> QED BY <1>1, Invariance, PTL

\* Both, for both kinds of appliances, whatever happens while calls of enable()
\* are under way and power fails in a write.
THEOREM PoolsAlwaysKept == Spec => []PoolsAreKept
<1>1. ConnectedOrWaiting /\ DestroyedIsQuiet => PoolsAreKept
  BY DEF PoolsAreKept
<1> QED BY <1>1, AlwaysConnectedOnce, DestroyedAlwaysQuiet, PTL

-----------------------------------------------------------------------------
(* What is bridged.  The lemmas below say what each operation on the pool  *)
(* leaves of the BridgedDevices that live, of those that enable() has      *)
(* misplaced, of the entry of the map and of the Devices they listen to.   *)

LEMMA DestroyLeaves ==
  ASSUME NEW q \in PoolType, NEW S \in SUBSET Bs
  PROVE  /\ Destroy(q, S).bridged = q.bridged /\ Destroy(q, S).alive = q.alive \ S
         /\ Destroy(q, S).outrun = q.outrun
         /\ \A b \in Bs \ S : Destroy(q, S).downstream[b] = q.downstream[b]
<1> DEFINE d == Detach(q, S)
           ds == [b \in Bs |-> IF b \in S THEN NoDev ELSE q.downstream[b]]
<1>1. d \in PoolType /\ d.bridged = q.bridged /\ d.outrun = q.outrun
  BY DetachFields
<1>2. Destroy(q, S) = [d EXCEPT !.alive = q.alive \ S, !.timer = q.timer \ S, !.downstream = ds]
  BY DEF Destroy
<1>3. \A b \in Bs \ S : ds[b] = q.downstream[b]
  OBVIOUS
<1> HIDE DEF d, ds
<1> QED BY <1>1, <1>2, <1>3 DEF PoolType

LEMMA StopLeaves ==
  ASSUME NEW q \in PoolType
  PROVE  /\ Stop(q).bridged = NoB /\ Stop(q).alive = q.alive \ {q.bridged}
         /\ Stop(q).outrun = q.outrun
         /\ \A b \in Stop(q).alive : Stop(q).downstream[b] = q.downstream[b]
<1>1. CASE q.bridged = NoB
  <2>1. NoB \notin q.alive
    BY CloudBridgeAssumption DEF PoolType
  <2> QED BY <1>1, <2>1 DEF Stop
<1>2. CASE q.bridged # NoB
  <2> DEFINE r == [q EXCEPT !.bridged = NoB]
  <2>1. /\ r \in PoolType /\ r.bridged = NoB /\ r.alive = q.alive
        /\ r.downstream = q.downstream /\ r.outrun = q.outrun
    BY DEF PoolType
  <2>2. Stop(q) = Destroy(r, {q.bridged})
    BY <1>2 DEF Stop
  <2>3. {q.bridged} \in SUBSET Bs /\ q.alive \subseteq Bs
    BY <1>2 DEF PoolType
  <2> HIDE DEF r
  <2>4. /\ Stop(q).bridged = NoB /\ Stop(q).alive = q.alive \ {q.bridged}
        /\ Stop(q).outrun = q.outrun
        /\ \A b \in Bs \ {q.bridged} : Stop(q).downstream[b] = q.downstream[b]
    BY <2>1, <2>2, <2>3, DestroyLeaves
  <2> QED BY <2>3, <2>4
<1> QED BY <1>1, <1>2

LEMMA DeviceCloseLeaves ==
  ASSUME NEW q, PoolInv(q), NEW d
  PROVE  /\ DeviceClose(q, d).bridged = IF current = d THEN NoB ELSE q.bridged
         /\ DeviceClose(q, d).outrun = q.outrun
         /\ DeviceClose(q, d).alive =
              {b \in q.alive : q.downstream[b] # d /\ (current = d => b # q.bridged)}
         /\ \A b \in DeviceClose(q, d).alive : DeviceClose(q, d).downstream[b] = q.downstream[b]
<1> DEFINE q1 == IF current = d THEN Stop(q) ELSE q
           S == {b \in q1.alive : q1.downstream[b] = d}
<1>0. q \in PoolType
  BY DEF PoolInv
<1>1. q1 \in PoolType
  BY StopKeeps DEF PoolInv
<1>2. /\ q1.bridged = IF current = d THEN NoB ELSE q.bridged
      /\ q1.outrun = q.outrun
      /\ q1.alive = {b \in q.alive : current = d => b # q.bridged}
      /\ \A b \in q1.alive : q1.downstream[b] = q.downstream[b]
  BY <1>0, StopLeaves
<1>3. DeviceClose(q, d) = Destroy(q1, S)
  BY DEF DeviceClose
<1> HIDE DEF q1
<1>4. S \in SUBSET Bs /\ q1.alive \subseteq Bs
  BY <1>1 DEF PoolType
<1>5. S = {b \in q.alive : (current = d => b # q.bridged) /\ q.downstream[b] = d}
  BY <1>2
<1> HIDE DEF S
<1>6. /\ DeviceClose(q, d).bridged = q1.bridged /\ DeviceClose(q, d).alive = q1.alive \ S
      /\ DeviceClose(q, d).outrun = q1.outrun
      /\ \A b \in Bs \ S : DeviceClose(q, d).downstream[b] = q1.downstream[b]
  BY <1>1, <1>3, <1>4, DestroyLeaves
<1> QED BY <1>2, <1>4, <1>5, <1>6

LEMMA DisconnectLeaves ==
  ASSUME NEW q \in PoolType, NEW b
  PROVE  /\ Disconnect(q, b).bridged = q.bridged /\ Disconnect(q, b).alive = q.alive
         /\ Disconnect(q, b).downstream = q.downstream /\ Disconnect(q, b).outrun = q.outrun
<1> DEFINE e == Detach(q, {b})
<1>1. /\ e.bridged = q.bridged /\ e.alive = q.alive /\ e.downstream = q.downstream
      /\ e.outrun = q.outrun /\ DOMAIN e = DOMAIN q
  BY DEF Detach, PoolType
<1>2. DOMAIN q = {"bridged", "alive", "downstream", "connection", "timer", "upstream", "owner",
                  "outrun"}
  BY DEF PoolType
<1>3. Disconnect(q, b) \in {q, [e EXCEPT !.timer = q.timer \cup {b}]}
  BY DEF Disconnect
<1> HIDE DEF e
<1> QED BY <1>1, <1>2, <1>3

\* What an enable() makes after its wait: it has misplaced the entry that it
\* overwrites, and the new one if its Device is not the present one.
LEMMA CreateLateLeaves ==
  ASSUME NEW q \in PoolType, NEW d \in Devs, Room(q)
  PROVE  \E b \in Bs \ q.alive :
         /\ CreateLate(q, d).bridged = b /\ CreateLate(q, d).alive = q.alive \cup {b}
         /\ CreateLate(q, d).downstream = [q.downstream EXCEPT ![b] = d]
         /\ q.outrun \ {b} \subseteq CreateLate(q, d).outrun
         /\ q.bridged # NoB => q.bridged \in CreateLate(q, d).outrun
         /\ d # current => b \in CreateLate(q, d).outrun
<1> DEFINE c == Create(q, d)
           os == c.outrun \cup ({q.bridged} \ {NoB}) \cup (IF d = current THEN {} ELSE {c.bridged})
<1>1. PICK b \in Bs \ q.alive :
         /\ b # q.bridged
         /\ c.bridged = b /\ c.alive = q.alive \cup {b}
         /\ c.downstream = [q.downstream EXCEPT ![b] = d]
         /\ c.outrun = q.outrun \ {b}
  BY CreateLeaves
<1>2. CreateLate(q, d) = [c EXCEPT !.outrun = os]
  BY DEF CreateLate
<1>3. /\ q.outrun \ {b} \subseteq os /\ (q.bridged # NoB => q.bridged \in os)
      /\ (d # current => b \in os)
  BY <1>1
<1>4. DOMAIN c = {"bridged", "alive", "downstream", "connection", "timer", "upstream", "owner",
                  "outrun"}
  BY DEF Create, Connect, PoolType
<1> HIDE DEF c, os
<1>5. /\ CreateLate(q, d).bridged = c.bridged /\ CreateLate(q, d).alive = c.alive
      /\ CreateLate(q, d).downstream = c.downstream /\ CreateLate(q, d).outrun = os
  BY <1>2, <1>4
<1> QED BY <1>1, <1>3, <1>5

(***************************************************************************)
(* The bridge as the user sees it.  The entry of the map lives and listens *)
(* to the present Device; whatever else lives listens to a Device that is  *)
(* still to close.  What enable() has misplaced is beside that.            *)
(***************************************************************************)
Fits(q, cur, os) ==
  /\ q.bridged \notin q.outrun \cup {NoB} =>
       q.bridged \in q.alive /\ cur # NoDev /\ q.downstream[q.bridged] = cur
  /\ \A b \in q.alive \ q.outrun : b = q.bridged \/ q.downstream[b] \in os \ {cur}

\* A ThinQ2 appliance has one session, a ThinQ1 appliance no switch.
PlatformFits ==
  /\ suspended \in BOOLEAN /\ deviceState \in BOOLEAN
  /\ current \in open \cup {NoDev}
  /\ Platform = "thinq2" => open \subseteq {current}
  /\ Platform = "thinq1" => ~suspended

\* What is online and should be bridged has been started.
Started == current # NoDev /\ deviceState /\ ~suspended => bridgedDevices # NoB

\* Only a call of enable() misplaces, or starts what is suspended.
Orderly ==
  Calls = {} => /\ outrun = {}
                /\ suspended => bridgedDevices = NoB

UserInv == Fits(Pool, current, open) /\ PlatformFits /\ Started /\ Orderly

FullInv == IInv /\ UserInv

LEMMA PoolFields ==
  /\ Pool.bridged = bridgedDevices /\ Pool.alive = alive /\ Pool.downstream = downstream
  /\ Pool.upstream = upstream /\ Pool.owner = owner /\ Pool.timer = timer
  /\ Pool.connection = connection /\ Pool.outrun = outrun
  BY DEF Pool

\* An action leaves the pool it sets.
LEMMA FitsSet ==
  ASSUME NEW q, SetPool(q), Fits(q, current', open')
  PROVE  Fits(Pool, current, open)' /\ bridgedDevices' = q.bridged /\ outrun' = q.outrun
  BY DEF SetPool, Pool, Fits

LEMMA FitsStays ==
  ASSUME Fits(Pool, current, open), UNCHANGED poolVars, UNCHANGED <<open, current>>
  PROVE  Fits(Pool, current, open)' /\ bridgedDevices' = bridgedDevices /\ outrun' = outrun
  BY DEF Fits, Pool, poolVars

\* The Device of the entry: its BridgedDevice goes; the others wait for theirs.
LEMMA StopFits ==
  ASSUME NEW q \in PoolType, NEW cur, NEW os, Fits(q, cur, os)
  PROVE  Fits(Stop(q), cur, os) /\ Stop(q).bridged = NoB /\ Stop(q).outrun = q.outrun
  BY StopLeaves DEF Fits

\* A Device closes, the present one or one that was replaced.
LEMMA CloseFits ==
  ASSUME NEW q, PoolInv(q), NEW d, Fits(q, current, open), NoDev \notin open
  PROVE  /\ Fits(DeviceClose(q, d), IF current = d THEN NoDev ELSE current, open \ {d})
         /\ DeviceClose(q, d).bridged = IF current = d THEN NoB ELSE q.bridged
         /\ DeviceClose(q, d).outrun = q.outrun
<1> DEFINE r == DeviceClose(q, d)
<1>1. /\ r.bridged = IF current = d THEN NoB ELSE q.bridged
      /\ r.outrun = q.outrun
      /\ r.alive = {b \in q.alive : q.downstream[b] # d /\ (current = d => b # q.bridged)}
      /\ \A b \in r.alive : r.downstream[b] = q.downstream[b]
  BY DeviceCloseLeaves
<1> HIDE DEF r
<1>2. \A b \in r.alive : /\ b \in q.alive /\ q.downstream[b] # d /\ (current = d => b # q.bridged)
                         /\ r.downstream[b] = q.downstream[b]
  BY <1>1
<1>3. CASE current = d
  <2>1. r.bridged = NoB
    BY <1>1, <1>3
  <2>2. ASSUME NEW b \in r.alive \ r.outrun PROVE r.downstream[b] \in (open \ {d}) \ {NoDev}
    <3>1. /\ b \in q.alive \ q.outrun /\ q.downstream[b] # d /\ b # q.bridged
          /\ r.downstream[b] = q.downstream[b]
      BY <1>1, <1>2, <1>3
    <3> QED BY <3>1 DEF Fits
  <2>3. Fits(r, NoDev, open \ {d})
    BY <2>1, <2>2 DEF Fits
  <2> QED BY <1>1, <1>3, <2>1, <2>3 DEF r
<1>4. CASE current # d
  <2>1. r.bridged = q.bridged
    BY <1>1, <1>4
  <2>2. r.bridged \notin r.outrun \cup {NoB} =>
          r.bridged \in r.alive /\ current # NoDev /\ r.downstream[r.bridged] = current
    <3> SUFFICES ASSUME r.bridged \notin r.outrun \cup {NoB}
                 PROVE  r.bridged \in r.alive /\ current # NoDev /\ r.downstream[r.bridged] = current
      OBVIOUS
    <3>1. q.bridged \in q.alive /\ current # NoDev /\ q.downstream[q.bridged] = current
      BY <1>1, <2>1 DEF Fits
    <3>2. q.bridged \in r.alive
      BY <1>1, <1>4, <3>1
    <3> QED BY <1>1, <2>1, <3>1, <3>2
  <2>3. ASSUME NEW b \in r.alive \ r.outrun
        PROVE  b = r.bridged \/ r.downstream[b] \in (open \ {d}) \ {current}
    <3>1. b \in q.alive \ q.outrun /\ q.downstream[b] # d /\ r.downstream[b] = q.downstream[b]
      BY <1>1, <1>2
    <3> QED BY <2>1, <3>1 DEF Fits
  <2>4. Fits(r, current, open \ {d})
    BY <2>2, <2>3 DEF Fits
  <2> QED BY <1>1, <1>4, <2>1, <2>4 DEF r
<1> QED BY <1>3, <1>4

\* A new BridgedDevice for Device d, when what lives listens to others.
LEMMA CreateFits ==
  ASSUME NEW q \in PoolType, NEW d \in Devs, Room(q), NEW os,
         \A b \in q.alive \ q.outrun : q.downstream[b] \in os \ {d}
  PROVE  /\ Fits(Create(q, d), d, os) /\ Create(q, d).bridged # NoB
         /\ Create(q, d).outrun \subseteq q.outrun
<1> DEFINE c == Create(q, d)
<1>1. PICK b \in Bs \ q.alive :
         /\ b # q.bridged
         /\ c.bridged = b /\ c.alive = q.alive \cup {b}
         /\ c.downstream = [q.downstream EXCEPT ![b] = d]
         /\ c.outrun = q.outrun \ {b}
  BY CreateLeaves
<1> HIDE DEF c
<1>2. q.downstream \in [Bs -> Devs \cup {NoDev}] /\ q.alive \subseteq Bs
  BY DEF PoolType
<1>3. Fits(c, d, os)
  BY <1>1, <1>2, CloudBridgeAssumption DEF Fits
<1> QED BY <1>1, <1>3, CloudBridgeAssumption DEF c

\* The same by an enable() that has waited, whatever has changed since.
LEMMA CreateLateFits ==
  ASSUME NEW q \in PoolType, NEW d \in Devs, Room(q), NEW os, Fits(q, current, os)
  PROVE  Fits(CreateLate(q, d), current, os) /\ CreateLate(q, d).bridged # NoB
<1> DEFINE c == CreateLate(q, d)
<1>1. PICK b \in Bs \ q.alive :
         /\ c.bridged = b /\ c.alive = q.alive \cup {b}
         /\ c.downstream = [q.downstream EXCEPT ![b] = d]
         /\ q.outrun \ {b} \subseteq c.outrun
         /\ q.bridged # NoB => q.bridged \in c.outrun
         /\ d # current => b \in c.outrun
  BY CreateLateLeaves
<1> HIDE DEF c
<1>2. q.downstream \in [Bs -> Devs \cup {NoDev}] /\ q.alive \subseteq Bs
  BY DEF PoolType
<1>3. ASSUME c.bridged \notin c.outrun \cup {NoB}
      PROVE  c.bridged \in c.alive /\ current # NoDev /\ c.downstream[c.bridged] = current
  BY <1>1, <1>2, <1>3, CloudBridgeAssumption
<1>4. ASSUME NEW x \in c.alive \ c.outrun, x # c.bridged
      PROVE  c.downstream[x] \in os \ {current}
  <2>1. x \in q.alive /\ x # b /\ x \notin q.outrun /\ x # q.bridged
    BY <1>1, <1>2, <1>4, CloudBridgeAssumption
  <2>2. q.downstream[x] \in os \ {current}
    BY <2>1 DEF Fits
  <2> QED BY <1>1, <1>2, <2>1, <2>2
<1>5. Fits(c, current, os)
  BY <1>3, <1>4 DEF Fits
<1> QED BY <1>1, <1>5, CloudBridgeAssumption DEF c

LEMMA FullTypes ==
  ASSUME FullInv
  PROVE  /\ Pool \in PoolType /\ alive \subseteq Bs /\ NoB \notin alive
         /\ NoDev \notin open
         /\ current # NoDev => current \in open
         /\ \A b \in alive \ outrun : b = bridgedDevices \/ downstream[b] \in open \ {current}
         /\ bridgedDevices \notin outrun \cup {NoB} =>
              /\ bridgedDevices \in alive /\ current # NoDev
              /\ downstream[bridgedDevices] = current
<1>1. Pool \in PoolType
  BY DEF FullInv, IInv, PoolInv
<1>2. alive \subseteq Bs /\ NoB \notin alive
  BY <1>1, PoolFields, CloudBridgeAssumption DEF PoolType
<1>3. NoDev \notin open
  BY CloudBridgeAssumption DEF FullInv, IInv, OthersType
<1> QED BY <1>1, <1>2, <1>3, PoolFields DEF FullInv, UserInv, Fits, PlatformFits

LEMMA UserInit == Init => UserInv
<1> SUFFICES ASSUME Init PROVE UserInv
  OBVIOUS
<1>1. Fits(Pool, current, open)
  BY PoolFields DEF Init, Fits
<1>2. PlatformFits
  BY DEF Init, PlatformFits, HasSwitch
<1>3. Started /\ Orderly
  BY DEF Init, Started, Orderly
<1> QED BY <1>1, <1>2, <1>3 DEF UserInv

\* The new Device is bridged exactly if it should be; what an older one of
\* ThinQ1 leaves waits for its 'close'.
LEMMA NewDeviceUser ==
  ASSUME FullInv, NEW d \in Devs, NewDevice(d)
  PROVE  UserInv'
<1> DEFINE replaces == Platform = "thinq2" /\ current # NoDev
           q == IF replaces THEN DeviceClose(Pool, current) ELSE Pool
           r == Start(q, d, suspended)
<1>1. /\ d \notin open /\ Room(q) /\ current' = d
      /\ open' = (IF replaces THEN open \ {current} ELSE open) \cup {d}
      /\ SetPool(r) /\ deviceState' = deviceState /\ suspended' = suspended
  BY DEF NewDevice, diskVars
<1>2. PoolInv(q)
  BY DeviceCloseKeeps DEF FullInv, IInv
<1>3. /\ \A b \in q.alive \ q.outrun : q.downstream[b] \in open' \ {d}
      /\ q.bridged \notin q.outrun \cup {NoB} => deviceState /\ ~suspended
      /\ q.outrun = outrun
  <2>1. CASE replaces
    <3>1. /\ Fits(DeviceClose(Pool, current), NoDev, open \ {current})
          /\ DeviceClose(Pool, current).bridged = NoB
          /\ DeviceClose(Pool, current).outrun = outrun
      BY FullTypes, CloseFits, PoolFields DEF FullInv, IInv, UserInv
    <3>2. open \ {current} = {}
      BY <2>1 DEF FullInv, UserInv, PlatformFits
    <3>3. q = DeviceClose(Pool, current)
      BY <2>1
    <3> HIDE DEF q
    <3>4. NoB \notin q.alive
      BY <1>2, CloudBridgeAssumption DEF PoolInv, PoolType
    <3>5. q.alive \ q.outrun = {}
      BY <3>1, <3>2, <3>3, <3>4 DEF Fits
    <3> QED BY <3>1, <3>3, <3>5
  <2>2. CASE ~replaces
    <3>1. q = Pool /\ open' = open \cup {d}
      BY <1>1, <2>2
    <3>2. \A b \in alive \ outrun : downstream[b] \in open
      BY FullTypes
    <3>3. bridgedDevices \notin outrun \cup {NoB} => deviceState
      BY DEF FullInv, IInv, Registered
    <3>4. bridgedDevices \notin outrun \cup {NoB} => ~suspended
      BY <2>2, FullTypes, CloudBridgeAssumption DEF FullInv, UserInv, PlatformFits
    <3> HIDE DEF q
    <3> QED BY <1>1, <3>1, <3>2, <3>3, <3>4, PoolFields
  <2> QED BY <2>1, <2>2
<1> HIDE DEF q
<1>4. q \in PoolType
  BY <1>2 DEF PoolInv
<1>5. /\ Fits(r, d, open') /\ r.outrun \subseteq outrun
      /\ deviceState /\ ~suspended => r.bridged # NoB
      /\ suspended => r.bridged \in outrun \cup {NoB}
  <2>1. CASE suspended \/ ~deviceState
    <3>1. r = q
      BY <2>1 DEF Start
    <3> QED BY <1>3, <2>1, <3>1 DEF Fits
  <2>2. CASE ~suspended /\ deviceState
    <3>1. r = Create(q, d)
      BY <2>2 DEF Start
    <3> QED BY <1>1, <1>3, <1>4, <2>2, <3>1, CreateFits
  <2> QED BY <2>1, <2>2
<1> HIDE DEF r
<1>6. Fits(Pool, current, open)' /\ bridgedDevices' = r.bridged /\ outrun' = r.outrun
  BY <1>1, <1>5, FitsSet
<1>7. PlatformFits'
  <2>1. Platform = "thinq2" => open' \subseteq {d}
    BY <1>1, FullTypes DEF FullInv, UserInv, PlatformFits
  <2> QED BY <1>1, <2>1 DEF FullInv, UserInv, PlatformFits
<1>8. Started' /\ Orderly'
  BY <1>1, <1>5, <1>6 DEF Started, Orderly, FullInv, UserInv
<1> QED BY <1>6, <1>7, <1>8 DEF UserInv

LEMMA DeviceClosesUser ==
  ASSUME FullInv, NEW d \in Devs, DeviceCloses(d)
  PROVE  /\ UserInv'
         /\ bridgedDevices' = IF current = d THEN NoB ELSE bridgedDevices
<1> DEFINE r == DeviceClose(Pool, d)
<1>1. /\ open' = open \ {d} /\ current' = IF current = d THEN NoDev ELSE current
      /\ SetPool(r) /\ deviceState' = deviceState /\ suspended' = suspended
  BY DEF DeviceCloses, diskVars
<1>2. /\ Fits(r, IF current = d THEN NoDev ELSE current, open \ {d})
      /\ r.bridged = IF current = d THEN NoB ELSE bridgedDevices
      /\ r.outrun = outrun
  BY FullTypes, CloseFits, PoolFields DEF FullInv, IInv, UserInv
<1> HIDE DEF r
<1>3. Fits(Pool, current, open)' /\ bridgedDevices' = r.bridged /\ outrun' = r.outrun
  BY <1>1, <1>2, FitsSet
<1>4. PlatformFits'
  <2>1. current' \in open' \cup {NoDev}
    BY <1>1 DEF FullInv, UserInv, PlatformFits
  <2>2. Platform = "thinq2" => open' \subseteq {current'}
    BY <1>1 DEF FullInv, UserInv, PlatformFits
  <2> QED BY <1>1, <2>1, <2>2 DEF FullInv, UserInv, PlatformFits
<1>5. Started' /\ Orderly'
  BY <1>1, <1>2, <1>3 DEF FullInv, UserInv, Started, Orderly
<1> QED BY <1>2, <1>3, <1>4, <1>5 DEF UserInv

\* Connections come and go under a BridgedDevice.
LEMMA ConnectionUser ==
  ASSUME FullInv,
         \/ \E u \in Us : UpstreamOpens(u) \/ UpstreamCloses(u)
         \/ \E b \in Bs : ReconnectNow(b)
  PROVE  UserInv' /\ UNCHANGED <<bridgedDevices, alive, open, current, deviceState, suspended>>
<1>1. UNCHANGED <<open, current, deviceState, suspended>>
  BY DEF UpstreamOpens, UpstreamCloses, ReconnectNow, diskVars
<1>2. UNCHANGED <<bridgedDevices, alive, downstream, outrun>>
  <2>1. CASE \E u \in Us : UpstreamOpens(u)
    BY <2>1 DEF UpstreamOpens
  <2>2. ASSUME NEW u \in Us, UpstreamCloses(u)
        PROVE  UNCHANGED <<bridgedDevices, alive, downstream, outrun>>
    <3> DEFINE q == Disconnect(Pool, owner[u])
               r == [q EXCEPT !.upstream[u] = "free", !.owner[u] = NoB]
    <3>1. q.bridged = bridgedDevices /\ q.alive = alive /\ q.downstream = downstream /\ q.outrun = outrun
      BY FullTypes, DisconnectLeaves, PoolFields
    <3>2. SetPool(r)
      BY <2>2 DEF UpstreamCloses
    <3> HIDE DEF q
    <3>3. r.bridged = q.bridged /\ r.alive = q.alive /\ r.downstream = q.downstream /\ r.outrun = q.outrun
      OBVIOUS
    <3> HIDE DEF r
    <3> QED BY <3>1, <3>2, <3>3 DEF SetPool
  <2>3. ASSUME NEW b \in Bs, ReconnectNow(b)
        PROVE  UNCHANGED <<bridgedDevices, alive, downstream, outrun>>
    <3> DEFINE q == [Pool EXCEPT !.timer = timer \ {b}]
    <3>1. SetPool(Connect(q, b))
      BY <2>3 DEF ReconnectNow
    <3>2. timer \ {b} \in SUBSET Bs
      BY FullTypes, PoolFields DEF PoolType
    <3>3. /\ q \in PoolType /\ q.bridged = bridgedDevices /\ q.alive = alive
          /\ q.downstream = downstream /\ q.outrun = outrun
      BY FullTypes, PoolFields, <3>2 DEF PoolType
    <3> HIDE DEF q
    <3> QED BY <3>1, <3>3, ConnectLeaves DEF SetPool
  <2> QED BY <2>1, <2>2, <2>3
<1>3. Fits(Pool, current, open)'
  BY <1>1, <1>2 DEF FullInv, UserInv, Fits, Pool
<1> QED BY <1>1, <1>2, <1>3 DEF FullInv, UserInv, PlatformFits, Started, Orderly

LEMMA ResetUser ==
  ASSUME FullInv, Reset, deviceState' \in BOOLEAN, suspended' \in BOOLEAN, suspended' => suspended
  PROVE  UserInv' /\ bridgedDevices' = NoB
<1>1. Fits(Pool, current, open)' /\ bridgedDevices' = NoB /\ outrun' = {}
  BY EmptyKeeps, FitsSet DEF Reset, Fits, EmptyPool
<1>2. PlatformFits'
  BY DEF FullInv, UserInv, PlatformFits, Reset
<1>3. Started' /\ Orderly'
  BY <1>1 DEF Started, Orderly, Reset
<1> QED BY <1>1, <1>2, <1>3 DEF UserInv

\* The switch in Home Assistant.
LEMMA SuspendUser ==
  ASSUME FullInv, Suspend
  PROVE  UserInv' /\ bridgedDevices' = NoB
<1>1. /\ SetPool(Stop(Pool)) /\ suspended' = TRUE /\ Platform = "thinq2"
      /\ UNCHANGED <<open, current, deviceState>>
  BY DEF Suspend, HasSwitch
<1>2. Fits(Stop(Pool), current, open) /\ Stop(Pool).bridged = NoB /\ Stop(Pool).outrun = outrun
  BY FullTypes, StopFits, PoolFields DEF FullInv, UserInv
<1>3. Fits(Pool, current, open)' /\ bridgedDevices' = NoB /\ outrun' = outrun
  BY <1>1, <1>2, FitsSet
<1> QED BY <1>1, <1>3 DEF FullInv, UserInv, PlatformFits, Started, Orderly

\* Without an entry, what lives waits for the 'close' of a replaced Device.
LEMMA NoneBeside ==
  ASSUME FullInv, bridgedDevices = NoB
  PROVE  \A b \in alive \ outrun : downstream[b] \in open \ {current}
  BY FullTypes

LEMMA ResumeUser ==
  ASSUME FullInv, Resume
  PROVE  /\ UserInv'
         /\ deviceState => bridgedDevices' # NoB /\ suspended' = FALSE
         /\ ~deviceState => UNCHANGED <<poolVars, suspended>>
         /\ UNCHANGED <<open, current, deviceState>> /\ current # NoDev
<1>1. /\ UNCHANGED <<open, current, deviceState>> /\ Room(Pool) /\ current # NoDev
      /\ deviceState => suspended' = FALSE /\ SetPool(Resumed(Pool))
      /\ ~deviceState => UNCHANGED <<suspended, poolVars>>
  BY DEF Resume
<1>2. CASE deviceState
  <2>1. /\ Fits(Resumed(Pool), current, open) /\ Resumed(Pool).bridged # NoB
        /\ Resumed(Pool).outrun \subseteq outrun
    <3>1. CASE bridgedDevices # NoB
      BY <3>1, PoolFields DEF Resumed, FullInv, UserInv
    <3>2. CASE bridgedDevices = NoB
      <4>1. Resumed(Pool) = Create(Pool, current)
        BY <1>2, <3>2, PoolFields DEF Resumed, Start
      <4>2. current \in Devs
        BY <1>1 DEF FullInv, IInv, OthersType
      <4> QED BY <1>1, <3>2, <4>1, <4>2, FullTypes, NoneBeside, PoolFields, CreateFits
    <3> QED BY <3>1, <3>2
  <2>2. Fits(Pool, current, open)' /\ bridgedDevices' # NoB /\ outrun' \subseteq outrun
    BY <1>1, <1>2, <2>1, FitsSet
  <2> QED BY <1>1, <1>2, <2>2 DEF FullInv, UserInv, PlatformFits, Started, Orderly
<1>3. CASE ~deviceState
  <2>1. Fits(Pool, current, open)' /\ bridgedDevices' = bridgedDevices /\ outrun' = outrun
    BY <1>1, <1>3, FitsStays DEF FullInv, UserInv
  <2> QED BY <1>1, <1>3, <2>1 DEF FullInv, UserInv, PlatformFits, Started, Orderly
<1> QED BY <1>2, <1>3

\* The management page.  What enable() does after its wait fits, beside what it
\* has misplaced.
LEMMA EnableEndsUser ==
  ASSUME FullInv, NEW k \in Calls, EnableEnds(k)
  PROVE  UserInv'
<1>1. /\ enabling[k] \in Devs /\ Room(Pool) /\ SetPool(CreateLate(Pool, enabling[k]))
      /\ deviceState' = TRUE /\ UNCHANGED <<open, current, suspended>>
  BY DEF EnableEnds, FullInv, IInv, OthersType
<1>2. /\ Fits(CreateLate(Pool, enabling[k]), current, open)
      /\ CreateLate(Pool, enabling[k]).bridged # NoB
  BY <1>1, FullTypes, CreateLateFits DEF FullInv, UserInv
<1>3. Fits(Pool, current, open)' /\ bridgedDevices' # NoB
  BY <1>1, <1>2, FitsSet
<1> QED BY <1>1, <1>3 DEF FullInv, UserInv, PlatformFits, Started, Orderly

LEMMA DisableUser ==
  ASSUME FullInv, Disable
  PROVE  UserInv' /\ bridgedDevices' = NoB
<1>1. /\ SetPool(Stop(Pool)) /\ deviceState' = FALSE
      /\ UNCHANGED <<open, current, suspended>>
  BY DEF Disable
<1>2. Fits(Stop(Pool), current, open) /\ Stop(Pool).bridged = NoB /\ Stop(Pool).outrun = outrun
  BY FullTypes, StopFits, PoolFields DEF FullInv, UserInv
<1>3. Fits(Pool, current, open)' /\ bridgedDevices' = NoB /\ outrun' = outrun
  BY <1>1, <1>2, FitsSet
<1> QED BY <1>1, <1>3 DEF FullInv, UserInv, PlatformFits, Started, Orderly

LEMMA AsideUser ==
  ASSUME FullInv,
         \/ PublishSelection \/ Login \/ Logout \/ UNCHANGED vars
         \/ \E k \in Calls : EnableBegins(k) \/ EnableFails(k)
  PROVE  UserInv' /\ UNCHANGED <<bridgedDevices, alive, open, current, deviceState, suspended>>
<1>1. UNCHANGED <<open, current, deviceState, suspended, poolVars>>
  BY DEF PublishSelection, Login, Logout, EnableBegins, EnableFails, vars, diskVars
<1>2. Fits(Pool, current, open)' /\ bridgedDevices' = bridgedDevices /\ outrun' = outrun
  BY <1>1, FitsStays DEF FullInv, UserInv
<1> QED BY <1>1, <1>2 DEF FullInv, UserInv, PlatformFits, Started, Orderly, poolVars

-----------------------------------------------------------------------------
\* A step of FullInv keeps what is said of the user's bridge.
LEMMA UserStep ==
  ASSUME FullInv, [Next]_vars
  PROVE  UserInv'
<1>1. CASE \/ Restart \/ PowerFailsInSuspended
           \/ \E u \in Us : FetchRejected(u)
           \/ \E k \in Calls : PowerFailsInRegister(k)
  <2>1. /\ Reset /\ suspended' \in {suspended, FALSE} /\ deviceState' \in {deviceState, FALSE}
    BY <1>1 DEF Restart, PowerFailsInSuspended, FetchRejected, PowerFailsInRegister, diskVars
  <2>2. suspended \in BOOLEAN /\ deviceState \in BOOLEAN
    BY DEF FullInv, UserInv, PlatformFits
  <2>3. suspended' \in BOOLEAN /\ deviceState' \in BOOLEAN
    BY <2>1, <2>2
  <2>4. suspended' => suspended
    BY <2>1
  <2> QED BY <2>1, <2>3, <2>4, ResetUser
<1>2. CASE \E k \in Calls : EnableEnds(k)
  BY <1>2, EnableEndsUser
<1>3. CASE \/ PublishSelection \/ Login \/ Logout \/ UNCHANGED vars
           \/ \E k \in Calls : EnableBegins(k) \/ EnableFails(k)
  BY <1>3, AsideUser
<1>4. CASE \/ \E u \in Us : UpstreamOpens(u) \/ UpstreamCloses(u)
           \/ \E b \in Bs : ReconnectNow(b)
  BY <1>4, ConnectionUser
<1>5. CASE \E d \in Devs : NewDevice(d) \/ DeviceCloses(d)
  BY <1>5, NewDeviceUser, DeviceClosesUser
<1>6. CASE Suspend \/ Resume
  BY <1>6, SuspendUser, ResumeUser
<1>7. CASE Disable
  BY <1>7, DisableUser
<1> QED BY <1>1, <1>2, <1>3, <1>4, <1>5, <1>6, <1>7 DEF Next

LEMMA FullInvariance == Spec => []FullInv
<1>1. FullInv /\ [Next]_vars => UserInv'
  BY UserStep
<1>2. Spec => []IInv
  BY Invariance
<1>3. IInv /\ UserInv <=> FullInv
  BY DEF FullInv
<1>4. Init => UserInv
  BY UserInit
<1> QED BY <1>1, <1>2, <1>3, <1>4, PTL DEF Spec

\* What is online, registered and not suspended is bridged, to its present
\* Device, however the sessions of the appliance, the page, the switch, restarts,
\* the cloud's disconnections and the ends of waiting calls of enable() follow one
\* another, on both platforms.  The exception is the entry that enable() made
\* itself for a Device that had gone while it waited (bridge/index.ts).
THEOREM OnlineAlwaysBridged == Spec => []OnlineIsBridged
<1>1. FullInv => OnlineIsBridged
  BY FullTypes DEF FullInv, UserInv, Started, OnlineIsBridged
<1> QED BY <1>1, FullInvariance, PTL

\* And it is bridged once: a BridgedDevice beside the entry of the map listens to
\* a Device that was replaced and is still to close, unless an enable() that had
\* waited misplaced it, and none has two connections (#start overwrites an entry,
\* bridge/index.ts).
THEOREM BridgedAlwaysOnce == Spec => []AttachedOnce
<1>1. FullInv => NoneIsLeaked
  BY FullTypes DEF NoneIsLeaked
<1>2. Spec => []OneUpstreamEach
  BY AlwaysConnectedOnce, PTL
<1>3. NoneIsLeaked /\ OneUpstreamEach => AttachedOnce
  BY DEF AttachedOnce
<1> QED BY <1>1, <1>2, <1>3, FullInvariance, PTL

\* What is not registered is not attached: without a registration on disk the map
\* has no entry, and what lives waits for the 'close' of a replaced Device, or was
\* misplaced by an enable() that had waited; wherever power fails (enable and
\* disable, bridge/index.ts).
THEOREM BridgedAlwaysRegistered == Spec => []BridgedIsRegistered
<1>1. FullInv => BridgedIsRegistered
  <2>1. FullInv /\ ~deviceState => bridgedDevices = NoB
    BY DEF FullInv, IInv, Registered
  <2> QED BY <2>1, NoneBeside DEF BridgedIsRegistered
<1> QED BY <1>1, FullInvariance, PTL

\* While the switch of a dryer that no call of enable() registers again has the
\* bridge suspended, nothing of it lives and no connection is left that is not
\* being closed (suspend, #start, bridge/index.ts).
THEOREM SuspendedAlwaysDetached ==
  ASSUME Calls = {}
  PROVE  Spec => []SuspendedIsDetached
<1>1. FullInv => SuspendedIsDetached
  <2> SUFFICES ASSUME FullInv, suspended
               PROVE  alive = {} /\ \A u \in Us : upstream[u] \in {"free", "closing"}
    BY DEF SuspendedIsDetached
  <2>1. Platform = "thinq2" /\ open \subseteq {current}
    BY CloudBridgeAssumption DEF FullInv, UserInv, PlatformFits
  <2>2. bridgedDevices = NoB /\ outrun = {}
    BY DEF FullInv, UserInv, Orderly
  <2>3. alive = {}
    BY <2>1, <2>2, NoneBeside
  <2>4. \A u \in Us : upstream[u] \in Lives
    BY PoolFields DEF FullInv, IInv, PoolInv, PoolType
  <2>5. \A u \in Us : upstream[u] \notin {"starting", "open", "abandoned", "stray"}
    BY <2>1, <2>3, PoolFields DEF FullInv, IInv, PoolInv, Released
  <2> QED BY <2>3, <2>4, <2>5 DEF Lives
<1> QED BY <1>1, FullInvariance, PTL

-----------------------------------------------------------------------------
(* Towards BridgePolicy, for an appliance that is not registered again.    *)

\* Attached, as BridgePolicy says it, is to have an entry in the map.
LEMMA AttachedIsEntry ==
  ASSUME Calls = {}, FullInv
  PROVE  bridgedDevices \in alive <=> bridgedDevices # NoB
<1>1. outrun = {}
  BY DEF FullInv, UserInv, Orderly
<1> QED BY <1>1, FullTypes

\* Every step is one of the promised ones, or is none of the user's business.
LEMMA PolicyStep ==
  ASSUME Calls = {}, ~PowerLoss, FullInv, FullInv', [Next]_vars
  PROVE  [Policy!Next]_(Policy!policyVars)
<1> DEFINE attached == bridgedDevices \in alive
           online == current # NoDev
<1>1. attached <=> bridgedDevices # NoB
  BY AttachedIsEntry
<1>2. attached' <=> bridgedDevices' # NoB
  <2>1. outrun' = {}
    BY DEF FullInv, UserInv, Orderly
  <2>2. bridgedDevices' # NoB => bridgedDevices' \in alive'
    BY <2>1 DEF FullInv, UserInv, Fits, Pool
  <2>3. NoB \notin alive'
    BY CloudBridgeAssumption DEF FullInv, IInv, PoolInv, PoolType, Pool
  <2> QED BY <2>2, <2>3
<1>3. CASE Restart \/ \E u \in Us : FetchRejected(u)
  <2>1. Reset /\ UNCHANGED <<deviceState, suspended>>
    BY <1>3 DEF Restart, FetchRejected, diskVars
  <2>2. ~attached' /\ ~online'
    BY <1>2, <2>1, EmptyKeeps DEF Reset, SetPool
  <2> QED BY <2>1, <2>2 DEF Policy!Next, Policy!GoesOffline
<1>4. CASE \/ PublishSelection \/ Login \/ Logout \/ UNCHANGED vars
           \/ \E u \in Us : UpstreamOpens(u) \/ UpstreamCloses(u)
           \/ \E b \in Bs : ReconnectNow(b)
  <2>1. UNCHANGED <<bridgedDevices, alive, open, current, deviceState, suspended>>
    BY <1>4, AsideUser, ConnectionUser
  <2> QED BY <2>1 DEF Policy!policyVars
<1>5. ASSUME NEW d \in Devs, NewDevice(d)
      PROVE  Policy!Next
  <2>1. current' = d /\ d # NoDev /\ UNCHANGED <<deviceState, suspended>>
    BY <1>5, CloudBridgeAssumption DEF NewDevice, diskVars
  <2>2. attached' <=> deviceState /\ ~suspended
    BY <1>2, <2>1 DEF FullInv, UserInv, Started, Orderly, IInv, Registered
  <2>3. attached' = (deviceState /\ ~suspended)
    BY <2>2
  <2> QED BY <2>1, <2>3 DEF Policy!Next, Policy!ComesOnline
<1>6. ASSUME NEW d \in Devs, DeviceCloses(d)
      PROVE  Policy!Next \/ UNCHANGED Policy!policyVars
  <2>1. /\ bridgedDevices' = IF current = d THEN NoB ELSE bridgedDevices
        /\ current' = IF current = d THEN NoDev ELSE current
        /\ UNCHANGED <<deviceState, suspended>>
    BY <1>6, DeviceClosesUser DEF DeviceCloses, diskVars
  <2>2. CASE current = d
    BY <1>2, <2>1, <2>2 DEF Policy!Next, Policy!GoesOffline
  <2>3. CASE current # d
    <3>1. attached' = attached
      BY <1>1, <1>2, <2>1, <2>3
    <3> QED BY <2>1, <2>3, <3>1 DEF Policy!policyVars
  <2> QED BY <2>2, <2>3
<1>7. CASE Suspend
  <2>1. current # NoDev /\ suspended' = TRUE /\ UNCHANGED <<current, deviceState>>
    BY <1>7 DEF Suspend
  <2>2. ~attached'
    BY <1>2, <1>7, SuspendUser
  <2> QED BY <2>1, <2>2 DEF Policy!Next, Policy!SwitchedOff
<1>8. CASE Resume
  <2>1. /\ deviceState => bridgedDevices' # NoB /\ suspended' = FALSE
        /\ ~deviceState => UNCHANGED <<poolVars, suspended>>
        /\ UNCHANGED <<open, current, deviceState>> /\ current # NoDev
    BY <1>8, ResumeUser
  <2>2. CASE deviceState
    <3>1. attached'
      BY <1>2, <2>1, <2>2
    <3>2. deviceState = TRUE
      BY <2>2 DEF FullInv, UserInv, PlatformFits
    <3> QED BY <2>1, <3>1, <3>2 DEF Policy!Next, Policy!SwitchedOn
  <2>3. CASE ~deviceState
    BY <2>1, <2>3 DEF Policy!policyVars, poolVars
  <2> QED BY <2>2, <2>3
<1>9. CASE Disable
  <2>1. deviceState' = FALSE /\ UNCHANGED <<current, suspended>>
    BY <1>9 DEF Disable
  <2>2. ~attached'
    BY <1>2, <1>9, DisableUser
  <2> QED BY <2>1, <2>2 DEF Policy!Next, Policy!Unregistered
<1>10. ~PowerFailsInSuspended
  BY DEF PowerFailsInSuspended
<1> HIDE DEF attached, online
<1> QED BY <1>3, <1>4, <1>5, <1>6, <1>7, <1>8, <1>9, <1>10 DEF Next

\* The switch, the sessions and the cloud's disconnections do what the
\* documentation promises (DOCS.en.md, "enable_lg_cloud_bridge"), of an appliance
\* that no call of enable() registers again, while power does not fail in a write
\* of suspended.json.
THEOREM PolicyImplemented ==
  ASSUME Calls = {}, ~PowerLoss
  PROVE  Spec => ImplementsPolicy
<1>1. Init => Policy!Init
  <2> SUFFICES ASSUME Init PROVE Policy!Init
    OBVIOUS
  <2>1. suspended \in BOOLEAN /\ deviceState \in BOOLEAN
    BY DEF Init
  <2>2. (current # NoDev) = FALSE /\ (bridgedDevices \in alive) = FALSE
    BY DEF Init
  <2> QED BY <2>1, <2>2 DEF Policy!Init
<1>2. FullInv /\ FullInv' /\ [Next]_vars => [Policy!Next]_(Policy!policyVars)
  BY PolicyStep
<1> QED BY <1>1, <1>2, FullInvariance, PTL DEF Spec, ImplementsPolicy, Policy!Spec
=============================================================================
