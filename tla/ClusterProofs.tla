---------------------------- MODULE ClusterProofs ----------------------------
(* Theorems about Cluster for every setting a run may have.                *)
EXTENDS Cluster, DataLemmas, FiniteSetTheorems, SequenceTheorems, TLAPS

---------------------------------------------------------------------------
(* The shape of a plan                                                     *)

Kinds == {"ready", "go", "start", "answer", "results", "arrive", "release", "broadcast", "exchange",
          "alltoall", "pass", "reduce", "share"}

ControlKinds == {"ready", "go", "start", "answer", "results"}

Guarded == {"arrive", "release", "exchange"}

DataKinds == {"broadcast", "alltoall", "pass", "reduce", "share"}

StageSet(s) ==
    [kind : Kinds, tag : (Collectives \cup {"control"}) \X Int, size : Int, step : Int,
     links : SUBSET (Ranks(s) \X Ranks(s))]

\* The tags of barriers, and of the phases of a ring exchange.
BarrierTag(t) == t[1] = "barrier" \/ (t[1] = "ring_exchange" /\ t[2] % 2 = 1)

PhaseTag(t) == t[1] = "ring_exchange" /\ t[2] % 2 = 0

\* An exchange is followed by a barrier, and the two halves of a barrier by
\* each other; no other stage has a tag of theirs.
WellPlaced(s, p, k) ==
    /\ p[k].kind \in {"arrive", "release"} <=> BarrierTag(p[k].tag)
    /\ p[k].kind = "exchange" <=> PhaseTag(p[k].tag)
    /\ p[k].kind \in ControlKinds <=> p[k].tag = Control
    /\ p[k].kind = "release" => /\ k - 1 \in 1 .. Len(p) /\ p[k - 1].kind = "arrive"
                                /\ p[k].links = FromRank(s, 0)
    /\ p[k].kind = "arrive" => /\ k + 1 \in 1 .. Len(p) /\ p[k + 1].kind = "release"
                               /\ p[k].links = ToRank(s, 0)
    /\ p[k].kind = "exchange" => /\ k + 1 \in 1 .. Len(p) /\ p[k + 1].kind = "arrive"
                                 /\ IsFiniteSet(p[k].links) /\ Cardinality(p[k].links) <= s.concurrency

WellShaped(s) ==
    {p \in Seq(StageSet(s)) : \A k \in 1 .. Len(p) : WellPlaced(s, p, k) /\ p[k].kind # "results"}

\* A whole plan: its last stage, and no other, is the one of the results.
Shape(s, p) ==
    /\ p \in Seq(StageSet(s)) /\ Len(p) > 2
    /\ \A k \in 1 .. Len(p) : WellPlaced(s, p, k) /\ (p[k].kind = "results" <=> k = Len(p))
    /\ p[Len(p)].tag = Control /\ p[Len(p)].links = ToController(s)

---------------------------------------------------------------------------
(* The inductive invariant                                                 *)

Stages == Plan[setting]

PlaceInv ==
    /\ setting \in Settings
    /\ pc \in [World -> 1 .. Len(Stages)]
    /\ unsent \in [World -> SUBSET World] /\ awaited \in [World -> SUBSET World]
    /\ got = [r \in World |-> got[r]]
    /\ status \in [World -> {"run", "done", "failed"}] /\ retries \in Nat
    /\ \A r \in World : /\ unsent[r] \subseteq Destinations(setting, r, pc[r])
                        /\ awaited[r] \subseteq Sources(setting, r, pc[r])

\* A message was sent in a stage its sender has reached, along a link of it.
Genuine(m) ==
    /\ m.src \in World /\ m.dst \in World /\ m.at \in 1 .. pc[m.src]
    /\ <<m.src, m.dst>> \in Stages[m.at].links
    /\ m.kind = Stages[m.at].kind /\ m.tag = Stages[m.at].tag

\* A rank awaits everyone from whom it has no message yet.
MessagesInv ==
    /\ \A m \in net : Genuine(m)
    /\ \A r \in World : \A m \in got[r] : Genuine(m)
    /\ \A r \in World : status[r] # "done" =>
        \A x \in Sources(setting, r, pc[r]) \ awaited[r] : \E m \in got[r] : m.src = x

\* What follows from a rank's having entered a stage: it has entered those
\* before; and who has heard a message in a stage of kind K was sent it by a
\* rank that had entered that stage.  S is a set of pairs of a rank and a stage
\* of which it may be said "if it was entered, then so was ...".
Closed(s, p, K, S) ==
    /\ \A x \in Ranks(s) : \A k, l \in 1 .. Len(p) + 1 : <<x, k>> \in S /\ k <= l => <<x, l>> \in S
    /\ \A k \in 1 .. Len(p) : p[k].kind \in K =>
            \A x, y \in Ranks(s) : <<x, y>> \in p[k].links /\ <<x, k>> \in S => <<y, k + 1>> \in S

\* Messages lead from y entering stage i to x entering stage j.
Leads(s, p, K, y, i, x, j) ==
    \A S \in SUBSET (Ranks(s) \X (1 .. Len(p) + 1)) :
        Closed(s, p, K, S) /\ <<y, i>> \in S => <<x, j>> \in S

\* Before a rank sends what has the tag of an earlier stage of kind K, the one it
\* sends to has left that stage; messages of kind L tell it so.
Apart(s, p, K, L) ==
    \A i, j \in 1 .. Len(p) : i < j /\ p[i].kind \in K /\ p[i].tag = p[j].tag =>
        \A x, y \in Ranks(s) : <<x, y>> \in p[i].links \cap p[j].links =>
            Leads(s, p, L, y, i + 1, x, j)

DataApart(s, p) == Apart(s, p, DataKinds, DataKinds)

ControlApart(s, p) == DataApart(s, p) /\ Apart(s, p, ControlKinds, Kinds)

\* The kinds of stages whose messages are taken in the stage they are sent in.
Exact ==
    Guarded \cup (IF DataApart(setting, Stages) THEN DataKinds ELSE {})
            \cup (IF retries = 0 /\ ControlApart(setting, Stages) THEN ControlKinds ELSE {})

NotStale ==
    \A m \in net : m.kind \in Exact =>
        pc[m.dst] < m.at \/ (pc[m.dst] = m.at /\ m.src \in awaited[m.dst])

SentOnce ==
    /\ \A m \in net : m.kind \in Exact /\ m.at = pc[m.src] => m.dst \notin unsent[m.src]
    /\ \A m, n \in net : m.kind \in Exact /\ m.src = n.src /\ m.dst = n.dst /\ m.at = n.at => m = n

Told(x, y, i) == pc[x] > i \/ (pc[x] = i /\ y \notin unsent[x])

Heard(y, x, i) == pc[y] > i \/ (pc[y] = i /\ x \notin awaited[y])

\* Nobody has heard in a barrier or a phase what was not said there.
HeardWasTold ==
    \A i \in 1 .. Len(Stages) : Stages[i].kind \in Exact =>
        \A x, y \in World : <<x, y>> \in Stages[i].links /\ Heard(y, x, i) => Told(x, y, i)

StagesInv == PlaceInv /\ MessagesInv /\ NotStale /\ SentOnce /\ HeardWasTold

\* A coordinator that sends results has waited for the ranks of its node.
NodesEnd ==
    \A c \in Coordinators(setting) : pc[c] = Len(Stages) =>
        \A x \in Local(setting, c) : pc[x] = Len(Stages)

---------------------------------------------------------------------------
(* Every plan has this shape                                               *)

LEMMA Neighbours ==
  ASSUME NEW s, ValidTopology(s), NEW r \in Ranks(s)
  PROVE  Neighbour(s, r, 1) \in Ranks(s)
  <1>1. \E i \in 1 .. s.world : s.ring[i] = r
    BY DEF ValidTopology, ToSet
  <1>2. \E p \in Ranks(s) : s.ring[p + 1] = r
    <2>1. PICK i \in 1 .. s.world : s.ring[i] = r
      BY <1>1
    <2>2. i - 1 \in Ranks(s) /\ (i - 1) + 1 = i
      BY DEF Ranks, ValidTopology
    <2>. QED  BY <2>1, <2>2
  <1>3. Position(s, r) \in Ranks(s)
    BY <1>2 DEF Position
  <1>4. (Position(s, r) + 1) % s.world \in 0 .. s.world - 1
    <2>. HIDE DEF Position
    <2>1. s.world \in Nat /\ s.world > 0
      BY DEF ValidTopology
    <2>. QED  BY <1>3, <2>1 DEF Ranks
  <1>5. ((Position(s, r) + 1) % s.world) + 1 \in 1 .. s.world
    BY <1>4 DEF ValidTopology
  <1>. QED  BY <1>5 DEF Neighbour, ValidTopology

LEMMA RingLinks ==
  ASSUME NEW s, ValidTopology(s), NEW S \in SUBSET Ranks(s)
  PROVE  Around(s, S) \in SUBSET (Ranks(s) \X Ranks(s))
  BY Neighbours DEF Around

LEMMA ZeroIsRank ==
  ASSUME NEW s, ValidTopology(s)
  PROVE  /\ 0 \in Ranks(s) /\ s.world \in Nat
         /\ FromRank(s, 0) \in SUBSET (Ranks(s) \X Ranks(s))
         /\ ToRank(s, 0) \in SUBSET (Ranks(s) \X Ranks(s))
         /\ FromController(s) \in SUBSET (Ranks(s) \X Ranks(s))
         /\ ToController(s) \in SUBSET (Ranks(s) \X Ranks(s))
  <1>1. 0 \in Ranks(s) /\ s.world \in Nat
    BY DEF ValidTopology, Ranks
  <1>2. Workers(s) \subseteq Ranks(s)
    BY DEF Workers, Coordinators
  <1>. QED  BY <1>1, <1>2 DEF FromRank, ToRank, Others, FromController, ToController

LEMMA EmptyShape ==
  ASSUME NEW s
  PROVE  <<>> \in WellShaped(s)
  BY DEF WellShaped

LEMMA ConcatShape ==
  ASSUME NEW s, NEW a \in WellShaped(s), NEW b \in WellShaped(s)
  PROVE  a \o b \in WellShaped(s)
  <1>. DEFINE c == a \o b
  <1>1. a \in Seq(StageSet(s)) /\ b \in Seq(StageSet(s))
    BY DEF WellShaped
  <1>2. /\ c \in Seq(StageSet(s)) /\ Len(c) = Len(a) + Len(b) /\ Len(a) \in Nat /\ Len(b) \in Nat
        /\ \A i \in 1 .. Len(a) + Len(b) : c[i] = IF i <= Len(a) THEN a[i] ELSE b[i - Len(a)]
    BY <1>1, ConcatProperties, LenProperties
  <1>. HIDE DEF c
  <1>3. ASSUME NEW k \in 1 .. Len(c)
        PROVE  WellPlaced(s, c, k) /\ c[k].kind # "results"
    <2>1. CASE k <= Len(a)
      <3>1. k \in 1 .. Len(a) /\ WellPlaced(s, a, k) /\ a[k].kind # "results"
        BY <1>2, <2>1 DEF WellShaped
      <3>2. c[k] = a[k]
        BY <1>2, <2>1
      <3>3. \A i \in 1 .. Len(a) : i \in 1 .. Len(c) /\ c[i] = a[i]
        BY <1>2
      <3>. QED  BY <3>1, <3>2, <3>3 DEF WellPlaced
    <2>2. CASE ~(k <= Len(a))
      <3>. DEFINE j == k - Len(a)
      <3>1. j \in 1 .. Len(b) /\ k = Len(a) + j
        BY <1>2, <2>2
      <3>2. \A i \in 1 .. Len(b) : Len(a) + i \in 1 .. Len(c) /\ c[Len(a) + i] = b[i]
        <4>. SUFFICES ASSUME NEW i \in 1 .. Len(b) PROVE Len(a) + i \in 1 .. Len(c) /\ c[Len(a) + i] = b[i]
          OBVIOUS
        <4>1. Len(a) + i \in 1 .. Len(a) + Len(b) /\ ~(Len(a) + i <= Len(a)) /\ (Len(a) + i) - Len(a) = i
          BY <1>2
        <4>. QED  BY <4>1, <1>2
      <3>3. WellPlaced(s, b, j) /\ b[j].kind # "results"
        BY <3>1 DEF WellShaped
      <3>4. k - 1 = Len(a) + (j - 1) /\ k + 1 = Len(a) + (j + 1) /\ j \in Int
        BY <3>1, <1>2
      <3>. HIDE DEF j
      <3>5. c[k] = b[j]
        BY <3>1, <3>2
      <3>6. j - 1 \in 1 .. Len(b) => k - 1 \in 1 .. Len(c) /\ c[k - 1] = b[j - 1]
        BY <3>2, <3>4
      <3>7. j + 1 \in 1 .. Len(b) => k + 1 \in 1 .. Len(c) /\ c[k + 1] = b[j + 1]
        BY <3>2, <3>4
      <3>. QED  BY <3>3, <3>5, <3>6, <3>7, Zenon DEF WellPlaced
    <2>. QED  BY <2>1, <2>2
  <1>. QED  BY <1>2, <1>3 DEF WellShaped, c

\* Repeating, or going through a list, keeps the shape.
LEMMA FlattenShape ==
  ASSUME NEW s, NEW ss \in Seq(WellShaped(s))
  PROVE  FlattenSeq(ss) \in WellShaped(s)
  BY Flattened, EmptyShape, ConcatShape

\* A stage that is neither of a barrier nor of a ring exchange.
Plain(st) ==
    /\ st.kind \notin {"arrive", "release", "exchange", "results"} /\ st.tag[1] \notin {"barrier", "ring_exchange"}
    /\ st.kind \in ControlKinds <=> st.tag = Control

LEMMA PlainShape ==
  ASSUME NEW s, NEW p \in Seq(StageSet(s)), \A k \in 1 .. Len(p) : Plain(p[k])
  PROVE  p \in WellShaped(s)
  BY DEF WellShaped, WellPlaced, Plain, BarrierTag, PhaseTag

LEMMA StageType ==
  ASSUME NEW s, NEW kind \in Kinds, NEW c \in Collectives \cup {"control"}, NEW n \in Int,
         NEW size \in Int, NEW step \in Int, NEW links \in SUBSET (Ranks(s) \X Ranks(s))
  PROVE  Stage(kind, <<c, n>>, size, step, links) \in StageSet(s)
  BY DEF Stage, StageSet

LEMMA BarrierShape ==
  ASSUME NEW s, ValidTopology(s), NEW c \in Collectives, NEW n \in Int, BarrierTag(<<c, n>>)
  PROVE  /\ BarrierStages(s, <<c, n>>) \in WellShaped(s)
         /\ Len(BarrierStages(s, <<c, n>>)) = 2 /\ BarrierStages(s, <<c, n>>)[1].kind = "arrive"
  <1>. DEFINE p == BarrierStages(s, <<c, n>>)
  <1>1. /\ Stage("arrive", <<c, n>>, 0, 0, ToRank(s, 0)) \in StageSet(s)
        /\ Stage("release", <<c, n>>, 0, 0, FromRank(s, 0)) \in StageSet(s)
    BY ZeroIsRank, StageType DEF Kinds
  <1>2. p \in Seq(StageSet(s)) /\ Len(p) = 2
    BY <1>1 DEF BarrierStages
  <1>3. /\ p[1].kind = "arrive" /\ p[1].tag = <<c, n>> /\ p[1].links = ToRank(s, 0)
        /\ p[2].kind = "release" /\ p[2].tag = <<c, n>> /\ p[2].links = FromRank(s, 0)
    BY DEF BarrierStages, Stage
  <1>4. ~PhaseTag(<<c, n>>)
    BY DEF BarrierTag, PhaseTag
  <1>0. <<c, n>> # Control
    BY DEF Collectives, Control
  <1>. HIDE DEF p
  <1>5. WellPlaced(s, p, 1) /\ WellPlaced(s, p, 2)
    BY <1>2, <1>3, <1>4, <1>0 DEF WellPlaced, ControlKinds
  <1>6. \A k \in 1 .. Len(p) : k = 1 \/ k = 2
    BY <1>2
  <1>7. p \in WellShaped(s)
    BY <1>2, <1>3, <1>5, <1>6 DEF WellShaped
  <1>. QED  BY <1>2, <1>3, <1>7 DEF p

\* A phase of a ring exchange has at most as many senders as may be active.
LEMMA PhaseLinks ==
  ASSUME NEW s, ValidTopology(s), s.concurrency \in 1 .. s.world, NEW p \in Nat
  PROVE  LET links == Around(s, Active(s, p))
         IN  /\ links \in SUBSET (Ranks(s) \X Ranks(s))
             /\ IsFiniteSet(links) /\ Cardinality(links) <= s.concurrency
  <1>. DEFINE links == Around(s, Active(s, p))
              c == s.concurrency
              I == c * p + 1 .. c * (p + 1)
              A == I \cap 1 .. s.world
              f == [k \in A |-> <<s.ring[k], Neighbour(s, s.ring[k], 1)>>]
  <1>1. Active(s, p) \in SUBSET Ranks(s)
    BY DEF Active, ValidTopology
  <1>2. links \in SUBSET (Ranks(s) \X Ranks(s))
    BY <1>1, RingLinks
  <1>3. c \in Nat /\ c * p \in Int /\ c * (p + 1) = c * p + c /\ c >= 1
    <2>1. c \in Nat /\ c >= 1
      BY DEF ValidTopology
    <2>. QED  BY <2>1
  <1>4. IsFiniteSet(I) /\ Cardinality(I) <= c
    <2>. DEFINE a == c * p
    <2>1. I = a + 1 .. a + c /\ a \in Int /\ c \in Nat
      BY <1>3
    <2>. HIDE DEF a, I, c
    <2>2. IsFiniteSet(a + 1 .. a + c) /\ Cardinality(a + 1 .. a + c) <= c
      <3>. DEFINE lo == a + 1
                  hi == a + c
      <3>1. lo \in Int /\ hi \in Int /\ hi - lo + 1 = c /\ c \in Nat
        BY <2>1
      <3>. HIDE DEF lo, hi
      <3>2. IsFiniteSet(lo .. hi) /\ Cardinality(lo .. hi) = IF lo > hi THEN 0 ELSE hi - lo + 1
        BY <3>1, FS_Interval
      <3>3. IsFiniteSet(lo .. hi) /\ Cardinality(lo .. hi) <= c
        BY <3>1, <3>2
      <3>. QED  BY <3>3 DEF lo, hi
    <2>. QED  BY <2>1, <2>2
  <1>5. IsFiniteSet(A) /\ Cardinality(A) <= c
    <2>. HIDE DEF I
    <2>1. A \in SUBSET I
      OBVIOUS
    <2>. HIDE DEF A
    <2>2. IsFiniteSet(A) /\ Cardinality(A) <= Cardinality(I)
      BY <1>4, <2>1, FS_Subset
    <2>3. Cardinality(A) \in Int /\ Cardinality(I) \in Int
      BY <1>4, <2>2, FS_CardinalityType
    <2>. QED  BY <1>3, <1>4, <2>2, <2>3
  <1>6. f \in Surjection(A, links)
    <2>1. links = {<<r, Neighbour(s, r, 1)>> : r \in {s.ring[k] : k \in A}}
      BY DEF Around, Active
    <2>. HIDE DEF links, A
    <2>. QED  BY <2>1 DEF Surjection
  <1>. HIDE DEF links, c, A, f
  <1>7. IsFiniteSet(links) /\ Cardinality(links) <= Cardinality(A)
    BY <1>5, <1>6, FS_Surjection
  <1>8. Cardinality(A) \in Int /\ Cardinality(links) \in Int
    BY <1>5, <1>7, FS_CardinalityType
  <1>9. Cardinality(links) <= c
    BY <1>3, <1>5, <1>7, <1>8
  <1>. QED  BY <1>2, <1>7, <1>9 DEF links, c

LEMMA PhaseShape ==
  ASSUME NEW s, ValidTopology(s), s.concurrency \in 1 .. s.world, NEW p \in Nat, NEW size \in Int, NEW i \in Nat
  PROVE  <<Stage("exchange", Tagged("ring_exchange", i, 2 * p), size, 0, Around(s, Active(s, p)))>>
            \o BarrierStages(s, Tagged("ring_exchange", i, 2 * p + 1)) \in WellShaped(s)
  <1>. DEFINE t == Tagged("ring_exchange", i, 2 * p)
              u == Tagged("ring_exchange", i, 2 * p + 1)
              links == Around(s, Active(s, p))
              e == Stage("exchange", t, size, 0, links)
              b == BarrierStages(s, u)
              q == <<e>> \o b
  <1>1. PhaseTag(t) /\ ~BarrierTag(t) /\ 256 * i + 2 * p \in Int
    BY DEF PhaseTag, BarrierTag, Tagged
  <1>2. BarrierTag(u) /\ 256 * i + (2 * p + 1) \in Int
    BY DEF BarrierTag, Tagged
  <1>0. t # Control
    BY DEF Tagged, Control
  <1>3. b \in WellShaped(s) /\ Len(b) = 2 /\ b[1].kind = "arrive"
    BY <1>2, BarrierShape DEF Tagged, Collectives
  <1>4. /\ links \in SUBSET (Ranks(s) \X Ranks(s))
        /\ IsFiniteSet(links) /\ Cardinality(links) <= s.concurrency
    BY PhaseLinks
  <1>. HIDE DEF links
  <1>5. e \in StageSet(s)
    <2>1. "exchange" \in Kinds /\ "ring_exchange" \in Collectives \cup {"control"} /\ 0 \in Int
      BY DEF Kinds, Collectives
    <2>. DEFINE n == 256 * i + 2 * p
    <2>2. n \in Int /\ t = <<"ring_exchange", n>>
      BY <1>1 DEF Tagged
    <2>. HIDE DEF n, t
    <2>3. Stage("exchange", <<"ring_exchange", n>>, size, 0, links) \in StageSet(s)
      BY <2>1, <2>2, <1>4, StageType
    <2>. QED  BY <2>2, <2>3
  <1>6. e.kind = "exchange" /\ e.tag = t /\ e.links = links
    BY DEF Stage
  <1>. HIDE DEF e, b, t
  <1>7. <<e>> \in Seq(StageSet(s)) /\ Len(<<e>>) = 1 /\ <<e>>[1] = e /\ b \in Seq(StageSet(s))
    BY <1>3, <1>5 DEF WellShaped
  <1>8. /\ q \in Seq(StageSet(s)) /\ Len(q) = 3
        /\ q[1] = e /\ q[2] = b[1] /\ q[3] = b[2]
    <2>. DEFINE a == <<e>>
    <2>1. a \in Seq(StageSet(s)) /\ Len(a) = 1 /\ a[1] = e
      BY <1>7
    <2>. HIDE DEF a
    <2>2. /\ a \o b \in Seq(StageSet(s)) /\ Len(a \o b) = 1 + 2
          /\ \A k \in 1 .. 1 + 2 : (a \o b)[k] = IF k <= 1 THEN a[k] ELSE b[k - 1]
      <3>1. /\ a \o b \in Seq(StageSet(s)) /\ Len(a \o b) = Len(a) + Len(b)
            /\ \A k \in 1 .. Len(a) + Len(b) : (a \o b)[k] = IF k <= Len(a) THEN a[k] ELSE b[k - Len(a)]
        BY <1>7, <2>1, ConcatProperties
      <3>. QED  BY <3>1, <1>3, <2>1
    <2>3. q = a \o b
      BY DEF a
    <2>. HIDE DEF q
    <2>. QED  BY <2>1, <2>2, <2>3
  <1>. HIDE DEF q
  <1>9. WellPlaced(s, b, 1) /\ WellPlaced(s, b, 2) /\ b[1].kind # "results" /\ b[2].kind # "results"
    <2>1. 1 \in 1 .. Len(b) /\ 2 \in 1 .. Len(b)
      BY <1>3
    <2>. QED  BY <1>3, <2>1 DEF WellShaped
  <1>10. WellPlaced(s, q, 1)
    BY <1>1, <1>3, <1>4, <1>6, <1>8, <1>0 DEF WellPlaced, ControlKinds
  <1>11. WellPlaced(s, q, 2)
    BY <1>3, <1>8, <1>9 DEF WellPlaced
  <1>12. WellPlaced(s, q, 3)
    BY <1>3, <1>8, <1>9 DEF WellPlaced
  <1>13. \A k \in 1 .. Len(q) : k = 1 \/ k = 2 \/ k = 3
    BY <1>8
  <1>14. q \in WellShaped(s)
    BY <1>6, <1>8, <1>9, <1>10, <1>11, <1>12, <1>13 DEF WellShaped
  <1>. QED  BY <1>14 DEF q, e, b, t, links

Phase(s, size, i, p) ==
    <<Stage("exchange", Tagged("ring_exchange", i, 2 * p), size, 0, Around(s, Active(s, p)))>>
        \o BarrierStages(s, Tagged("ring_exchange", i, 2 * p + 1))

LEMMA RingExchangeIn ==
  ASSUME NEW s, ValidTopology(s), s.concurrency \in 1 .. s.world, NEW size \in Int, NEW i \in Nat,
         NEW W, <<>> \in W, \A a, b \in W : a \o b \in W,
         \A p \in Nat : Phase(s, size, i, p) \in W
  PROVE  RingExchangeStages(s, size, i) \in W
  <1>. DEFINE Ph(p) == Phase(s, size, i, p)
              phases == (s.world + s.concurrency - 1) \div s.concurrency
              ss == [n \in 1 .. phases |-> Ph(n - 1)]
  <1>1. \A p \in Nat : Ph(p) \in W
    OBVIOUS
  <1>. HIDE DEF Ph
  <1>2. phases \in Nat
    <2>1. s.world \in Nat /\ s.concurrency \in Nat /\ s.concurrency >= 1
      BY DEF ValidTopology
    <2>. QED  BY <2>1
  <1>. HIDE DEF phases
  <1>3. \A n \in 1 .. phases : Ph(n - 1) \in W
    BY <1>1, <1>2
  <1>4. ss \in Seq(W)
    BY <1>2, <1>3
  <1>5. FlattenSeq(ss) \in W
    BY <1>4, Flattened
  <1>. QED  BY <1>5 DEF RingExchangeStages, Ph, Phase, phases

LEMMA RingExchangeShape ==
  ASSUME NEW s, ValidTopology(s), s.concurrency \in 1 .. s.world, NEW size \in Int, NEW i \in Nat
  PROVE  RingExchangeStages(s, size, i) \in WellShaped(s)
  <1>. DEFINE W == WellShaped(s)
  <1>1. <<>> \in W /\ \A a, b \in W : a \o b \in W
    BY EmptyShape, ConcatShape
  <1>2. \A p \in Nat : Phase(s, size, i, p) \in W
    BY PhaseShape DEF Phase
  <1>. HIDE DEF W
  <1>3. RingExchangeStages(s, size, i) \in W
    BY <1>1, <1>2, RingExchangeIn
  <1>. QED  BY <1>3 DEF W

LEMMA BroadcastShape ==
  ASSUME NEW s, ValidTopology(s), s.root \in Ranks(s), NEW size \in Int, NEW i \in Nat
  PROVE  BroadcastStages(s, size, i) \in WellShaped(s)
  <1>. DEFINE links == FromRank(s, s.root)
              n == 256 * i + 0
              p == BroadcastStages(s, size, i)
              st == Stage("broadcast", <<"broadcast", n>>, size, 0, links)
  <1>1. links \in SUBSET (Ranks(s) \X Ranks(s))
    BY DEF FromRank, Others
  <1>2. n \in Int
    OBVIOUS
  <1>3. p = <<st>>
    BY DEF BroadcastStages, Tagged
  <1>4. Plain(st)
    BY DEF Stage, Plain, ControlKinds, Control
  <1>. HIDE DEF links, n
  <1>5. st \in StageSet(s)
    <2>1. "broadcast" \in Kinds /\ "broadcast" \in Collectives \cup {"control"} /\ 0 \in Int
      BY DEF Kinds, Collectives
    <2>. QED  BY <1>1, <1>2, <2>1, StageType
  <1>. HIDE DEF p, st
  <1>6. p \in Seq(StageSet(s)) /\ \A k \in 1 .. Len(p) : Plain(p[k])
    BY <1>3, <1>4, <1>5
  <1>. QED  BY <1>6, PlainShape DEF p

LEMMA AllToAllShape ==
  ASSUME NEW s, ValidTopology(s), NEW size \in Int, NEW i \in Nat
  PROVE  AllToAllStages(s, size, i) \in WellShaped(s)
  <1>. DEFINE links == UNION {FromRank(s, r) : r \in Ranks(s)}
              n == 256 * i + 0
              p == AllToAllStages(s, size, i)
              st == Stage("alltoall", <<"all_to_all_exchange", n>>, size, 0, links)
  <1>1. links \in SUBSET (Ranks(s) \X Ranks(s))
    BY DEF FromRank, Others
  <1>2. n \in Int
    OBVIOUS
  <1>3. p = <<st>>
    BY DEF AllToAllStages, Tagged
  <1>4. Plain(st)
    BY DEF Stage, Plain, ControlKinds, Control
  <1>. HIDE DEF links, n
  <1>5. st \in StageSet(s)
    <2>1. "alltoall" \in Kinds /\ "all_to_all_exchange" \in Collectives \cup {"control"} /\ 0 \in Int
      BY DEF Kinds, Collectives
    <2>. QED  BY <1>1, <1>2, <2>1, StageType
  <1>. HIDE DEF p, st
  <1>6. p \in Seq(StageSet(s)) /\ \A k \in 1 .. Len(p) : Plain(p[k])
    BY <1>3, <1>4, <1>5
  <1>. QED  BY <1>6, PlainShape DEF p

\* The steps of an allgather, and of the halves of a block of an allreduce.
Steps(s, kind, c, size, i, from) ==
    [n \in 1 .. s.world - 1 |->
        Stage(kind, <<c, 256 * i + (from + n - 1)>>, size, n - 1, Around(s, Ranks(s)))]

LEMMA StepsShape ==
  ASSUME NEW s, ValidTopology(s), NEW kind \in {"pass", "reduce", "share"},
         NEW c \in {"allgather", "ring_allreduce"}, NEW size \in Int, NEW i \in Nat, NEW from \in Int
  PROVE  Steps(s, kind, c, size, i, from) \in WellShaped(s)
  <1>. DEFINE links == Around(s, Ranks(s))
              St(n) == Stage(kind, <<c, 256 * i + (from + n - 1)>>, size, n - 1, links)
              p == [n \in 1 .. s.world - 1 |-> St(n)]
  <1>1. links \in SUBSET (Ranks(s) \X Ranks(s))
    BY RingLinks
  <1>. HIDE DEF links
  <1>2. \A n \in Int : St(n) \in StageSet(s) /\ Plain(St(n))
    <2>. SUFFICES ASSUME NEW n \in Int PROVE St(n) \in StageSet(s) /\ Plain(St(n))
      OBVIOUS
    <2>. DEFINE x == 256 * i + (from + n - 1)
                y == n - 1
    <2>1. x \in Int /\ y \in Int
      OBVIOUS
    <2>. HIDE DEF x, y
    <2>2. kind \in Kinds /\ c \in Collectives \cup {"control"}
      BY DEF Kinds, Collectives
    <2>3. Stage(kind, <<c, x>>, size, y, links) \in StageSet(s)
      BY <1>1, <2>1, <2>2, StageType
    <2>4. Plain(Stage(kind, <<c, x>>, size, y, links))
      BY DEF Stage, Plain, ControlKinds, Control
    <2>. QED  BY <2>3, <2>4 DEF x, y
  <1>. HIDE DEF St
  <1>3. s.world - 1 \in Nat
    BY DEF ValidTopology
  <1>4. p \in Seq(StageSet(s)) /\ Len(p) = s.world - 1 /\ \A k \in 1 .. s.world - 1 : p[k] = St(k)
    BY <1>2, <1>3
  <1>. HIDE DEF p
  <1>5. \A k \in 1 .. Len(p) : Plain(p[k])
    <2>1. \A k \in 1 .. s.world - 1 : Plain(St(k))
      BY <1>2
    <2>. QED  BY <1>4, <2>1
  <1>6. p \in WellShaped(s)
    BY <1>4, <1>5, PlainShape
  <1>. QED  BY <1>6 DEF Steps, p, St, links

LEMMA AllgatherShape ==
  ASSUME NEW s, ValidTopology(s), NEW size \in Int, NEW i \in Nat
  PROVE  AllgatherStages(s, size, i) \in WellShaped(s)
  <1>1. "pass" \in {"pass", "reduce", "share"} /\ "allgather" \in {"allgather", "ring_allreduce"} /\ 0 \in Int
    OBVIOUS
  <1>2. Steps(s, "pass", "allgather", size, i, 0) \in WellShaped(s)
    BY <1>1, StepsShape
  <1>3. AllgatherStages(s, size, i) = Steps(s, "pass", "allgather", size, i, 0)
    BY DEF AllgatherStages, Tagged, Steps
  <1>. QED  BY <1>2, <1>3

LEMMA BlockShape ==
  ASSUME NEW s, ValidTopology(s), NEW size \in Int, NEW i \in Nat, NEW first \in Int
  PROVE  BlockStages(s, size, i, first) \in WellShaped(s)
  <1>. DEFINE steps == s.world - 1
              h1 == Steps(s, "reduce", "ring_allreduce", size, i, first)
              h2 == Steps(s, "share", "ring_allreduce", size, i, first + steps)
  <1>1. /\ "reduce" \in {"pass", "reduce", "share"} /\ "share" \in {"pass", "reduce", "share"}
        /\ "ring_allreduce" \in {"allgather", "ring_allreduce"}
    OBVIOUS
  <1>2. first + steps \in Int
    BY DEF ValidTopology
  <1>3. h1 \in WellShaped(s) /\ h2 \in WellShaped(s)
    BY <1>1, <1>2, StepsShape
  <1>4. BlockStages(s, size, i, first) = h1 \o h2
    BY DEF BlockStages, Tagged, Steps
  <1>. HIDE DEF h1, h2
  <1>. QED  BY <1>3, <1>4, ConcatShape

\* The same for an allreduce, whose shard is a sequence of blocks, at least one.
LEMMA AllreduceIn ==
  ASSUME NEW s, ValidTopology(s), s.block \in Nat, NEW size \in Nat, size >= s.world, NEW i \in Nat,
         NEW W, <<>> \in W, \A a, b \in W : a \o b \in W,
         \A x, first \in Int : BlockStages(s, x, i, first) \in W
  PROVE  AllreduceStages(s, size, i) \in W
  <1>. DEFINE shard == size \div s.world
              block == IF s.block = 0 THEN shard ELSE LeastOf(s.block, shard)
              blocks == (shard + block - 1) \div block
              B(b) == BlockStages(s, LeastOf(block, shard - (b - 1) * block), i, (b - 1) * 2 * (s.world - 1))
              ss == [b \in 1 .. blocks |-> B(b)]
  <1>1. s.world \in Nat /\ s.world >= 2
    BY DEF ValidTopology
  <1>2. shard \in Nat /\ shard >= 1
    BY <1>1
  <1>. HIDE DEF shard
  <1>3. block \in Nat /\ block >= 1
    BY <1>2 DEF LeastOf
  <1>. HIDE DEF block
  <1>4. blocks \in Nat
    BY <1>2, <1>3
  <1>. HIDE DEF blocks
  <1>5. \A b \in Int : B(b) \in W
    <2>. SUFFICES ASSUME NEW b \in Int PROVE B(b) \in W
      OBVIOUS
    <2>. DEFINE x == LeastOf(block, shard - (b - 1) * block)
                y == (b - 1) * 2 * (s.world - 1)
    <2>1. x \in Int
      BY <1>2, <1>3 DEF LeastOf
    <2>2. y \in Int
      BY <1>1
    <2>. HIDE DEF x, y
    <2>3. BlockStages(s, x, i, y) \in W
      BY <2>1, <2>2
    <2>. QED  BY <2>3 DEF x, y
  <1>. HIDE DEF B
  <1>6. ss \in Seq(W)
    BY <1>4, <1>5
  <1>7. FlattenSeq(ss) \in W
    BY <1>6, Flattened
  <1>. QED  BY <1>7 DEF AllreduceStages, B, blocks, block, shard

LEMMA AllreduceShape ==
  ASSUME NEW s, ValidTopology(s), s.block \in Nat, NEW size \in Nat, size >= s.world, NEW i \in Nat
  PROVE  AllreduceStages(s, size, i) \in WellShaped(s)
  <1>. DEFINE W == WellShaped(s)
  <1>1. <<>> \in W /\ \A a, b \in W : a \o b \in W
    BY EmptyShape, ConcatShape
  <1>2. \A x, first \in Int : BlockStages(s, x, i, first) \in W
    BY BlockShape
  <1>. HIDE DEF W
  <1>3. AllreduceStages(s, size, i) \in W
    BY <1>1, <1>2, AllreduceIn
  <1>. QED  BY <1>3 DEF W

LEMMA CollectiveShape ==
  ASSUME NEW s, Valid(s), NEW c \in Collectives, NEW size \in Nat, NEW i \in Nat,
         c = "ring_allreduce" => size >= s.world
  PROVE  CollectiveStages(s, c, size, i) \in WellShaped(s)
  <1>1. ValidTopology(s) /\ s.root \in Ranks(s) /\ s.concurrency \in 1 .. s.world /\ s.block \in Nat /\ size \in Int
    BY DEF Valid, ValidRounds
  <1>2. CASE c = "barrier"
    <2>. DEFINE n == 256 * i + 0
    <2>1. n \in Int /\ BarrierTag(<<"barrier", n>>) /\ "barrier" \in Collectives
      BY DEF BarrierTag, Collectives
    <2>. HIDE DEF n
    <2>2. BarrierStages(s, <<"barrier", n>>) \in WellShaped(s)
      BY <1>1, <2>1, BarrierShape
    <2>. QED  BY <1>2, <2>2 DEF CollectiveStages, Tagged, n
  <1>3. CASE c = "broadcast"
    BY <1>1, <1>3, BroadcastShape DEF CollectiveStages
  <1>4. CASE c = "allgather"
    BY <1>1, <1>4, AllgatherShape DEF CollectiveStages
  <1>5. CASE c = "ring_allreduce"
    BY <1>1, <1>5, AllreduceShape DEF CollectiveStages
  <1>6. CASE c = "ring_exchange"
    BY <1>1, <1>6, RingExchangeShape DEF CollectiveStages
  <1>7. CASE c = "all_to_all_exchange"
    BY <1>1, <1>7, AllToAllShape DEF CollectiveStages
  <1>. QED  BY <1>2, <1>3, <1>4, <1>5, <1>6, <1>7 DEF Collectives

\* What holds of the stages of every collective, of nothing, and of what is put
\* together of it, holds of all rounds.
LEMMA RoundsIn ==
  ASSUME NEW s, Valid(s), NEW W, <<>> \in W, \A a, b \in W : a \o b \in W,
         \A c \in Collectives : \A z, i \in Nat :
            (c = "ring_allreduce" => z >= s.world) => CollectiveStages(s, c, z, i) \in W
  PROVE  RoundStages(s) \in W
  <1>. DEFINE Sizes(c) == IF c = "barrier" THEN <<0>> ELSE s.sizes
              Rounds(c, z) == FlattenSeq([i \in 1 .. s.rounds |-> CollectiveStages(s, c, z, i - 1)])
              ForSizes(c) == FlattenSeq([k \in 1 .. Len(Sizes(c)) |-> Rounds(c, Sizes(c)[k])])
  <1>1. /\ s.rounds \in Nat /\ s.sizes \in Seq(Nat \ {0}) /\ s.collectives \in Seq(Collectives)
        /\ s.world \in Nat /\ s.world >= 2
    BY DEF Valid, ValidRounds, ValidTopology
  <1>2. ASSUME NEW c \in Collectives, NEW z \in Nat, c = "ring_allreduce" => z >= s.world
        PROVE  Rounds(c, z) \in W
    <2>. DEFINE ss == [i \in 1 .. s.rounds |-> CollectiveStages(s, c, z, i - 1)]
    <2>1. \A i \in 1 .. s.rounds : CollectiveStages(s, c, z, i - 1) \in W
      <3>. TAKE i \in 1 .. s.rounds
      <3>1. i - 1 \in Nat
        BY <1>1
      <3>. QED  BY <1>2, <3>1
    <2>2. ss \in Seq(W)
      BY <1>1, <2>1
    <2>. HIDE DEF ss
    <2>. QED  BY <2>2, Flattened DEF ss
  <1>. HIDE DEF Rounds
  <1>3. ASSUME NEW j \in 1 .. Len(s.collectives)
        PROVE  ForSizes(s.collectives[j]) \in W
    <2>. DEFINE c == s.collectives[j]
                ss == [k \in 1 .. Len(Sizes(c)) |-> Rounds(c, Sizes(c)[k])]
    <2>1. c \in Collectives
      BY <1>1
    <2>2. Len(Sizes(c)) \in Nat /\ \A k \in 1 .. Len(Sizes(c)) : Sizes(c)[k] \in Nat
      <3>1. CASE c = "barrier"
        BY <3>1
      <3>2. CASE c # "barrier"
        BY <3>2, <1>1
      <3>. QED  BY <3>1, <3>2
    <2>3. ASSUME NEW k \in 1 .. Len(Sizes(c)), c = "ring_allreduce"
          PROVE  Sizes(c)[k] >= s.world
      <3>1. Contains(s.collectives, "ring_allreduce")
        BY <1>1, <2>3 DEF Contains
      <3>2. k \in 1 .. Len(s.sizes) /\ Sizes(c) = s.sizes
        BY <2>3
      <3>3. s.sizes[k] % s.world = 0
        BY <3>1, <3>2 DEF Valid
      <3>4. s.sizes[k] \in Nat /\ s.sizes[k] # 0
        BY <1>1, <3>2
      <3>5. s.sizes[k] >= s.world
        <4>. DEFINE z == s.sizes[k]
                    w == s.world
        <4>1. z \in Nat /\ z # 0 /\ z % w = 0 /\ w \in Nat /\ w >= 2
          BY <1>1, <3>3, <3>4
        <4>. HIDE DEF z, w
        <4>2. z >= w
          BY <4>1
        <4>. QED  BY <4>2 DEF z, w
      <3>. QED  BY <3>2, <3>5
    <2>. HIDE DEF Sizes, c
    <2>4. \A k \in 1 .. Len(Sizes(c)) : Rounds(c, Sizes(c)[k]) \in W
      BY <1>2, <2>1, <2>2, <2>3
    <2>5. ss \in Seq(W)
      BY <2>2, <2>4
    <2>. HIDE DEF ss
    <2>6. FlattenSeq(ss) \in W
      BY <2>5, Flattened
    <2>. QED  BY <2>6 DEF ss, c
  <1>. DEFINE all == [k \in 1 .. Len(s.collectives) |-> ForSizes(s.collectives[k])]
  <1>. HIDE DEF ForSizes
  <1>4. all \in Seq(W)
    BY <1>1, <1>3
  <1>. HIDE DEF all
  <1>5. FlattenSeq(all) \in W
    BY <1>4, Flattened
  <1>. QED  BY <1>5 DEF RoundStages, all, ForSizes, Rounds, Sizes

LEMMA RoundsShape ==
  ASSUME NEW s, Valid(s)
  PROVE  RoundStages(s) \in WellShaped(s)
  <1>. DEFINE W == WellShaped(s)
  <1>1. <<>> \in W /\ \A a, b \in W : a \o b \in W
    BY EmptyShape, ConcatShape
  <1>2. \A c \in Collectives : \A z, i \in Nat :
            (c = "ring_allreduce" => z >= s.world) => CollectiveStages(s, c, z, i) \in W
    BY CollectiveShape
  <1>. HIDE DEF W
  <1>3. RoundStages(s) \in W
    BY <1>1, <1>2, RoundsIn
  <1>. QED  BY <1>3 DEF W

LEMMA PlanShape ==
  ASSUME NEW s, Valid(s)
  PROVE  Shape(s, PlanOf(s))
  <1>. DEFINE opening == IF s.cluster THEN ClusterOpening(s) ELSE TwoSidedOpening(s)
              rounds == RoundStages(s)
              last == Stage("results", Control, 0, 0, ToController(s))
              p == (opening \o rounds) \o <<last>>
  <1>1. ValidTopology(s)
    BY DEF Valid
  <1>2. opening \in WellShaped(s) /\ Len(opening) = 2
    <2>1. \A kind \in Kinds, links \in SUBSET (Ranks(s) \X Ranks(s)) : Stage(kind, Control, 0, 0, links) \in StageSet(s)
      BY StageType DEF Control
    <2>2. /\ \A kind \in {"ready", "go", "start", "answer"} : \A links : Plain(Stage(kind, Control, 0, 0, links))
          /\ {"ready", "go", "start", "answer"} \subseteq Kinds
      BY DEF Plain, Stage, Control, Kinds, ControlKinds
    <2>3. ASSUME NEW a \in StageSet(s), NEW b \in StageSet(s), Plain(a), Plain(b)
          PROVE  <<a, b>> \in WellShaped(s)
      <3>. DEFINE q == <<a, b>>
      <3>1. q \in Seq(StageSet(s)) /\ Len(q) = 2 /\ q[1] = a /\ q[2] = b
        OBVIOUS
      <3>. HIDE DEF q
      <3>2. \A k \in 1 .. Len(q) : Plain(q[k])
        <4>1. \A k \in 1 .. Len(q) : k = 1 \/ k = 2
          BY <3>1
        <4>. QED  BY <2>3, <3>1, <4>1
      <3>3. q \in WellShaped(s)
        BY <3>1, <3>2, PlainShape
      <3>. QED  BY <3>3 DEF q
    <2>4. ClusterOpening(s) \in WellShaped(s) /\ Len(ClusterOpening(s)) = 2
      <3>. DEFINE a == Stage("ready", Control, 0, 0, ToController(s))
                  b == Stage("go", Control, 0, 0, FromController(s))
      <3>1. a \in StageSet(s) /\ b \in StageSet(s) /\ Plain(a) /\ Plain(b)
        BY <1>1, <2>1, <2>2, ZeroIsRank
      <3>2. ClusterOpening(s) = <<a, b>>
        BY DEF ClusterOpening
      <3>. HIDE DEF a, b
      <3>. QED  BY <2>3, <3>1, <3>2
    <2>5. TwoSidedOpening(s) \in WellShaped(s) /\ Len(TwoSidedOpening(s)) = 2
      <3>. DEFINE a == Stage("start", Control, 0, 0, FromController(s))
                  b == Stage("answer", Control, 0, 0, ToController(s))
      <3>1. a \in StageSet(s) /\ b \in StageSet(s) /\ Plain(a) /\ Plain(b)
        BY <1>1, <2>1, <2>2, ZeroIsRank
      <3>2. TwoSidedOpening(s) = <<a, b>>
        BY DEF TwoSidedOpening
      <3>. HIDE DEF a, b
      <3>. QED  BY <2>3, <3>1, <3>2
    <2>. QED  BY <2>4, <2>5
  <1>3. rounds \in WellShaped(s)
    BY RoundsShape
  <1>4. last \in StageSet(s)
    BY <1>1, ZeroIsRank, StageType DEF Kinds, Control
  <1>5. last.kind = "results" /\ last.tag = Control /\ last.links = ToController(s)
    BY DEF Stage
  <1>6. PlanOf(s) = (opening \o rounds) \o <<last>>
    BY DEF PlanOf, ResultStages
  <1>. HIDE DEF opening, rounds, last
  <1>. DEFINE q == opening \o rounds
  <1>7. q \in WellShaped(s) /\ q \in Seq(StageSet(s)) /\ Len(q) \in Nat /\ Len(q) >= 2
    <2>1. opening \in Seq(StageSet(s)) /\ rounds \in Seq(StageSet(s))
      BY <1>2, <1>3 DEF WellShaped
    <2>2. q \in WellShaped(s)
      BY <1>2, <1>3, ConcatShape
    <2>. QED  BY <1>2, <2>1, <2>2
  <1>. HIDE DEF q
  <1>8. /\ p \in Seq(StageSet(s)) /\ Len(p) = Len(q) + 1 /\ p[Len(p)] = last
        /\ \A k \in 1 .. Len(q) : p[k] = q[k]
    <2>. DEFINE z == <<last>>
    <2>1. z \in Seq(StageSet(s)) /\ Len(z) = 1 /\ z[1] = last
      BY <1>4
    <2>2. p = q \o z
      BY DEF q
    <2>. HIDE DEF z, p
    <2>3. /\ q \o z \in Seq(StageSet(s)) /\ Len(q \o z) = Len(q) + Len(z)
          /\ \A k \in 1 .. Len(q) + Len(z) : (q \o z)[k] = IF k <= Len(q) THEN q[k] ELSE z[k - Len(q)]
      BY <1>7, <2>1, ConcatProperties
    <2>. QED  BY <1>7, <2>1, <2>2, <2>3
  <1>. HIDE DEF p
  <1>9. ASSUME NEW k \in 1 .. Len(p)
        PROVE  WellPlaced(s, p, k) /\ (p[k].kind = "results" <=> k = Len(p))
    <2>1. CASE k \in 1 .. Len(q)
      <3>1. WellPlaced(s, q, k) /\ q[k].kind # "results" /\ p[k] = q[k] /\ k # Len(p)
        BY <1>7, <1>8, <2>1 DEF WellShaped
      <3>2. \A j \in 1 .. Len(q) : j \in 1 .. Len(p) /\ p[j] = q[j]
        BY <1>7, <1>8
      <3>. QED  BY <3>1, <3>2 DEF WellPlaced
    <2>2. CASE k = Len(p)
      BY <1>5, <1>8, <2>2 DEF WellPlaced, BarrierTag, PhaseTag, Control, ControlKinds
    <2>. QED  BY <1>7, <1>8, <2>1, <2>2
  <1>10. Shape(s, p)
    BY <1>5, <1>7, <1>8, <1>9 DEF Shape
  <1>. QED  BY <1>6, <1>10 DEF p

LEMMA PlansShape ==
  ASSUME NEW s \in Settings
  PROVE  Shape(s, Plan[s]) /\ ValidTopology(s) /\ s.concurrency \in Nat
  <1>1. Valid(s)
    BY ClusterAssumption
  <1>2. Plan[s] = PlanOf(s)
    BY DEF Plan
  <1>. QED  BY <1>1, <1>2, PlanShape DEF Valid, ValidTopology

---------------------------------------------------------------------------
(* Where the ranks are                                                     *)

LEMMA Shaped ==
  ASSUME setting \in Settings
  PROVE  /\ Shape(setting, Stages) /\ Len(Stages) \in Nat /\ Len(Stages) > 2
         /\ 0 \in World /\ \A r \in World : r \in Int
         /\ setting.concurrency \in Nat
  <1>1. Shape(setting, Stages) /\ ValidTopology(setting) /\ setting.concurrency \in Nat
    BY PlansShape DEF Stages
  <1>2. Stages \in Seq(StageSet(setting)) /\ Len(Stages) > 2
    BY <1>1 DEF Shape
  <1>3. Len(Stages) \in Nat
    BY <1>2
  <1>4. 0 \in World /\ \A r \in World : r \in Int
    BY <1>1, ZeroIsRank DEF World, Ranks
  <1>. QED  BY <1>1, <1>2, <1>3, <1>4

\* A message goes out, and may be a repeated "ready".
Outgoing(r, y, m) ==
    /\ m.src = r /\ m.dst = y /\ m.at = pc[r] /\ m.tag = Stages[pc[r]].tag /\ m.kind = Stages[pc[r]].kind
    /\ net' = net \cup {m}
    /\ \/ unsent' = [unsent EXCEPT ![r] = @ \ {y}] /\ retries' = retries
       \/ unsent' = unsent /\ retries' = retries + 1 /\ m.kind \in ControlKinds

LEMMA SendEffect ==
  ASSUME NEW r \in World, Send(r) \/ SendTimesOut(r)
  PROVE  /\ setting' = setting /\ pc' = pc /\ awaited' = awaited /\ got' = got /\ status' = status
         /\ \E y \in unsent[r] : \E m : Outgoing(r, y, m)
  <1>1. CASE Send(r)
    <2>1. PICK y \in unsent[r] : net' = net \cup {Message(r, y, 0)} /\ unsent' = [unsent EXCEPT ![r] = @ \ {y}]
      BY <1>1 DEF Send
    <2>2. Outgoing(r, y, Message(r, y, 0))
      BY <1>1, <2>1 DEF Send, Outgoing, Message, Here, Stages
    <2>. QED  BY <1>1, <2>2 DEF Send
  <1>2. CASE SendTimesOut(r)
    <2>1. PICK y \in unsent[r] : net' = net \cup {Message(r, y, retries + 1)}
      BY <1>2 DEF SendTimesOut
    <2>2. unsent' = unsent /\ retries' = retries + 1 /\ Here(r).kind = "ready"
      BY <1>2 DEF SendTimesOut
    <2>3. Outgoing(r, y, Message(r, y, retries + 1))
      BY <2>1, <2>2 DEF Outgoing, Message, Here, Stages, ControlKinds
    <2>. QED  BY <1>2, <2>3 DEF SendTimesOut
  <1>. QED  BY <1>1, <1>2

Incoming(r, x, m) ==
    /\ m.src = x /\ m.dst = r /\ m.tag = Stages[pc[r]].tag
    /\ net' = net \ {m}
    /\ got' = [got EXCEPT ![r] = @ \cup {m}]
    /\ awaited' = [awaited EXCEPT ![r] = @ \ {x}]

LEMMA ReceiveEffect ==
  ASSUME NEW r \in World, Receive(r)
  PROVE  /\ setting' = setting /\ pc' = pc /\ unsent' = unsent /\ status' = status /\ retries' = retries
         /\ \E x \in awaited[r] : \E m \in net : Incoming(r, x, m)
  <1>1. PICK x \in awaited[r] : \E m \in For(r, x) :
            /\ net' = net \ {m}
            /\ got' = [got EXCEPT ![r] = @ \cup {m}]
            /\ awaited' = [awaited EXCEPT ![r] = @ \ {x}]
    BY DEF Receive
  <1>2. PICK m \in For(r, x) :
            /\ net' = net \ {m}
            /\ got' = [got EXCEPT ![r] = @ \cup {m}]
            /\ awaited' = [awaited EXCEPT ![r] = @ \ {x}]
    BY <1>1
  <1>3. m \in net /\ Incoming(r, x, m)
    BY <1>2 DEF For, Incoming, Here, Stages
  <1>. QED  BY <1>3 DEF Receive

Advances(r) ==
    /\ ~AtEnd(r) /\ status' = status
    /\ pc' = [pc EXCEPT ![r] = @ + 1]
    /\ unsent' = [unsent EXCEPT ![r] = Destinations(setting, r, pc[r] + 1)]
    /\ awaited' = [awaited EXCEPT ![r] = Sources(setting, r, pc[r] + 1)]

Ends(r) ==
    /\ AtEnd(r) /\ pc' = pc /\ unsent' = unsent /\ awaited' = awaited
    /\ status' = [status EXCEPT ![r] = "done"]

LEMMA ProceedEffect ==
  ASSUME NEW r \in World, Proceed(r)
  PROVE  /\ setting' = setting /\ net' = net /\ got' = [got EXCEPT ![r] = {}] /\ retries' = retries
         /\ unsent[r] = {} /\ awaited[r] = {} /\ status[r] = "run"
         /\ Accepted(r) /\ NodeReady(r)
         /\ Advances(r) \/ Ends(r)
  BY DEF Proceed, ForgetReceived, Complete, Advances, Ends

Fails(r) ==
    /\ status[r] = "run" /\ status' = [status EXCEPT ![r] = "failed"]
    /\ UNCHANGED <<setting, pc, unsent, awaited, got, net, retries>>

LEMMA StepCases ==
  ASSUME Next
  PROVE  \E r \in World : Send(r) \/ SendTimesOut(r) \/ Receive(r) \/ Proceed(r) \/ Fails(r)
  BY DEF Next, Step, Reject, DraggedAlong, Break, Fail, Fails, opVars

\* What a step must establish when it leaves the setting alone.
LEMMA PlaceInvNext ==
  ASSUME setting' = setting, setting \in Settings,
         pc' \in [World -> 1 .. Len(Stages)],
         unsent' \in [World -> SUBSET World], awaited' \in [World -> SUBSET World],
         got' = [r \in World |-> got'[r]],
         status' \in [World -> {"run", "done", "failed"}], retries' \in Nat,
         \A r \in World : /\ unsent'[r] \subseteq Destinations(setting, r, pc'[r])
                          /\ awaited'[r] \subseteq Sources(setting, r, pc'[r])
  PROVE  PlaceInv'
  <1>1. World' = World /\ Stages' = Stages
    BY DEF World, Stages
  <1>. QED  BY <1>1 DEF PlaceInv

LEMMA PlaceStep ==
  ASSUME PlaceInv, [Next]_vars
  PROVE  PlaceInv' /\ setting' = setting /\ \A r \in World : pc[r] <= pc'[r]
  <1>. DEFINE Goal == PlaceInv' /\ setting' = setting /\ \A r \in World : pc[r] <= pc'[r]
  <1>1. Len(Stages) \in Nat /\ Len(Stages) > 2 /\ \A r \in World : pc[r] \in Int
    BY Shaped DEF PlaceInv
  <1>. USE PlaceInv DEF PlaceInv
  <1>. SUFFICES ASSUME Next PROVE Goal
    <2>. SUFFICES ASSUME UNCHANGED vars PROVE Goal
      OBVIOUS
    <2>1. /\ setting' = setting /\ pc' = pc /\ unsent' = unsent /\ awaited' = awaited
          /\ got' = got /\ status' = status /\ retries' = retries
      BY DEF vars, opVars
    <2>. QED  BY <1>1, <2>1 DEF World, Stages
  <1>2. ASSUME NEW r \in World, Send(r) \/ SendTimesOut(r)
        PROVE  Goal
    <2>1. PICK y \in unsent[r] : \E m : Outgoing(r, y, m)
      BY <1>2, SendEffect
    <2>2. (unsent' = unsent \/ unsent' = [unsent EXCEPT ![r] = @ \ {y}]) /\ retries' \in Nat
      BY <2>1 DEF Outgoing
    <2>3. setting' = setting /\ pc' = pc /\ awaited' = awaited /\ got' = got /\ status' = status
      BY <1>2, SendEffect
    <2>4. unsent' \in [World -> SUBSET World] /\ \A x \in World : unsent'[x] \subseteq unsent[x]
      <3>1. CASE unsent' = unsent
        BY <3>1
      <3>2. CASE unsent' = [unsent EXCEPT ![r] = @ \ {y}]
        BY <3>2
      <3>. QED  BY <2>2, <3>1, <3>2
    <2>5. \A x \in World : /\ unsent'[x] \subseteq Destinations(setting, x, pc'[x])
                           /\ awaited'[x] \subseteq Sources(setting, x, pc'[x])
      BY <2>3, <2>4
    <2>6. PlaceInv'
      BY <2>2, <2>3, <2>4, <2>5, PlaceInvNext
    <2>. QED  BY <1>1, <2>3, <2>6
  <1>3. ASSUME NEW r \in World, Receive(r)
        PROVE  Goal
    <2>1. PICK x \in awaited[r], m \in net : Incoming(r, x, m)
      BY <1>3, ReceiveEffect
    <2>2. setting' = setting /\ pc' = pc /\ unsent' = unsent /\ status' = status /\ retries' \in Nat
      BY <1>3, ReceiveEffect
    <2>3. awaited' = [awaited EXCEPT ![r] = @ \ {x}] /\ got' = [got EXCEPT ![r] = @ \cup {m}]
      BY <2>1 DEF Incoming
    <2>4. awaited' \in [World -> SUBSET World] /\ \A z \in World : awaited'[z] \subseteq awaited[z]
      BY <2>3
    <2>5. got' = [z \in World |-> got'[z]]
      BY <2>3
    <2>6. \A z \in World : /\ unsent'[z] \subseteq Destinations(setting, z, pc'[z])
                           /\ awaited'[z] \subseteq Sources(setting, z, pc'[z])
      BY <2>2, <2>4
    <2>7. PlaceInv'
      BY <2>2, <2>4, <2>5, <2>6, PlaceInvNext
    <2>. QED  BY <1>1, <2>2, <2>7
  <1>4. ASSUME NEW r \in World, Proceed(r)
        PROVE  Goal
    <2>1. setting' = setting /\ got' = [got EXCEPT ![r] = {}] /\ retries' \in Nat
      BY <1>4, ProceedEffect
    <2>2. got' = [z \in World |-> got'[z]]
      BY <2>1
    <2>3. CASE Advances(r)
      <3>1. pc[r] \in 1 .. Len(Stages) /\ pc[r] # Len(Stages)
        BY <2>3 DEF Advances, AtEnd, Stages
      <3>2. pc[r] + 1 \in 1 .. Len(Stages) /\ pc[r] <= pc[r] + 1
        BY <1>1, <3>1
      <3>3. Destinations(setting, r, pc[r] + 1) \subseteq World /\ Sources(setting, r, pc[r] + 1) \subseteq World
        BY DEF Destinations, Sources, World
      <3>4. pc' \in [World -> 1 .. Len(Stages)] /\ \A z \in World : pc'[z] = IF z = r THEN pc[r] + 1 ELSE pc[z]
        BY <2>3, <3>2 DEF Advances
      <3>5. /\ unsent' \in [World -> SUBSET World] /\ awaited' \in [World -> SUBSET World]
            /\ \A z \in World : unsent'[z] = IF z = r THEN Destinations(setting, r, pc[r] + 1) ELSE unsent[z]
            /\ \A z \in World : awaited'[z] = IF z = r THEN Sources(setting, r, pc[r] + 1) ELSE awaited[z]
        BY <2>3, <3>3 DEF Advances
      <3>6. \A z \in World : /\ unsent'[z] \subseteq Destinations(setting, z, pc'[z])
                             /\ awaited'[z] \subseteq Sources(setting, z, pc'[z])
        BY <3>4, <3>5
      <3>7. status' \in [World -> {"run", "done", "failed"}]
        BY <2>3 DEF Advances
      <3>8. PlaceInv'
        BY <2>1, <2>2, <3>4, <3>5, <3>6, <3>7, PlaceInvNext
      <3>9. \A z \in World : pc[z] <= pc'[z]
        <4>. TAKE z \in World
        <4>1. pc[z] \in Int /\ pc[r] <= pc[r] + 1
          BY <1>1, <3>2
        <4>. QED  BY <3>4, <4>1
      <3>. QED  BY <2>1, <3>8, <3>9
    <2>4. CASE Ends(r)
      <3>1. /\ pc' = pc /\ unsent' = unsent /\ awaited' = awaited
            /\ status' \in [World -> {"run", "done", "failed"}]
        BY <2>4 DEF Ends
      <3>2. PlaceInv'
        BY <2>1, <2>2, <3>1, PlaceInvNext
      <3>. QED  BY <1>1, <2>1, <3>1, <3>2
    <2>. QED  BY <1>4, <2>3, <2>4, ProceedEffect
  <1>5. ASSUME NEW r \in World, Fails(r)
        PROVE  Goal
    <2>1. /\ setting' = setting /\ pc' = pc /\ unsent' = unsent /\ awaited' = awaited /\ got' = got
          /\ status' \in [World -> {"run", "done", "failed"}] /\ retries' \in Nat
      BY <1>5 DEF Fails
    <2>2. PlaceInv'
      BY <2>1, PlaceInvNext
    <2>. QED  BY <1>1, <2>1, <2>2
  <1>. QED  BY <1>2, <1>3, <1>4, <1>5, StepCases

---------------------------------------------------------------------------
(* Messages belong to stages                                               *)

LEMMA StaysGenuine ==
  ASSUME PlaceInv, PlaceInv', setting' = setting, \A r \in World : pc[r] <= pc'[r],
         NEW m, Genuine(m)
  PROVE  Genuine(m)'
  <1>1. World' = World /\ Stages' = Stages
    BY DEF World, Stages
  <1>2. m.at \in 1 .. pc[m.src] /\ m.src \in World
    BY DEF Genuine
  <1>3. pc[m.src] \in Int /\ pc'[m.src] \in Int /\ pc[m.src] <= pc'[m.src]
    BY <1>1, <1>2, Shaped DEF PlaceInv
  <1>4. m.at \in 1 .. pc'[m.src]
    BY <1>2, <1>3
  <1>. QED  BY <1>1, <1>4 DEF Genuine

LEMMA MessagesStep ==
  ASSUME PlaceInv, MessagesInv, [Next]_vars
  PROVE  MessagesInv'
  <1>1. PlaceInv' /\ setting' = setting /\ \A r \in World : pc[r] <= pc'[r]
    BY PlaceStep
  <1>2. World' = World /\ Stages' = Stages
    BY <1>1 DEF World, Stages
  <1>3. \A m : Genuine(m) => Genuine(m)'
    BY <1>1, StaysGenuine
  <1>. DEFINE Goal == /\ \A m \in net' : Genuine(m)'
                      /\ \A r \in World : \A m \in got'[r] : Genuine(m)'
                      /\ \A r \in World : status'[r] # "done" =>
                            \A x \in Sources(setting, r, pc'[r]) \ awaited'[r] : \E m \in got'[r] : m.src = x
  <1>4. Goal => MessagesInv'
    BY <1>1, <1>2 DEF MessagesInv
  <1>5. /\ \A m \in net : Genuine(m)
        /\ \A r \in World : \A m \in got[r] : Genuine(m)
        /\ \A r \in World : status[r] # "done" =>
              \A x \in Sources(setting, r, pc[r]) \ awaited[r] : \E m \in got[r] : m.src = x
    BY DEF MessagesInv
  <1>6. /\ awaited \in [World -> SUBSET World] /\ got = [r \in World |-> got[r]]
        /\ status \in [World -> {"run", "done", "failed"}] /\ pc \in [World -> 1 .. Len(Stages)]
        /\ Len(Stages) \in Nat /\ \A r \in World : pc[r] \in 1 .. pc[r]
    BY Shaped DEF PlaceInv
  <1>7. CASE UNCHANGED vars
    BY <1>3, <1>4, <1>5, <1>7 DEF vars, opVars
  <1>8. ASSUME NEW r \in World, Send(r) \/ SendTimesOut(r)
        PROVE  Goal
    <2>1. PICK y \in unsent[r] : \E m : Outgoing(r, y, m)
      BY <1>8, SendEffect
    <2>2. PICK m : Outgoing(r, y, m)
      BY <2>1
    <2>3. pc' = pc /\ awaited' = awaited /\ got' = got /\ status' = status
      BY <1>8, SendEffect
    <2>4. y \in World /\ <<r, y>> \in Stages[pc[r]].links
      BY <2>1 DEF PlaceInv, Destinations, World, Stages
    <2>5. Genuine(m)
      BY <1>6, <2>2, <2>4 DEF Outgoing, Genuine
    <2>6. \A n \in net' : Genuine(n)
      BY <1>5, <2>2, <2>5 DEF Outgoing
    <2>. QED  BY <1>3, <1>5, <2>3, <2>6
  <1>9. ASSUME NEW r \in World, Receive(r)
        PROVE  Goal
    <2>1. PICK x \in awaited[r], m \in net : Incoming(r, x, m)
      BY <1>9, ReceiveEffect
    <2>2. pc' = pc /\ status' = status
      BY <1>9, ReceiveEffect
    <2>3. /\ net' = net \ {m} /\ m.src = x
          /\ \A z \in World : got'[z] = IF z = r THEN got[r] \cup {m} ELSE got[z]
          /\ \A z \in World : awaited'[z] = IF z = r THEN awaited[r] \ {x} ELSE awaited[z]
      BY <1>6, <2>1 DEF Incoming
    <2>4. \A n \in net' : Genuine(n)'
      BY <1>3, <1>5, <2>3
    <2>5. \A z \in World : \A n \in got'[z] : Genuine(n)'
      BY <1>3, <1>5, <2>3
    <2>6. ASSUME NEW z \in World, status'[z] # "done", NEW w \in Sources(setting, z, pc'[z]) \ awaited'[z]
          PROVE  \E n \in got'[z] : n.src = w
      <3>1. CASE z = r /\ w = x
        BY <2>3, <3>1
      <3>2. CASE ~(z = r /\ w = x)
        <4>1. status[z] # "done" /\ w \in Sources(setting, z, pc[z]) \ awaited[z] /\ got[z] \subseteq got'[z]
          BY <2>2, <2>3, <2>6, <3>2
        <4>. QED  BY <1>5, <4>1
      <3>. QED  BY <3>1, <3>2
    <2>. QED  BY <2>4, <2>5, <2>6
  <1>10. ASSUME NEW r \in World, Proceed(r)
         PROVE  Goal
    <2>1. /\ net' = net
          /\ \A z \in World : got'[z] = IF z = r THEN {} ELSE got[z]
      BY <1>6, <1>10, ProceedEffect
    <2>2. \A n \in net' : Genuine(n)'
      BY <1>3, <1>5, <2>1
    <2>3. \A z \in World : \A n \in got'[z] : Genuine(n)'
      BY <1>3, <1>5, <2>1
    <2>4. ASSUME NEW z \in World, status'[z] # "done", NEW w \in Sources(setting, z, pc'[z]) \ awaited'[z]
          PROVE  z # r /\ status'[z] = status[z] /\ pc'[z] = pc[z] /\ awaited'[z] = awaited[z]
      <3>1. CASE Advances(r)
        BY <1>6, <2>4, <3>1 DEF Advances
      <3>2. CASE Ends(r)
        BY <1>6, <2>4, <3>2 DEF Ends
      <3>. QED  BY <1>10, <3>1, <3>2, ProceedEffect
    <2>5. ASSUME NEW z \in World, status'[z] # "done", NEW w \in Sources(setting, z, pc'[z]) \ awaited'[z]
          PROVE  \E n \in got'[z] : n.src = w
      BY <1>5, <2>1, <2>4, <2>5
    <2>. QED  BY <2>2, <2>3, <2>5
  <1>11. ASSUME NEW r \in World, Fails(r)
         PROVE  Goal
    <2>1. pc' = pc /\ awaited' = awaited /\ got' = got /\ net' = net
      BY <1>11 DEF Fails
    <2>2. \A z \in World : status'[z] # "done" => status[z] # "done"
      BY <1>6, <1>11 DEF Fails
    <2>. QED  BY <1>3, <1>5, <2>1, <2>2
  <1>. QED  BY <1>4, <1>7, <1>8, <1>9, <1>10, <1>11, StepCases

---------------------------------------------------------------------------
(* Barriers and phases keep ranks, and messages, apart                     *)

\* The stages around one of a barrier or of a phase.
LEMMA Placed ==
  ASSUME PlaceInv, NEW i \in 1 .. Len(Stages)
  PROVE  /\ Stages[i].kind \in {"arrive", "release"} <=> BarrierTag(Stages[i].tag)
         /\ Stages[i].kind = "exchange" <=> PhaseTag(Stages[i].tag)
         /\ Stages[i].kind \in ControlKinds <=> Stages[i].tag = Control
         /\ Stages[i].kind = "release" =>
                /\ i - 1 \in 1 .. Len(Stages) /\ Stages[i - 1].kind = "arrive"
                /\ Stages[i].links = FromRank(setting, 0) /\ Stages[i - 1].links = ToRank(setting, 0)
         /\ Stages[i].kind = "arrive" =>
                /\ i + 1 \in 1 .. Len(Stages) /\ Stages[i + 1].kind = "release"
                /\ Stages[i].links = ToRank(setting, 0) /\ Stages[i + 1].links = FromRank(setting, 0)
         /\ Stages[i].kind = "exchange" =>
                /\ i + 1 \in 1 .. Len(Stages) /\ Stages[i + 1].kind = "arrive"
                /\ i + 2 \in 1 .. Len(Stages) /\ Stages[i + 2].kind = "release"
                /\ IsFiniteSet(Stages[i].links) /\ Cardinality(Stages[i].links) <= setting.concurrency
         /\ Stages[i].kind = "results" <=> i = Len(Stages)
  <1>1. \A k \in 1 .. Len(Stages) : WellPlaced(setting, Stages, k) /\ (Stages[k].kind = "results" <=> k = Len(Stages))
    BY Shaped DEF PlaceInv, Shape
  <1>2. Len(Stages) \in Nat
    BY Shaped DEF PlaceInv
  <1>3. /\ Stages[i].kind \in {"arrive", "release"} <=> BarrierTag(Stages[i].tag)
        /\ Stages[i].kind = "exchange" <=> PhaseTag(Stages[i].tag)
        /\ Stages[i].kind \in ControlKinds <=> Stages[i].tag = Control
    BY <1>1 DEF WellPlaced
  <1>4. ASSUME Stages[i].kind = "release"
        PROVE  /\ i - 1 \in 1 .. Len(Stages) /\ Stages[i - 1].kind = "arrive"
               /\ Stages[i].links = FromRank(setting, 0) /\ Stages[i - 1].links = ToRank(setting, 0)
    BY <1>1, <1>4 DEF WellPlaced
  <1>5. ASSUME NEW k \in 1 .. Len(Stages), Stages[k].kind = "arrive"
        PROVE  /\ k + 1 \in 1 .. Len(Stages) /\ Stages[k + 1].kind = "release"
               /\ Stages[k].links = ToRank(setting, 0) /\ Stages[k + 1].links = FromRank(setting, 0)
    BY <1>1, <1>5 DEF WellPlaced
  <1>6. ASSUME Stages[i].kind = "exchange"
        PROVE  /\ i + 1 \in 1 .. Len(Stages) /\ Stages[i + 1].kind = "arrive"
               /\ i + 2 \in 1 .. Len(Stages) /\ Stages[i + 2].kind = "release"
               /\ IsFiniteSet(Stages[i].links) /\ Cardinality(Stages[i].links) <= setting.concurrency
    <2>1. /\ i + 1 \in 1 .. Len(Stages) /\ Stages[i + 1].kind = "arrive"
          /\ IsFiniteSet(Stages[i].links) /\ Cardinality(Stages[i].links) <= setting.concurrency
      BY <1>1, <1>6 DEF WellPlaced
    <2>2. (i + 1) + 1 \in 1 .. Len(Stages) /\ Stages[(i + 1) + 1].kind = "release"
      BY <1>5, <2>1
    <2>3. (i + 1) + 1 = i + 2
      OBVIOUS
    <2>. QED  BY <2>1, <2>2, <2>3
  <1>. QED  BY <1>1, <1>3, <1>4, <1>5, <1>6

LEMMA Positions ==
  ASSUME PlaceInv
  PROVE  /\ Len(Stages) \in Nat /\ \A x \in World : pc[x] \in Int /\ pc[x] \in 1 .. Len(Stages)
         /\ 0 \in World
         /\ \A x \in World : <<x, 0>> \in ToRank(setting, 0) <=> x # 0
         /\ \A x \in World : <<0, x>> \in FromRank(setting, 0) <=> x # 0
  <1>1. Len(Stages) \in Nat /\ 0 \in World
    BY Shaped DEF PlaceInv
  <1>2. \A x \in World : pc[x] \in Int /\ pc[x] \in 1 .. Len(Stages)
    BY <1>1 DEF PlaceInv
  <1>. QED  BY <1>1, <1>2 DEF ToRank, FromRank, Others, World

\* Kinds are exact in groups, and a tag tells the group.
LEMMA ExactGroups ==
  /\ Guarded \subseteq Exact
  /\ Exact \cap DataKinds # {} => DataApart(setting, Stages) /\ DataKinds \subseteq Exact
  /\ Exact \cap ControlKinds # {} => /\ Apart(setting, Stages, ControlKinds, Kinds) /\ Kinds \subseteq Exact
                                     /\ ControlKinds \subseteq Exact
  /\ Exact \subseteq Guarded \cup DataKinds \cup ControlKinds
  BY DEF Exact, ControlApart, Guarded, DataKinds, ControlKinds, Kinds

LEMMA StageKinds ==
  ASSUME PlaceInv
  PROVE  \A k \in 1 .. Len(Stages) : Stages[k].kind \in Kinds
  <1>1. Stages \in Seq(StageSet(setting))
    BY Shaped DEF PlaceInv, Shape
  <1>2. \A k \in 1 .. Len(Stages) : Stages[k] \in StageSet(setting)
    BY <1>1
  <1>. QED  BY <1>2 DEF StageSet

LEMMA TagGroups ==
  ASSUME PlaceInv, NEW i \in 1 .. Len(Stages), NEW j \in 1 .. Len(Stages), Stages[i].tag = Stages[j].tag
  PROVE  /\ Stages[i].kind \in {"arrive", "release"} <=> Stages[j].kind \in {"arrive", "release"}
         /\ Stages[i].kind = "exchange" <=> Stages[j].kind = "exchange"
         /\ Stages[i].kind \in Guarded <=> Stages[j].kind \in Guarded
         /\ Stages[i].kind \in ControlKinds <=> Stages[j].kind \in ControlKinds
         /\ Stages[i].kind \in DataKinds <=> Stages[j].kind \in DataKinds
         /\ Stages[i].kind \in Exact <=> Stages[j].kind \in Exact
  <1>1. \A k \in 1 .. Len(Stages) : Stages[k].kind \in Kinds
    BY StageKinds
  <1>2. /\ Stages[i].kind \in {"arrive", "release"} <=> Stages[j].kind \in {"arrive", "release"}
        /\ Stages[i].kind = "exchange" <=> Stages[j].kind = "exchange"
        /\ Stages[i].kind \in ControlKinds <=> Stages[j].kind \in ControlKinds
    <2>1. \A k \in 1 .. Len(Stages) :
            /\ Stages[k].kind \in {"arrive", "release"} <=> BarrierTag(Stages[k].tag)
            /\ Stages[k].kind = "exchange" <=> PhaseTag(Stages[k].tag)
            /\ Stages[k].kind \in ControlKinds <=> Stages[k].tag = Control
      BY Placed
    <2>. QED  BY <2>1, Zenon
  <1>3. Stages[i].kind \in Guarded <=> Stages[j].kind \in Guarded
    BY <1>2 DEF Guarded
  <1>4. Stages[i].kind \in DataKinds <=> Stages[j].kind \in DataKinds
    <2>1. \A kind \in Kinds : kind \in DataKinds <=> kind \notin Guarded /\ kind \notin ControlKinds
      BY DEF Kinds, DataKinds, Guarded, ControlKinds
    <2>. QED  BY <1>1, <1>2, <1>3, <2>1
  <1>5. Stages[i].kind \in Exact <=> Stages[j].kind \in Exact
    BY <1>2, <1>3, <1>4, ExactGroups
  <1>. QED  BY <1>2, <1>3, <1>4, <1>5

\* A repeated message may end the exactness of control messages.
LEMMA ExactLater ==
  ASSUME PlaceInv, setting' = setting
  PROVE  /\ retries' = retries => Exact' = Exact
         /\ retries' = retries + 1 => Exact' \subseteq Exact /\ Exact' \cap ControlKinds = {}
  <1>1. Stages' = Stages /\ retries \in Nat
    BY DEF Stages, PlaceInv
  <1>2. ASSUME retries' = retries
        PROVE  Exact' = Exact
    BY <1>1, <1>2 DEF Exact
  <1>3. ASSUME retries' = retries + 1
        PROVE  Exact' \subseteq Exact /\ Exact' \cap ControlKinds = {}
    <2>1. retries' # 0
      BY <1>1, <1>3
    <2>2. Exact' = Guarded \cup (IF DataApart(setting, Stages) THEN DataKinds ELSE {})
      BY <1>1, <2>1 DEF Exact
    <2>. QED  BY <2>2 DEF Exact, Guarded, DataKinds, ControlKinds
  <1>. QED  BY <1>2, <1>3

\* Who is past the release of a barrier knows that everyone has arrived.
LEMMA Released ==
  ASSUME PlaceInv, HeardWasTold, NEW i \in 1 .. Len(Stages), Stages[i].kind = "release",
         NEW r \in World, pc[r] > i, NEW q \in World
  PROVE  pc[q] >= i \/ (pc[q] = i - 1 /\ unsent[q] = {})
  <1>1. /\ i - 1 \in 1 .. Len(Stages) /\ Stages[i - 1].kind = "arrive"
        /\ Stages[i].links = FromRank(setting, 0) /\ Stages[i - 1].links = ToRank(setting, 0)
    BY Placed
  <1>2. pc[0] \in Int /\ pc[q] \in Int /\ pc[r] \in Int /\ i \in Int
    BY Positions
  <1>3. pc[0] >= i
    <2>1. CASE r = 0
      BY <1>2, <2>1
    <2>2. CASE r # 0
      <3>1. <<0, r>> \in Stages[i].links /\ Heard(r, 0, i)
        BY <1>1, <2>2, Positions DEF Heard
      <3>2. Told(0, r, i)
        BY <3>1, Positions, ExactGroups DEF HeardWasTold, Guarded
      <3>. QED  BY <1>2, <3>2 DEF Told
    <2>. QED  BY <2>1, <2>2
  <1>4. CASE q = 0
    BY <1>3, <1>4
  <1>5. CASE q # 0
    <2>1. <<q, 0>> \in Stages[i - 1].links /\ Heard(0, q, i - 1)
      BY <1>1, <1>2, <1>3, <1>5, Positions DEF Heard
    <2>2. Told(q, 0, i - 1)
      BY <1>1, <2>1, Positions, ExactGroups DEF HeardWasTold, Guarded
    <2>3. CASE pc[q] > i - 1
      BY <1>2, <2>3
    <2>4. CASE pc[q] = i - 1 /\ 0 \notin unsent[q]
      <3>1. unsent[q] \subseteq {y \in World : <<q, y>> \in ToRank(setting, 0)}
        BY <1>1, <2>4 DEF PlaceInv, Destinations, World, Stages
      <3>2. unsent[q] \subseteq {0}
        BY <3>1 DEF ToRank
      <3>. QED  BY <2>4, <3>2
    <2>. QED  BY <2>2, <2>3, <2>4 DEF Told
  <1>. QED  BY <1>4, <1>5

\* Who is in a stage that messages lead to from a stage of another rank knows
\* that this rank has entered that stage.
LEMMA LedHere ==
  ASSUME PlaceInv, HeardWasTold, NEW K, K \subseteq Exact,
         NEW y \in World, NEW x \in World, NEW i \in 1 .. Len(Stages) + 1, NEW j \in 1 .. Len(Stages) + 1,
         Leads(setting, Stages, K, y, i, x, j), pc[x] >= j
  PROVE  pc[y] >= i
  <1>. DEFINE S == {z \in World \X (1 .. Len(Stages) + 1) : pc[z[1]] >= z[2] => pc[y] >= i}
  <1>1. Len(Stages) \in Nat /\ \A z \in World : pc[z] \in Int
    BY Positions
  <1>2. <<y, i>> \in S /\ S \in SUBSET (Ranks(setting) \X (1 .. Len(Stages) + 1))
    BY DEF World
  <1>3. ASSUME NEW z \in World, NEW k \in 1 .. Len(Stages) + 1, NEW l \in 1 .. Len(Stages) + 1,
               <<z, k>> \in S, k <= l
        PROVE  <<z, l>> \in S
    BY <1>1, <1>3
  <1>4. ASSUME NEW k \in 1 .. Len(Stages), Stages[k].kind \in K, NEW z \in World, NEW w \in World,
               <<z, w>> \in Stages[k].links, <<z, k>> \in S
        PROVE  <<w, k + 1>> \in S
    <2>1. k \in Int /\ k + 1 \in 1 .. Len(Stages) + 1
      BY <1>1
    <2>2. SUFFICES ASSUME pc[w] >= k + 1 PROVE pc[y] >= i
      BY <2>1
    <2>3. Heard(w, z, k)
      BY <1>1, <2>1, <2>2 DEF Heard
    <2>4. Told(z, w, k)
      BY <1>4, <2>3 DEF HeardWasTold
    <2>5. pc[z] >= k
      BY <1>1, <2>1, <2>4 DEF Told
    <2>. QED  BY <1>4, <2>5
  <1>5. Closed(setting, Stages, K, S)
    <2>. HIDE DEF S
    <2>. QED  BY <1>3, <1>4 DEF Closed, World
  <1>6. <<x, j>> \in S
    <2>. HIDE DEF S
    <2>. QED  BY <1>2, <1>5 DEF Leads
  <1>. QED  BY <1>6

\* What has the tag that a rank waits for, and comes from a rank it waits for,
\* is of its own stage, though its sender may be ahead and messages overtake.
LEMMA InPhase ==
  ASSUME PlaceInv, MessagesInv, NotStale, HeardWasTold,
         NEW r \in World, NEW x \in awaited[r], NEW m \in net,
         m.src = x, m.dst = r, m.tag = Stages[pc[r]].tag, m.kind \in Exact
  PROVE  /\ m.at = pc[r] /\ Stages[pc[r]].kind = m.kind
  <1>. DEFINE i == pc[r]
              j == m.at
  <1>1. /\ i \in 1 .. Len(Stages) /\ i \in Int /\ Len(Stages) \in Nat
        /\ x \in World /\ pc[x] \in 1 .. Len(Stages) /\ pc[x] \in Int
    BY Positions DEF PlaceInv
  <1>2. /\ j \in 1 .. pc[x] /\ <<x, r>> \in Stages[j].links
        /\ m.kind = Stages[j].kind /\ m.tag = Stages[j].tag
    BY DEF MessagesInv, Genuine
  <1>3. j \in 1 .. Len(Stages) /\ j \in Int /\ j <= pc[x]
    BY <1>1, <1>2
  <1>4. i < j \/ i = j
    BY DEF NotStale
  <1>5. <<x, r>> \in Stages[i].links
    BY DEF PlaceInv, Sources, Stages
  <1>6. Stages[i].tag = Stages[j].tag /\ Stages[j].kind \in Exact
    BY <1>2
  <1>. HIDE DEF i, j
  <1>7. /\ Stages[i].kind \in {"arrive", "release"} <=> Stages[j].kind \in {"arrive", "release"}
        /\ Stages[i].kind = "exchange" <=> Stages[j].kind = "exchange"
        /\ Stages[i].kind \in Guarded <=> Stages[j].kind \in Guarded
        /\ Stages[i].kind \in ControlKinds <=> Stages[j].kind \in ControlKinds
        /\ Stages[i].kind \in DataKinds <=> Stages[j].kind \in DataKinds
    BY <1>1, <1>3, <1>6, TagGroups
  <1>8. SUFFICES ASSUME i # j \/ Stages[i].kind # Stages[j].kind PROVE FALSE
    BY <1>2 DEF i, j
  <1>9. CASE Stages[i].kind = "release"
    <2>1. x = 0 /\ r # 0
      BY <1>1, <1>5, <1>9, Placed DEF FromRank, Others
    <2>2. Stages[j].kind = "release"
      <3>1. Stages[j].kind # "arrive"
        BY <1>2, <1>3, <2>1, Placed DEF ToRank
      <3>. QED  BY <1>7, <1>9, <3>1
    <2>3. j - 1 \in 1 .. Len(Stages) /\ Stages[j - 1].kind = "arrive" /\ Stages[j - 1].links = ToRank(setting, 0)
      BY <1>3, <2>2, Placed
    <2>4. i # j - 1
      BY <1>9, <2>3
    <2>5. i < j - 1 /\ pc[x] > j - 1
      BY <1>1, <1>3, <1>4, <1>8, <1>9, <2>2, <2>4
    <2>6. <<r, 0>> \in Stages[j - 1].links /\ Heard(0, r, j - 1)
      BY <2>1, <2>3, <2>5, Positions DEF Heard
    <2>7. Told(r, 0, j - 1)
      BY <2>3, <2>6, Positions, ExactGroups DEF HeardWasTold, Guarded
    <2>. QED  BY <1>1, <1>3, <2>5, <2>7 DEF Told, i
  <1>10. CASE Stages[i].kind = "arrive"
    <2>1. r = 0 /\ x # 0
      BY <1>1, <1>5, <1>10, Placed DEF ToRank, Others
    <2>2. Stages[j].kind = "arrive"
      <3>1. Stages[j].kind # "release"
        BY <1>2, <1>3, <2>1, Placed DEF FromRank, Others
      <3>. QED  BY <1>7, <1>10, <3>1
    <2>3. i + 1 \in 1 .. Len(Stages) /\ Stages[i + 1].kind = "release" /\ Stages[i + 1].links = FromRank(setting, 0)
      BY <1>1, <1>10, Placed
    <2>4. j # i + 1
      BY <2>2, <2>3
    <2>5. i + 1 < j /\ pc[x] > i + 1
      BY <1>1, <1>3, <1>4, <1>8, <1>10, <2>2, <2>4
    <2>6. <<0, x>> \in Stages[i + 1].links /\ Heard(x, 0, i + 1)
      BY <1>1, <2>1, <2>3, <2>5, Positions DEF Heard
    <2>7. Told(0, x, i + 1)
      BY <1>1, <2>3, <2>6, Positions, ExactGroups DEF HeardWasTold, Guarded
    <2>. QED  BY <1>1, <2>1, <2>7 DEF Told, i
  <1>11. CASE Stages[i].kind = "exchange"
    <2>1. Stages[j].kind = "exchange"
      BY <1>7, <1>11
    <2>2. /\ i + 1 \in 1 .. Len(Stages) /\ Stages[i + 1].kind = "arrive"
          /\ i + 2 \in 1 .. Len(Stages) /\ Stages[i + 2].kind = "release"
      BY <1>1, <1>11, Placed
    <2>3. j # i + 1 /\ j # i + 2
      BY <2>1, <2>2
    <2>4. i + 2 < j /\ pc[x] > i + 2
      BY <1>1, <1>3, <1>4, <1>8, <1>11, <2>1, <2>3
    <2>5. pc[r] >= i + 2 \/ pc[r] = (i + 2) - 1
      BY <1>1, <2>2, <2>4, Released
    <2>. QED  BY <1>1, <2>5 DEF i
  <1>12. ASSUME NEW K, NEW L, L \subseteq Exact, Apart(setting, Stages, K, L), Stages[i].kind \in K
         PROVE  FALSE
    <2>1. i < j
      <3>1. i # j
        BY <1>8
      <3>. QED  BY <1>4, <3>1
    <2>2. Leads(setting, Stages, L, r, i + 1, x, j)
      BY <1>1, <1>2, <1>3, <1>5, <1>6, <1>12, <2>1 DEF Apart, World
    <2>. QED  BY <1>1, <1>3, <1>12, <2>1, <2>2, LedHere DEF i
  <1>13. CASE Stages[i].kind \in DataKinds
    <2>1. Exact \cap DataKinds # {}
      BY <1>6, <1>7, <1>13
    <2>. QED  BY <1>12, <1>13, <2>1, ExactGroups DEF DataApart
  <1>14. CASE Stages[i].kind \in ControlKinds
    <2>1. Exact \cap ControlKinds # {}
      BY <1>6, <1>7, <1>14
    <2>. QED  BY <1>12, <1>14, <2>1, ExactGroups
  <1>. QED  BY <1>6, <1>7, <1>9, <1>10, <1>11, <1>13, <1>14, ExactGroups DEF Guarded

\* What a step must establish when it leaves the setting alone.
LEMMA OrderNext ==
  ASSUME setting' = setting,
         \A m \in net' : m.kind \in Exact' =>
            pc'[m.dst] < m.at \/ (pc'[m.dst] = m.at /\ m.src \in awaited'[m.dst]),
         \A m \in net' : m.kind \in Exact' /\ m.at = pc'[m.src] => m.dst \notin unsent'[m.src],
         \A m, n \in net' : m.kind \in Exact' /\ m.src = n.src /\ m.dst = n.dst /\ m.at = n.at => m = n,
         \A i \in 1 .. Len(Stages) : Stages[i].kind \in Exact' =>
            \A x, y \in World :
                <<x, y>> \in Stages[i].links /\ (pc'[y] > i \/ (pc'[y] = i /\ x \notin awaited'[y]))
                    => (pc'[x] > i \/ (pc'[x] = i /\ y \notin unsent'[x]))
  PROVE  NotStale' /\ SentOnce' /\ HeardWasTold'
  <1>1. World' = World /\ Stages' = Stages
    BY DEF World, Stages
  <1>2. NotStale'
    BY DEF NotStale
  <1>3. SentOnce'
    BY DEF SentOnce
  <1>4. HeardWasTold'
    BY <1>1 DEF HeardWasTold, Heard, Told
  <1>. QED  BY <1>2, <1>3, <1>4

LEMMA OrderSend ==
  ASSUME StagesInv, NEW r \in World, Send(r) \/ SendTimesOut(r)
  PROVE  NotStale' /\ SentOnce' /\ HeardWasTold'
  <1>. USE DEF StagesInv
  <1>1. /\ \A x \in World : pc[x] \in Int /\ pc[x] \in 1 .. Len(Stages) 
        /\ Len(Stages) \in Nat /\ unsent \in [World -> SUBSET World]
    BY Positions DEF PlaceInv
  <1>2. PICK y \in unsent[r] : \E m : Outgoing(r, y, m)
    BY SendEffect
  <1>3. PICK m : Outgoing(r, y, m)
    BY <1>2
  <1>4. setting' = setting /\ pc' = pc /\ awaited' = awaited
    BY SendEffect
  <1>5. y \in World /\ <<r, y>> \in Stages[pc[r]].links
    BY <1>2 DEF PlaceInv, Destinations, World, Stages
  <1>6. /\ m.src = r /\ m.dst = y /\ m.at = pc[r] /\ m.kind = Stages[pc[r]].kind
        /\ net' = net \cup {m}
    BY <1>3 DEF Outgoing
  <1>7. /\ \A x \in World : unsent'[x] \subseteq unsent[x]
        /\ m.kind \in Exact' => y \notin unsent'[r]
        /\ Exact' \subseteq Exact
    <2>1. CASE unsent' = [unsent EXCEPT ![r] = @ \ {y}] /\ retries' = retries
      BY <1>1, <1>4, <2>1, ExactLater
    <2>2. CASE unsent' = unsent /\ retries' = retries + 1 /\ m.kind \in ControlKinds
      BY <1>4, <2>2, ExactLater
    <2>. QED  BY <1>3, <2>1, <2>2 DEF Outgoing
  <1>8. m.kind \in Exact => pc[y] < pc[r] \/ (pc[y] = pc[r] /\ r \in awaited[y])
    <2>. SUFFICES ASSUME m.kind \in Exact PROVE pc[y] < pc[r] \/ (pc[y] = pc[r] /\ r \in awaited[y])
      OBVIOUS
    <2>1. ~Told(r, y, pc[r])
      BY <1>1, <1>2 DEF Told
    <2>2. ~Heard(y, r, pc[r])
      BY <1>1, <1>5, <1>6, <2>1 DEF HeardWasTold
    <2>. QED  BY <1>1, <1>5, <2>2 DEF Heard
  <1>9. \A n \in net' : n.kind \in Exact' =>
            pc'[n.dst] < n.at \/ (pc'[n.dst] = n.at /\ n.src \in awaited'[n.dst])
    BY <1>4, <1>6, <1>7, <1>8 DEF NotStale
  <1>10. \A n \in net : Genuine(n)
    BY DEF MessagesInv
  <1>11. \A n \in net' : n.kind \in Exact' /\ n.at = pc'[n.src] => n.dst \notin unsent'[n.src]
    <2>1. ASSUME NEW n \in net, n.kind \in Exact', n.at = pc[n.src]
          PROVE  n.dst \notin unsent'[n.src]
      <3>1. n.dst \notin unsent[n.src] /\ n.src \in World
        BY <1>7, <1>10, <2>1 DEF SentOnce, Genuine
      <3>. QED  BY <1>7, <3>1
    <2>. QED  BY <1>4, <1>6, <1>7, <2>1
  <1>12. ASSUME NEW n \in net, m.kind \in Exact
         PROVE  ~(n.src = r /\ n.dst = y /\ n.at = pc[r])
    <2>1. n.at = pc[r] /\ n.src = r => n.kind = m.kind
      BY <1>6, <1>10 DEF Genuine
    <2>. QED  BY <1>2, <1>12, <2>1 DEF SentOnce
  <1>13. ASSUME NEW a \in net', NEW b \in net', a.kind \in Exact', a.src = b.src, a.dst = b.dst, a.at = b.at
         PROVE  a = b
    <2>1. CASE a \in net /\ b \in net
      BY <1>7, <1>13, <2>1 DEF SentOnce
    <2>2. CASE a = m /\ b \in net
      BY <1>6, <1>7, <1>12, <1>13, <2>2
    <2>3. CASE a \in net /\ b = m
      <3>1. a.kind = m.kind
        BY <1>6, <1>10, <1>13, <2>3 DEF Genuine
      <3>. QED  BY <1>6, <1>7, <1>12, <1>13, <2>3, <3>1
    <2>. QED  BY <1>6, <2>1, <2>2, <2>3
  <1>14. ASSUME NEW i \in 1 .. Len(Stages), Stages[i].kind \in Exact', NEW v \in World, NEW w \in World,
                <<v, w>> \in Stages[i].links, pc'[w] > i \/ (pc'[w] = i /\ v \notin awaited'[w])
         PROVE  pc'[v] > i \/ (pc'[v] = i /\ w \notin unsent'[v])
    <2>1. Told(v, w, i)
      BY <1>4, <1>7, <1>14 DEF HeardWasTold, Heard
    <2>. QED  BY <1>4, <1>7, <2>1 DEF Told
  <1>. QED  BY <1>4, <1>9, <1>11, <1>13, <1>14, OrderNext

LEMMA OrderReceive ==
  ASSUME StagesInv, NEW r \in World, Receive(r)
  PROVE  NotStale' /\ SentOnce' /\ HeardWasTold'
  <1>. USE DEF StagesInv
  <1>1. /\ \A x \in World : pc[x] \in Int /\ pc[x] \in 1 .. Len(Stages)
        /\ Len(Stages) \in Nat /\ awaited \in [World -> SUBSET World]
    BY Positions DEF PlaceInv
  <1>2. PICK x \in awaited[r], m \in net : Incoming(r, x, m)
    BY ReceiveEffect
  <1>3. setting' = setting /\ pc' = pc /\ unsent' = unsent /\ Exact' = Exact
    BY ReceiveEffect, ExactLater
  <1>4. /\ m.src = x /\ m.dst = r /\ m.tag = Stages[pc[r]].tag
        /\ net' = net \ {m}
        /\ \A z \in World : awaited'[z] = IF z = r THEN awaited[r] \ {x} ELSE awaited[z]
    BY <1>1, <1>2 DEF Incoming
  <1>5. /\ \A n \in net : Genuine(n)
        /\ x \in World /\ m.at \in 1 .. pc[x] /\ m.kind = Stages[m.at].kind /\ m.tag = Stages[m.at].tag
    BY <1>1, <1>2, <1>4 DEF MessagesInv, Genuine
  <1>6. ASSUME Stages[pc[r]].kind \in Exact
        PROVE  m.kind \in Exact /\ m.at = pc[r]
    <2>1. m.at \in 1 .. Len(Stages)
      BY <1>1, <1>5
    <2>2. m.kind \in Exact
      BY <1>1, <1>4, <1>5, <1>6, <2>1, TagGroups
    <2>. QED  BY <1>2, <1>4, <2>2, InPhase
  <1>7. ASSUME NEW n \in net', n.kind \in Exact
        PROVE  pc'[n.dst] < n.at \/ (pc'[n.dst] = n.at /\ n.src \in awaited'[n.dst])
    <2>1. n \in net /\ n # m /\ n.dst \in World /\ n.kind = Stages[n.at].kind
      BY <1>4, <1>5, <1>7 DEF Genuine
    <2>2. pc[n.dst] < n.at \/ (pc[n.dst] = n.at /\ n.src \in awaited[n.dst])
      BY <1>7, <2>1 DEF NotStale
    <2>3. CASE n.dst = r /\ n.src = x /\ pc[r] = n.at
      <3>1. m.kind \in Exact /\ m.at = n.at
        BY <1>6, <1>7, <2>1, <2>3
      <3>2. m = n
        BY <1>2, <1>4, <2>1, <2>3, <3>1 DEF SentOnce
      <3>. QED  BY <2>1, <3>2
    <2>4. CASE ~(n.dst = r /\ n.src = x /\ pc[r] = n.at)
      BY <1>3, <1>4, <2>1, <2>2, <2>4
    <2>. QED  BY <2>3, <2>4
  <1>8. \A n \in net' : n.kind \in Exact /\ n.at = pc'[n.src] => n.dst \notin unsent'[n.src]
    BY <1>3, <1>4 DEF SentOnce
  <1>9. \A a, b \in net' : a.kind \in Exact /\ a.src = b.src /\ a.dst = b.dst /\ a.at = b.at => a = b
    BY <1>4 DEF SentOnce
  <1>10. ASSUME NEW i \in 1 .. Len(Stages), Stages[i].kind \in Exact, NEW v \in World, NEW w \in World,
                <<v, w>> \in Stages[i].links, pc'[w] > i \/ (pc'[w] = i /\ v \notin awaited'[w])
         PROVE  pc'[v] > i \/ (pc'[v] = i /\ w \notin unsent'[v])
    <2>1. CASE w = r /\ v = x /\ pc[r] = i
      <3>1. m.kind \in Exact /\ m.at = i
        BY <1>6, <1>10, <2>1
      <3>2. i <= pc[x]
        BY <1>1, <1>5, <3>1
      <3>3. pc[x] = i => r \notin unsent[x]
        BY <1>2, <1>4, <3>1 DEF SentOnce
      <3>. QED  BY <1>1, <1>3, <1>5, <2>1, <3>2, <3>3
    <2>2. CASE ~(w = r /\ v = x /\ pc[r] = i)
      <3>1. Heard(w, v, i)
        BY <1>3, <1>4, <1>10, <2>2 DEF Heard
      <3>2. Told(v, w, i)
        BY <1>10, <3>1 DEF HeardWasTold
      <3>. QED  BY <1>3, <3>2 DEF Told
    <2>. QED  BY <2>1, <2>2
  <1>. QED  BY <1>3, <1>7, <1>8, <1>9, <1>10, OrderNext

LEMMA OrderProceed ==
  ASSUME StagesInv, NEW r \in World, Proceed(r)
  PROVE  NotStale' /\ SentOnce' /\ HeardWasTold'
  <1>. USE DEF StagesInv
  <1>1. /\ \A x \in World : pc[x] \in Int /\ pc[x] \in 1 .. Len(Stages)
        /\ Len(Stages) \in Nat
        /\ pc \in [World -> 1 .. Len(Stages)]
        /\ awaited \in [World -> SUBSET World] /\ unsent \in [World -> SUBSET World]
    BY Positions DEF PlaceInv
  <1>2. setting' = setting /\ net' = net /\ unsent[r] = {} /\ awaited[r] = {} /\ Exact' = Exact
    BY ProceedEffect, ExactLater
  <1>3. \A a, b \in net' : a.kind \in Exact /\ a.src = b.src /\ a.dst = b.dst /\ a.at = b.at => a = b
    BY <1>2 DEF SentOnce
  <1>4. CASE Ends(r)
    <2>1. pc' = pc /\ unsent' = unsent /\ awaited' = awaited
      BY <1>4 DEF Ends
    <2>2. \A n \in net' : n.kind \in Exact =>
            pc'[n.dst] < n.at \/ (pc'[n.dst] = n.at /\ n.src \in awaited'[n.dst])
      BY <1>2, <2>1 DEF NotStale
    <2>3. \A n \in net' : n.kind \in Exact /\ n.at = pc'[n.src] => n.dst \notin unsent'[n.src]
      BY <1>2, <2>1 DEF SentOnce
    <2>4. \A i \in 1 .. Len(Stages) : Stages[i].kind \in Exact =>
            \A x, y \in World :
                <<x, y>> \in Stages[i].links /\ (pc'[y] > i \/ (pc'[y] = i /\ x \notin awaited'[y]))
                    => (pc'[x] > i \/ (pc'[x] = i /\ y \notin unsent'[x]))
      BY <2>1 DEF HeardWasTold, Heard, Told
    <2>. QED  BY <1>2, <1>3, <2>2, <2>3, <2>4, OrderNext
  <1>5. CASE Advances(r)
    <2>1. /\ \A z \in World : pc'[z] = IF z = r THEN pc[r] + 1 ELSE pc[z]
          /\ \A z \in World : unsent'[z] = IF z = r THEN Destinations(setting, r, pc[r] + 1) ELSE unsent[z]
          /\ \A z \in World : awaited'[z] = IF z = r THEN Sources(setting, r, pc[r] + 1) ELSE awaited[z]
      BY <1>1, <1>5 DEF Advances
    <2>2. \A n \in net : Genuine(n)
      BY DEF MessagesInv
    <2>3. \A i, x : x \in World /\ <<x, r>> \in Stages[i].links => x \in Sources(setting, r, i)
      BY DEF Sources, World, Stages
    <2>4. ASSUME NEW n \in net', n.kind \in Exact
          PROVE  pc'[n.dst] < n.at \/ (pc'[n.dst] = n.at /\ n.src \in awaited'[n.dst])
      <3>1. n \in net /\ n.dst \in World /\ n.src \in World /\ n.at \in Int /\ <<n.src, n.dst>> \in Stages[n.at].links
        BY <1>2, <2>2 DEF Genuine
      <3>2. pc[n.dst] < n.at \/ (pc[n.dst] = n.at /\ n.src \in awaited[n.dst])
        BY <2>4, <3>1 DEF NotStale
      <3>3. CASE n.dst = r
        <4>1. pc[r] < n.at
          BY <1>2, <3>2, <3>3
        <4>2. pc[r] + 1 < n.at \/ pc[r] + 1 = n.at
          BY <1>1, <3>1, <4>1
        <4>. QED  BY <2>1, <2>3, <3>1, <3>3, <4>2
      <3>4. CASE n.dst # r
        BY <2>1, <3>1, <3>2, <3>4
      <3>. QED  BY <3>3, <3>4
    <2>5. ASSUME NEW n \in net', n.kind \in Exact, n.at = pc'[n.src]
          PROVE  n.dst \notin unsent'[n.src]
      <3>1. n \in net /\ n.src \in World /\ n.at \in 1 .. pc[n.src]
        BY <1>2, <2>2 DEF Genuine
      <3>2. n.src # r
        BY <1>1, <2>1, <2>5, <3>1
      <3>. QED  BY <2>1, <2>5, <3>1, <3>2 DEF SentOnce
    <2>6. ASSUME NEW i \in 1 .. Len(Stages), Stages[i].kind \in Exact, NEW v \in World, NEW w \in World,
                 <<v, w>> \in Stages[i].links, pc'[w] > i \/ (pc'[w] = i /\ v \notin awaited'[w])
          PROVE  pc'[v] > i \/ (pc'[v] = i /\ w \notin unsent'[v])
      <3>1. Heard(w, v, i)
        <4>1. CASE w = r
          <5>1. pc[r] + 1 > i
            BY <2>1, <2>3, <2>6, <4>1
          <5>2. pc[r] > i \/ pc[r] = i
            BY <1>1, <5>1
          <5>. QED  BY <1>2, <4>1, <5>2 DEF Heard
        <4>2. CASE w # r
          BY <2>1, <2>6, <4>2 DEF Heard
        <4>. QED  BY <4>1, <4>2
      <3>2. Told(v, w, i)
        BY <2>6, <3>1 DEF HeardWasTold
      <3>3. CASE v = r
        BY <1>1, <2>1, <3>2, <3>3 DEF Told
      <3>4. CASE v # r
        BY <2>1, <3>2, <3>4 DEF Told
      <3>. QED  BY <3>3, <3>4
    <2>. QED  BY <1>2, <1>3, <2>4, <2>5, <2>6, OrderNext
  <1>. QED  BY <1>4, <1>5, ProceedEffect

LEMMA StagesStep ==
  ASSUME StagesInv, [Next]_vars
  PROVE  StagesInv'
  <1>1. PlaceInv' /\ setting' = setting
    BY PlaceStep DEF StagesInv
  <1>2. MessagesInv'
    BY MessagesStep DEF StagesInv
  <1>3. ASSUME UNCHANGED <<setting, pc, unsent, awaited, net, retries>>
        PROVE  NotStale' /\ SentOnce' /\ HeardWasTold'
    BY <1>3, OrderNext, ExactLater DEF StagesInv, NotStale, SentOnce, HeardWasTold, Heard, Told
  <1>4. NotStale' /\ SentOnce' /\ HeardWasTold'
    <2>1. CASE UNCHANGED vars
      BY <1>3, <2>1 DEF vars, opVars
    <2>2. ASSUME NEW r \in World, Fails(r)
          PROVE  NotStale' /\ SentOnce' /\ HeardWasTold'
      BY <1>3, <2>2 DEF Fails
    <2>. QED  BY <2>1, <2>2, StepCases, OrderSend, OrderReceive, OrderProceed
  <1>. QED  BY <1>1, <1>2, <1>4 DEF StagesInv

LEMMA Initially == Init => StagesInv
  <1>. SUFFICES ASSUME Init PROVE StagesInv
    OBVIOUS
  <1>1. /\ setting \in Settings /\ net = {}
        /\ pc = [r \in World |-> 1]
        /\ unsent = [r \in World |-> Destinations(setting, r, 1)]
        /\ awaited = [r \in World |-> Sources(setting, r, 1)]
        /\ got = [r \in World |-> {}]
        /\ status = [r \in World |-> "run"] /\ retries = 0
    BY DEF Init
  <1>2. /\ Len(Stages) \in Nat /\ Len(Stages) > 2
        /\ \A r \in World : Destinations(setting, r, 1) \subseteq World /\ Sources(setting, r, 1) \subseteq World
    BY <1>1, Shaped DEF Destinations, Sources, World
  <1>3. PlaceInv
    <2>1. 1 \in 1 .. Len(Stages)
      BY <1>2
    <2>2. pc \in [World -> 1 .. Len(Stages)]
      BY <1>1, <2>1
    <2>3. unsent \in [World -> SUBSET World] /\ awaited \in [World -> SUBSET World]
      BY <1>1, <1>2
    <2>4. got = [r \in World |-> got[r]] /\ status \in [World -> {"run", "done", "failed"}]
      BY <1>1
    <2>5. \A r \in World : /\ unsent[r] \subseteq Destinations(setting, r, pc[r])
                           /\ awaited[r] \subseteq Sources(setting, r, pc[r])
      BY <1>1
    <2>. QED  BY <1>1, <2>2, <2>3, <2>4, <2>5 DEF PlaceInv
  <1>4. MessagesInv
    BY <1>1 DEF MessagesInv
  <1>5. NotStale /\ SentOnce
    BY <1>1 DEF NotStale, SentOnce
  <1>6. HeardWasTold
    <2>. SUFFICES ASSUME NEW i \in 1 .. Len(Stages), NEW x \in World, NEW y \in World,
                         <<x, y>> \in Stages[i].links, Heard(y, x, i)
                  PROVE  FALSE
      BY DEF HeardWasTold
    <2>1. ~(pc[y] > i) /\ (pc[y] = i => i = 1 /\ x \in awaited[y])
      BY <1>1, <1>2 DEF Sources, World, Stages
    <2>. QED  BY <2>1 DEF Heard
  <1>. QED  BY <1>3, <1>4, <1>5, <1>6 DEF StagesInv

LEMMA Inductive == Spec => []StagesInv
  BY Initially, StagesStep, PTL DEF Spec

---------------------------------------------------------------------------
(* What the stages promise                                                 *)

\* Nobody leaves a barrier before everybody has arrived, whatever the number
\* of ranks, the rounds and the collectives before and after it.
THEOREM NobodyLeavesEarly == Spec => []BarrierHolds
  <1>1. StagesInv => BarrierHolds
    <2>. SUFFICES ASSUME StagesInv, NEW r \in World, NEW q \in World, NEW i \in 1 .. pc[r] - 1,
                         Stages[i].kind = "release"
                  PROVE  pc[q] >= i \/ (pc[q] = i - 1 /\ unsent[q] = {})
      BY DEF BarrierHolds, Stages
    <2>1. pc[r] \in 1 .. Len(Stages) /\ Len(Stages) \in Nat
      BY Positions DEF StagesInv
    <2>2. i \in 1 .. Len(Stages) /\ pc[r] > i
      BY <2>1
    <2>. QED  BY <2>2, Released DEF StagesInv
  <1>. QED  BY <1>1, Inductive, PTL

\* The sends that a rank has still to make in a phase of a ring exchange, and
\* those that have not arrived.
Sending == {f \in World \X World : Here(f[1]).kind = "exchange" /\ f[2] \in unsent[f[1]]}

Flying == {<<m.src, m.dst>> : m \in {x \in net : x.kind = "exchange"}}

\* A flow, and the phase it belongs to.
FlowOf(f, e) ==
    /\ f \in Stages[e].links /\ Stages[e].kind = "exchange" /\ e \in 1 .. Len(Stages)
    /\ f[1] \in World /\ pc[f[1]] >= e
    /\ pc[f[1]] = e \/ (f[2] \in World /\ pc[f[2]] <= e)

LEMMA FlowsHavePhases ==
  ASSUME StagesInv, NEW f \in Sending \cup Flying
  PROVE  \E e \in 1 .. Len(Stages) : FlowOf(f, e)
  <1>. USE DEF StagesInv
  <1>1. \A x \in World : pc[x] \in Int /\ pc[x] \in 1 .. Len(Stages)
    BY Positions
  <1>2. CASE f \in Sending
    <2>1. f = <<f[1], f[2]>> /\ f[1] \in World /\ f[2] \in World
          /\ Stages[pc[f[1]]].kind = "exchange" /\ f[2] \in unsent[f[1]]
      BY <1>2 DEF Sending, Here, Stages
    <2>2. <<f[1], f[2]>> \in Stages[pc[f[1]]].links
      BY <2>1 DEF PlaceInv, Destinations, Stages
    <2>3. FlowOf(f, pc[f[1]])
      BY <1>1, <2>1, <2>2 DEF FlowOf
    <2>. QED  BY <1>1, <2>1, <2>3
  <1>3. CASE f \in Flying
    <2>1. PICK m \in net : m.kind = "exchange" /\ f = <<m.src, m.dst>>
      BY <1>3 DEF Flying
    <2>2. Genuine(m)
      BY DEF MessagesInv
    <2>3. m.at \in 1 .. Len(Stages) /\ pc[m.src] >= m.at /\ m.src \in World /\ m.dst \in World
      BY <1>1, <2>2, Positions DEF Genuine
    <2>4. pc[m.dst] <= m.at
      BY <1>1, <2>1, <2>3, ExactGroups DEF NotStale, Guarded
    <2>5. FlowOf(f, m.at)
      BY <2>1, <2>2, <2>3, <2>4 DEF FlowOf, Genuine
    <2>. QED  BY <2>3, <2>5
  <1>. QED  BY <1>2, <1>3

\* Between two phases there is a barrier: no flow is left of the first one
\* when a rank reaches the second.
LEMMA OnePhase ==
  ASSUME StagesInv, NEW f, NEW d \in 1 .. Len(Stages), FlowOf(f, d), NEW g, NEW e, FlowOf(g, e)
  PROVE  ~(d < e)
  <1>. USE DEF StagesInv
  <1>. SUFFICES ASSUME d < e PROVE FALSE
    OBVIOUS
  <1>1. \A x \in World : pc[x] \in Int
    BY Positions
  <1>2. /\ d + 1 \in 1 .. Len(Stages) /\ Stages[d + 1].kind = "arrive"
        /\ d + 2 \in 1 .. Len(Stages) /\ Stages[d + 2].kind = "release"
    BY Placed DEF FlowOf
  <1>3. e \in 1 .. Len(Stages) /\ Stages[e].kind = "exchange" /\ g[1] \in World /\ pc[g[1]] >= e
    BY DEF FlowOf
  <1>4. e # d + 1 /\ e # d + 2
    BY <1>2, <1>3
  <1>5. d \in Int /\ e \in Int /\ d + 2 < e
    BY <1>3, <1>4
  <1>6. pc[g[1]] > d + 2
    BY <1>1, <1>3, <1>5
  <1>7. \A q \in World : pc[q] >= d + 2 \/ pc[q] = (d + 2) - 1
    BY <1>2, <1>3, <1>6, Released
  <1>8. \A q \in World : pc[q] > d
    BY <1>1, <1>5, <1>7
  <1>9. f[1] \in World /\ (pc[f[1]] = d \/ (f[2] \in World /\ pc[f[2]] <= d))
    BY DEF FlowOf
  <1>. QED  BY <1>1, <1>5, <1>8, <1>9

\* No more flows of a ring exchange are under way than its concurrency allows.
THEOREM FlowsAreLimited == Spec => []ExchangeLimit
  <1>1. StagesInv => ExchangeLimit
    <2>. SUFFICES ASSUME StagesInv PROVE Cardinality(Sending \cup Flying) <= setting.concurrency
      BY DEF ExchangeLimit, Sending, Flying
    <2>. DEFINE F == Sending \cup Flying
    <2>1. setting.concurrency \in Nat
      BY Shaped DEF StagesInv, PlaceInv
    <2>2. CASE F = {}
      BY <2>1, <2>2, FS_EmptySet
    <2>3. CASE F # {}
      <3>1. PICK g \in F : TRUE
        BY <2>3
      <3>2. PICK e \in 1 .. Len(Stages) : FlowOf(g, e)
        BY FlowsHavePhases
      <3>3. \A f \in F : f \in Stages[e].links
        <4>. TAKE f \in F
        <4>1. PICK d \in 1 .. Len(Stages) : FlowOf(f, d)
          BY FlowsHavePhases
        <4>2. ~(d < e) /\ ~(e < d)
          BY <3>2, <4>1, OnePhase
        <4>3. d = e
          BY <4>2
        <4>. QED  BY <4>1, <4>3 DEF FlowOf
      <3>4. IsFiniteSet(Stages[e].links) /\ Cardinality(Stages[e].links) <= setting.concurrency
        BY <3>2, Placed DEF FlowOf, StagesInv
      <3>. HIDE DEF F
      <3>5. F \in SUBSET Stages[e].links
        BY <3>3
      <3>6. IsFiniteSet(F) /\ Cardinality(F) <= Cardinality(Stages[e].links)
        BY <3>4, <3>5, FS_Subset
      <3>7. Cardinality(F) \in Int /\ Cardinality(Stages[e].links) \in Int
        BY <3>4, <3>6, FS_CardinalityType
      <3>8. Cardinality(F) <= setting.concurrency
        BY <2>1, <3>4, <3>6, <3>7
      <3>. QED  BY <3>8 DEF F
    <2>. QED  BY <2>2, <2>3
  <1>. QED  BY <1>1, Inductive, PTL

---------------------------------------------------------------------------
(* The end of a run                                                        *)

\* Every rank is on a node that has a coordinator.
LEMMA HasCoordinator ==
  ASSUME NEW s, ValidTopology(s), NEW r \in Ranks(s)
  PROVE  \E c \in Coordinators(s) : r \in Local(s, c)
  <1>1. r \in Local(s, r) /\ Local(s, r) \in SUBSET Nat
    BY DEF Local, Ranks, ValidTopology
  <1>2. PICK c \in Local(s, r) : \A x \in Local(s, r) : c <= x
    BY <1>1, HasLeast
  <1>3. c \in Ranks(s) /\ s.node[c] = s.node[r]
    BY DEF Local
  <1>4. Local(s, c) = Local(s, r)
    BY <1>3 DEF Local
  <1>. QED  BY <1>1, <1>2, <1>3, <1>4 DEF Coordinators

LEMMA EndPlaces ==
  ASSUME PlaceInv, [Next]_vars, NEW x \in World, pc[x] = Len(Stages)
  PROVE  pc'[x] = Len(Stages)
  <1>1. PlaceInv' /\ setting' = setting /\ pc[x] <= pc'[x]
    BY PlaceStep
  <1>2. pc'[x] \in 1 .. Len(Stages)
    BY <1>1 DEF PlaceInv, World, Stages
  <1>3. Len(Stages) \in Nat
    BY Positions
  <1>. QED  BY <1>1, <1>2, <1>3

LEMMA NodesEndStep ==
  ASSUME StagesInv, NodesEnd, [Next]_vars
  PROVE  NodesEnd'
  <1>. USE DEF StagesInv
  <1>1. setting' = setting /\ Stages' = Stages
    BY PlaceStep DEF Stages
  <1>2. \A c \in Coordinators(setting) : c \in World /\ Local(setting, c) \subseteq World
    BY DEF Coordinators, Local, World
  <1>3. ASSUME NEW c \in Coordinators(setting), pc'[c] = Len(Stages), NEW x \in Local(setting, c)
        PROVE  pc'[x] = Len(Stages)
    <2>1. CASE pc[c] = Len(Stages)
      BY <1>2, <1>3, <2>1, EndPlaces DEF NodesEnd
    <2>2. CASE pc[c] # Len(Stages)
      <3>1. x = c \/ pc[x] = Len(Stages)
        <4>1. pc' # pc
          BY <1>3, <2>2
        <4>2. Next
          BY <4>1 DEF vars
        <4>3. PICK r \in World : Proceed(r)
          BY <4>1, <4>2, StepCases, SendEffect, ReceiveEffect DEF Fails
        <4>4. Advances(r) /\ NodeReady(r)
          BY <4>1, <4>3, ProceedEffect DEF Ends
        <4>5. pc \in [World -> 1 .. Len(Stages)]
          BY DEF PlaceInv
        <4>6. r = c
          BY <1>2, <1>3, <2>2, <4>4, <4>5 DEF Advances
        <4>7. pc[c] + 1 = Len(Stages)
          BY <1>2, <1>3, <4>4, <4>5, <4>6 DEF Advances
        <4>. QED  BY <1>3, <4>4, <4>6, <4>7 DEF NodeReady, AtEnd, Stages
      <3>. QED  BY <1>2, <1>3, <3>1, EndPlaces
    <2>. QED  BY <2>1, <2>2
  <1>. QED  BY <1>1, <1>3 DEF NodesEnd

\* The controller ends when it has the results of every coordinator.
LEMMA ControllerEnds ==
  ASSUME StagesInv, NodesEnd, Proceed(0), Ends(0), NEW r \in World
  PROVE  pc[r] = Len(Stages)
  <1>. USE DEF StagesInv
  <1>1. /\ 0 \in World /\ Len(Stages) \in Nat
        /\ \A x \in World : pc[x] \in Int /\ pc[x] \in 1 .. Len(Stages)
    BY Positions
  <1>2. awaited[0] = {} /\ status[0] = "run" /\ Accepted(0) /\ pc[0] = Len(Stages)
    BY <1>1, ProceedEffect DEF Ends, AtEnd, Stages
  <1>3. Stages[pc[0]].tag = Control /\ Stages[pc[0]].links = ToController(setting)
    BY <1>2, Shaped DEF PlaceInv, Shape
  <1>4. Stages[pc[0]].kind = "results"
    BY <1>1, <1>2, Placed
  <1>5. \A m \in got[0] : m.kind = "results"
    BY <1>2, <1>3, <1>4 DEF Accepted, ControlAccepted, Here, Stages
  <1>6. ASSUME NEW w \in Workers(setting)
        PROVE  pc[w] = Len(Stages)
    <2>1. w \in World /\ w \in Sources(setting, 0, pc[0])
      BY <1>3 DEF Workers, Coordinators, World, Sources, ToController, Stages
    <2>2. PICK m \in got[0] : m.src = w
      BY <1>1, <1>2, <2>1 DEF MessagesInv
    <2>3. m.at \in 1 .. pc[w] /\ m.kind = Stages[m.at].kind
      BY <1>1, <2>2 DEF MessagesInv, Genuine
    <2>4. m.at \in 1 .. Len(Stages)
      BY <1>1, <2>1, <2>3
    <2>5. m.at = Len(Stages)
      BY <1>5, <2>2, <2>3, <2>4, Placed
    <2>. QED  BY <1>1, <2>1, <2>3, <2>5
  <1>7. PICK c \in Coordinators(setting) : r \in Local(setting, c)
    BY HasCoordinator, PlansShape DEF PlaceInv, World
  <1>8. pc[c] = Len(Stages)
    BY <1>2, <1>6 DEF Workers
  <1>. QED  BY <1>7, <1>8 DEF NodesEnd

LEMMA ReportStep ==
  ASSUME StagesInv, NodesEnd, ReportComplete, [Next]_vars
  PROVE  ReportComplete'
  <1>. USE DEF StagesInv
  <1>1. setting' = setting /\ Stages' = Stages /\ World' = World
    BY PlaceStep DEF Stages, World
  <1>2. 0 \in World /\ status \in [World -> {"run", "done", "failed"}]
    BY Positions DEF PlaceInv
  <1>3. SUFFICES ASSUME status'[0] = "done", NEW r \in World PROVE pc'[r] = Len(Stages)
    BY <1>1 DEF ReportComplete, Stages
  <1>4. CASE status[0] = "done"
    BY <1>4, EndPlaces DEF ReportComplete, Stages
  <1>5. CASE status[0] # "done"
    <2>1. status' # status
      BY <1>3, <1>5
    <2>2. PICK x \in World : Proceed(x) \/ Fails(x)
      BY <2>1, StepCases, SendEffect, ReceiveEffect DEF vars
    <2>3. Proceed(x) /\ Ends(x)
      BY <1>2, <1>3, <1>5, <2>1, <2>2, ProceedEffect DEF Fails, Advances
    <2>4. x = 0
      BY <1>2, <1>3, <1>5, <2>3 DEF Ends
    <2>. QED  BY <2>3, <2>4, ControllerEnds, EndPlaces
  <1>. QED  BY <1>4, <1>5

\* When the controller is done, no rank of any node is in an earlier stage, so
\* that its report covers all of them.
THEOREM ReportsAreComplete == Spec => []ReportComplete
  <1>1. Init => StagesInv /\ NodesEnd /\ ReportComplete
    <2>. SUFFICES ASSUME Init PROVE StagesInv /\ NodesEnd /\ ReportComplete
      OBVIOUS
    <2>1. StagesInv
      BY Initially
    <2>2. Len(Stages) > 2 /\ Len(Stages) \in Nat /\ 0 \in World
      BY <2>1, Shaped DEF StagesInv, PlaceInv
    <2>3. NodesEnd
      <3>1. \A c \in Coordinators(setting) : pc[c] = 1
        BY DEF Init, Coordinators, World
      <3>. QED  BY <2>2, <3>1 DEF NodesEnd
    <2>4. ReportComplete
      BY <2>2 DEF Init, ReportComplete
    <2>. QED  BY <2>1, <2>3, <2>4
  <1>2. StagesInv /\ NodesEnd /\ ReportComplete /\ [Next]_vars => StagesInv' /\ NodesEnd' /\ ReportComplete'
    BY StagesStep, NodesEndStep, ReportStep
  <1>. QED  BY <1>1, <1>2, PTL DEF Spec

---------------------------------------------------------------------------
(* What a rank has taken                                                   *)

\* A rank has at most one message of each rank it has ceased to wait for, with
\* the tag of its stage; those of an exact kind were sent in this very stage.
Held ==
    \A r \in World :
        /\ \A m \in got[r] :
            /\ m.src \in Sources(setting, r, pc[r]) \ awaited[r] /\ m.dst = r
            /\ m.tag = Stages[pc[r]].tag /\ (m.kind \in Exact => m.at = pc[r])
        /\ \A m, n \in got[r] : m.src = n.src => m = n

LEMMA HeldStep ==
  ASSUME StagesInv, Held, [Next]_vars
  PROVE  Held'
  <1>. USE DEF StagesInv
  <1>1. PlaceInv' /\ setting' = setting /\ World' = World /\ Stages' = Stages
    BY PlaceStep DEF World, Stages
  <1>2. /\ awaited \in [World -> SUBSET World] /\ got = [r \in World |-> got[r]]
        /\ pc \in [World -> 1 .. Len(Stages)]
        /\ \A r \in World : awaited[r] \subseteq Sources(setting, r, pc[r])
    BY DEF PlaceInv
  <1>3. ASSUME Exact' \subseteq Exact,
               NEW r \in World, pc'[r] = pc[r], awaited'[r] = awaited[r], got'[r] = got[r]
        PROVE  /\ \A m \in got'[r] :
                    /\ m.src \in Sources(setting, r, pc'[r]) \ awaited'[r] /\ m.dst = r
                    /\ m.tag = Stages[pc'[r]].tag /\ (m.kind \in Exact' => m.at = pc'[r])
               /\ \A m, n \in got'[r] : m.src = n.src => m = n
    BY <1>3 DEF Held
  <1>. DEFINE Goal == \A r \in World :
                /\ \A m \in got'[r] :
                    /\ m.src \in Sources(setting, r, pc'[r]) \ awaited'[r] /\ m.dst = r
                    /\ m.tag = Stages[pc'[r]].tag /\ (m.kind \in Exact' => m.at = pc'[r])
                /\ \A m, n \in got'[r] : m.src = n.src => m = n
  <1>4. SUFFICES Goal
    BY <1>1 DEF Held
  <1>5. CASE UNCHANGED vars
    BY <1>1, <1>3, <1>5, ExactLater DEF vars, opVars
  <1>6. ASSUME NEW r \in World, Send(r) \/ SendTimesOut(r)
        PROVE  Goal
    <2>1. pc' = pc /\ awaited' = awaited /\ got' = got
      BY <1>6, SendEffect
    <2>2. retries' = retries \/ retries' = retries + 1
      BY <1>6, SendEffect DEF Outgoing
    <2>3. Exact' \subseteq Exact
      BY <1>1, <2>2, ExactLater
    <2>. QED  BY <1>3, <2>1, <2>3
  <1>7. ASSUME NEW r \in World, Receive(r)
        PROVE  Goal
    <2>1. PICK x \in awaited[r], m \in net : Incoming(r, x, m)
      BY <1>7, ReceiveEffect
    <2>2. pc' = pc /\ Exact' = Exact
      BY <1>1, <1>7, ReceiveEffect, ExactLater
    <2>3. /\ m.src = x /\ m.dst = r /\ m.tag = Stages[pc[r]].tag
          /\ \A z \in World : got'[z] = IF z = r THEN got[r] \cup {m} ELSE got[z]
          /\ \A z \in World : awaited'[z] = IF z = r THEN awaited[r] \ {x} ELSE awaited[z]
      BY <1>2, <2>1 DEF Incoming
    <2>4. m.kind \in Exact => m.at = pc[r]
      BY <2>1, <2>3, InPhase
    <2>5. x \in Sources(setting, r, pc[r])
      BY <1>2, <2>1
    <2>6. \A n \in got[r] : n.src # x
      BY <2>1 DEF Held
    <2>7. ASSUME NEW z \in World
          PROVE  /\ \A n \in got'[z] :
                    /\ n.src \in Sources(setting, z, pc'[z]) \ awaited'[z] /\ n.dst = z
                    /\ n.tag = Stages[pc'[z]].tag /\ (n.kind \in Exact' => n.at = pc'[z])
                 /\ \A n, o \in got'[z] : n.src = o.src => n = o
      <3>1. CASE z # r
        BY <1>3, <2>2, <2>3, <3>1
      <3>2. CASE z = r
        <4>1. \A n \in got[r] :
                /\ n.src \in Sources(setting, r, pc[r]) \ awaited[r] /\ n.dst = r
                /\ n.tag = Stages[pc[r]].tag /\ (n.kind \in Exact => n.at = pc[r])
          BY DEF Held
        <4>2. \A n, o \in got[r] : n.src = o.src => n = o
          BY DEF Held
        <4>3. got'[z] = got[r] \cup {m} /\ awaited'[z] = awaited[r] \ {x} /\ pc'[z] = pc[r]
          BY <2>2, <2>3, <3>2
        <4>4. \A n \in got'[z] :
                    /\ n.src \in Sources(setting, z, pc'[z]) \ awaited'[z] /\ n.dst = z
                    /\ n.tag = Stages[pc'[z]].tag /\ (n.kind \in Exact' => n.at = pc'[z])
          BY <2>2, <2>3, <2>4, <2>5, <3>2, <4>1, <4>3
        <4>5. \A n, o \in got'[z] : n.src = o.src => n = o
          BY <2>3, <2>6, <4>2, <4>3
        <4>. QED  BY <4>4, <4>5
      <3>. QED  BY <3>1, <3>2
    <2>. QED  BY <2>7
  <1>8. ASSUME NEW r \in World, Proceed(r)
        PROVE  Goal
    <2>1. Exact' = Exact /\ \A z \in World : got'[z] = IF z = r THEN {} ELSE got[z]
      BY <1>1, <1>2, <1>8, ProceedEffect, ExactLater
    <2>2. \A z \in World \ {r} : pc'[z] = pc[z] /\ awaited'[z] = awaited[z]
      BY <1>2, <1>8, ProceedEffect DEF Advances, Ends
    <2>3. ASSUME NEW z \in World
          PROVE  /\ \A n \in got'[z] :
                    /\ n.src \in Sources(setting, z, pc'[z]) \ awaited'[z] /\ n.dst = z
                    /\ n.tag = Stages[pc'[z]].tag /\ (n.kind \in Exact' => n.at = pc'[z])
                 /\ \A n, o \in got'[z] : n.src = o.src => n = o
      <3>1. CASE z # r
        BY <1>3, <2>1, <2>2, <3>1
      <3>2. CASE z = r
        BY <2>1, <3>2
      <3>. QED  BY <3>1, <3>2
    <2>. QED  BY <2>3
  <1>9. ASSUME NEW r \in World, Fails(r)
        PROVE  Goal
    <2>1. pc' = pc /\ awaited' = awaited /\ got' = got /\ Exact' = Exact
      BY <1>1, <1>9, ExactLater DEF Fails
    <2>. QED  BY <1>3, <2>1
  <1>. QED  BY <1>5, <1>6, <1>7, <1>8, <1>9, StepCases

LEMMA HeldKept == Spec => [](StagesInv /\ Held)
  <1>1. Init => StagesInv /\ Held
    <2>1. Init => Held
      BY DEF Init, Held
    <2>. QED  BY <2>1, Initially
  <1>2. StagesInv /\ Held /\ [Next]_vars => StagesInv' /\ Held'
    BY StagesStep, HeldStep
  <1>. QED  BY <1>1, <1>2, PTL DEF Spec

\* Where the settings keep sizes apart, a rank never takes a message of another
\* step, round, size or collective for the one it waits for, however far ranks
\* run ahead of each other, messages overtake and ranks fail.
LEMMA TakenThere ==
  ASSUME StagesInv, Held, DataApart(setting, Stages)
  PROVE  TakenInPhase
  <1>1. DataKinds \subseteq Exact
    BY DEF Exact
  <1>. SUFFICES ASSUME NEW r \in World, NEW m \in got[r], Stages[pc[r]].tag # Control
                PROVE  m.at = pc[r]
    BY DEF TakenInPhase, Here, Stages
  <1>2. /\ m.tag = Stages[pc[r]].tag /\ Genuine(m)
        /\ pc[r] \in 1 .. Len(Stages) /\ Len(Stages) \in Nat
    BY Positions DEF Held, StagesInv, MessagesInv
  <1>3. m.at \in 1 .. Len(Stages) /\ m.kind = Stages[m.at].kind /\ m.tag = Stages[m.at].tag
    <2>1. m.src \in World /\ m.at \in 1 .. pc[m.src] /\ m.kind = Stages[m.at].kind /\ m.tag = Stages[m.at].tag
      BY <1>2 DEF Genuine
    <2>2. pc[m.src] \in 1 .. Len(Stages)
      BY <2>1, Positions DEF StagesInv
    <2>. QED  BY <1>2, <2>1, <2>2
  <1>4. m.kind \notin ControlKinds
    BY <1>2, <1>3, Placed DEF StagesInv
  <1>5. m.kind \in Kinds
    BY <1>3, StageKinds DEF StagesInv
  <1>6. m.kind \in Exact
    BY <1>1, <1>4, <1>5, ExactGroups DEF Kinds, ControlKinds, Guarded, DataKinds
  <1>. QED  BY <1>6 DEF Held

---------------------------------------------------------------------------
(* Tags tell the stages of a plan apart                                    *)

\* Before they reach stage m + l everyone has heard, over some others, of
\* everyone's entering stage m: a full turn of the ring, or an exchange of all
\* with all.
Mix(s, p, m, l) ==
    /\ m \in 1 .. Len(p) /\ l \in Nat /\ m + l - 1 \in 1 .. Len(p)
    /\ \A k \in m .. m + l - 1 : p[k].kind \in DataKinds
    /\ \/ l = s.world - 1 /\ \A k \in m .. m + l - 1 : p[k].links = Around(s, Ranks(s))
       \/ l = 1 /\ p[m].links = UNION {FromRank(s, r) : r \in Ranks(s)}

After(s, p, i) == \E m, l \in Nat : Mix(s, p, m, l) /\ i < m

Before(s, p, j) == \E m, l \in Nat : Mix(s, p, m, l) /\ m + l <= j

Between(s, p, i, j) == \E m, l \in Nat : Mix(s, p, m, l) /\ i < m /\ m + l <= j

DataAt(p) == {k \in 1 .. Len(p) : p[k].kind \in DataKinds}

\* Between two stages of the same tag everyone hears of everyone.
Parted(s, p) == \A i, j \in DataAt(p) : i < j /\ p[i].tag = p[j].tag => Between(s, p, i, j)

\* Tags of steps that others follow: the first half of a block of an allreduce,
\* and what is not in the last round.
Early(s, t) ==
    IF t[1] = "ring_allreduce" THEN (t[2] % 256) % (2 * (s.world - 1)) < s.world - 1
                               ELSE t[2] < 256 * (s.rounds - 1)

\* Pieces of a plan that may be put after each other in any order.
Tame(s) ==
    {p \in Seq(StageSet(s)) :
        /\ Parted(s, p)
        /\ \A k \in DataAt(p) : IF Early(s, p[k].tag) THEN After(s, p, k) ELSE Before(s, p, k)}

\* p is a piece of q, d stages after its beginning.
Inside(p, q, d) ==
    /\ d \in Nat /\ Len(p) \in Nat /\ Len(q) \in Nat
    /\ \A k \in 1 .. Len(p) : d + k \in 1 .. Len(q) /\ q[d + k] = p[k]

LEMMA MixMoved ==
  ASSUME NEW s, NEW p, NEW q, NEW d, Inside(p, q, d), NEW m, NEW l, Mix(s, p, m, l)
  PROVE  d + m \in Nat /\ l \in Nat /\ m \in Nat /\ Mix(s, q, d + m, l)
  <1>1. d \in Nat /\ Len(p) \in Nat /\ Len(q) \in Nat /\ m \in 1 .. Len(p) /\ l \in Nat /\ m + l - 1 \in 1 .. Len(p)
    BY DEF Mix, Inside
  <1>2. \A k \in 1 .. Len(p) : d + k \in 1 .. Len(q) /\ q[d + k] = p[k]
    BY DEF Inside
  <1>3. d + m \in 1 .. Len(q) /\ (d + m) + l - 1 = d + (m + l - 1) /\ (d + m) + l - 1 \in 1 .. Len(q)
    <2>1. d + m \in 1 .. Len(q) /\ d + (m + l - 1) \in 1 .. Len(q)
      BY <1>1, <1>2
    <2>2. (d + m) + l - 1 = d + (m + l - 1)
      BY <1>1
    <2>. QED  BY <2>1, <2>2
  <1>4. q[d + m] = p[m]
    BY <1>1, <1>2
  <1>5. \A k \in (d + m) .. (d + m) + l - 1 : \E i \in m .. m + l - 1 : q[k] = p[i]
    <2>. SUFFICES ASSUME NEW k \in (d + m) .. (d + m) + l - 1 PROVE \E i \in m .. m + l - 1 : q[k] = p[i]
      OBVIOUS
    <2>1. k - d \in m .. m + l - 1 /\ k - d \in 1 .. Len(p) /\ d + (k - d) = k
      BY <1>1, <1>3
    <2>. QED  BY <1>2, <2>1
  <1>6. \A k \in (d + m) .. (d + m) + l - 1 : q[k].kind \in DataKinds
    BY <1>5 DEF Mix
  <1>7. CASE l = s.world - 1 /\ \A k \in m .. m + l - 1 : p[k].links = Around(s, Ranks(s))
    <2>1. \A k \in (d + m) .. (d + m) + l - 1 : q[k].links = Around(s, Ranks(s))
      BY <1>5, <1>7
    <2>. QED  BY <1>1, <1>3, <1>6, <1>7, <2>1 DEF Mix
  <1>8. CASE l = 1 /\ p[m].links = UNION {FromRank(s, r) : r \in Ranks(s)}
    BY <1>1, <1>3, <1>4, <1>6, <1>8 DEF Mix
  <1>. QED  BY <1>7, <1>8 DEF Mix

LEMMA ConcatInside ==
  ASSUME NEW S, NEW a \in Seq(S), NEW b \in Seq(S)
  PROVE  /\ a \o b \in Seq(S) /\ Inside(a, a \o b, 0) /\ Inside(b, a \o b, Len(a))
         /\ \A k \in 1 .. Len(a \o b) : k \in 1 .. Len(a) \/ (k - Len(a) \in 1 .. Len(b) /\ k > Len(a))
  <1>. DEFINE c == a \o b
  <1>1. /\ c \in Seq(S) /\ Len(c) = Len(a) + Len(b) /\ Len(a) \in Nat /\ Len(b) \in Nat
        /\ \A i \in 1 .. Len(a) + Len(b) : c[i] = IF i <= Len(a) THEN a[i] ELSE b[i - Len(a)]
    BY ConcatProperties, LenProperties
  <1>. HIDE DEF c
  <1>2. Inside(a, c, 0)
    BY <1>1 DEF Inside
  <1>3. Inside(b, c, Len(a))
    <2>. SUFFICES ASSUME NEW i \in 1 .. Len(b) PROVE Len(a) + i \in 1 .. Len(c) /\ c[Len(a) + i] = b[i]
      BY <1>1 DEF Inside
    <2>1. Len(a) + i \in 1 .. Len(a) + Len(b) /\ ~(Len(a) + i <= Len(a)) /\ (Len(a) + i) - Len(a) = i
      BY <1>1
    <2>. QED  BY <1>1, <2>1
  <1>4. \A k \in 1 .. Len(c) : k \in 1 .. Len(a) \/ (k - Len(a) \in 1 .. Len(b) /\ k > Len(a))
    BY <1>1
  <1>. QED  BY <1>1, <1>2, <1>3, <1>4 DEF c

LEMMA FlattenInside ==
  ASSUME NEW S, NEW ss \in Seq(Seq(S))
  PROVE  \E off : /\ FlatAt(ss, off)
                  /\ \A a \in 1 .. Len(ss) : Inside(ss[a], FlattenSeq(ss), off[a])
  <1>1. PICK off : FlatAt(ss, off)
    BY FlattenParts
  <1>2. ASSUME NEW a \in 1 .. Len(ss)
        PROVE  Inside(ss[a], FlattenSeq(ss), off[a])
    <2>1. \A b \in 1 .. Len(ss[a]) : off[a] + b \in 1 .. Len(FlattenSeq(ss)) /\ FlattenSeq(ss)[off[a] + b] = ss[a][b]
      BY <1>1, FlattenIndex
    <2>2. ss[a] \in Seq(S) /\ Len(ss[a]) \in Nat
      <3>1. ss[a] \in Seq(S)
        OBVIOUS
      <3>. QED  BY <3>1, LenProperties
    <2>3. Len(ss) \in Nat /\ off \in [1 .. Len(ss) + 1 -> Nat] /\ off[Len(ss) + 1] = Len(FlattenSeq(ss))
      <3>1. Len(ss) \in Nat
        BY LenProperties
      <3>2. off \in [1 .. Len(ss) + 1 -> Nat] /\ off[Len(ss) + 1] = Len(FlattenSeq(ss))
        BY <1>1, Zenon DEF FlatAt
      <3>. QED  BY <3>1, <3>2
    <2>4. a \in 1 .. Len(ss) + 1 /\ Len(ss) + 1 \in 1 .. Len(ss) + 1
      BY <2>3
    <2>5. off[a] \in Nat /\ Len(FlattenSeq(ss)) \in Nat
      BY <2>3, <2>4
    <2>. QED  BY <2>1, <2>2, <2>5 DEF Inside
  <1>. QED  BY <1>1, <1>2

\* The ring visits every rank once.
LEMMA RingInjective ==
  ASSUME NEW s, ValidTopology(s), NEW a \in 1 .. s.world, NEW b \in 1 .. s.world, s.ring[a] = s.ring[b]
  PROVE  a = b
  <1>. DEFINE W == s.world
  <1>1. W \in Nat /\ W >= 2 /\ s.ring \in [1 .. W -> 0 .. W - 1] /\ ToSet(s.ring) = 0 .. W - 1
    BY DEF ValidTopology, Ranks
  <1>2. IsFiniteSet(1 .. W) /\ Cardinality(1 .. W) = W /\ Cardinality(0 .. W - 1) = W
    <2>1. 1 \in Int /\ W \in Int /\ 0 \in Int /\ W - 1 \in Int
      BY <1>1
    <2>2. /\ IsFiniteSet(1 .. W) /\ Cardinality(1 .. W) = IF 1 > W THEN 0 ELSE W - 1 + 1
          /\ Cardinality(0 .. W - 1) = IF 0 > W - 1 THEN 0 ELSE (W - 1) - 0 + 1
      BY <2>1, FS_Interval
    <2>. QED  BY <1>1, <2>2
  <1>3. s.ring \in Surjection(1 .. W, 0 .. W - 1)
    <2>1. \A y \in 0 .. W - 1 : \E x \in 1 .. W : s.ring[x] = y
      BY <1>1 DEF ToSet
    <2>. QED  BY <1>1, <2>1 DEF Surjection
  <1>4. s.ring \in Injection(1 .. W, 0 .. W - 1)
    BY <1>2, <1>3, FS_SurjSameCardinalityImpliesInj
  <1>. QED  BY <1>4 DEF Injection, IsInjective

LEMMA Positioned ==
  ASSUME NEW s, ValidTopology(s), NEW r \in Ranks(s)
  PROVE  Position(s, r) \in Ranks(s) /\ s.ring[Position(s, r) + 1] = r
  <1>1. \E i \in 1 .. s.world : s.ring[i] = r
    BY DEF ValidTopology, ToSet
  <1>2. \E p \in Ranks(s) : s.ring[p + 1] = r
    <2>1. PICK i \in 1 .. s.world : s.ring[i] = r
      BY <1>1
    <2>2. i - 1 \in Ranks(s) /\ (i - 1) + 1 = i
      BY DEF Ranks, ValidTopology
    <2>. QED  BY <2>1, <2>2
  <1>. QED  BY <1>2 DEF Position

\* The rank at a position of the ring, and the one after it.
At(s, n) == s.ring[(n % s.world) + 1]

LEMMA AtRing ==
  ASSUME NEW s, ValidTopology(s), NEW n \in Nat
  PROVE  /\ At(s, n) \in Ranks(s) /\ Position(s, At(s, n)) = n % s.world
         /\ Neighbour(s, At(s, n), 1) = At(s, n + 1)
  <1>. DEFINE W == s.world
              q == n % W
              r == s.ring[q + 1]
  <1>1. W \in Nat /\ W >= 2 /\ s.ring \in [1 .. W -> Ranks(s)] /\ Ranks(s) = 0 .. W - 1
    BY DEF ValidTopology, Ranks
  <1>2. q \in 0 .. W - 1 /\ (q + 1) % W = (n + 1) % W
    <2>. HIDE DEF W
    <2>1. q \in 0 .. W - 1
      BY <1>1
    <2>. QED  BY <1>1, <2>1, CountOn
  <1>. HIDE DEF q
  <1>3. r \in Ranks(s)
    BY <1>1, <1>2
  <1>4. Position(s, r) = q
    <2>. DEFINE p == Position(s, r)
    <2>1. p \in Ranks(s) /\ s.ring[p + 1] = r
      BY <1>3, Positioned
    <2>. HIDE DEF p
    <2>2. p + 1 \in 1 .. s.world /\ q + 1 \in 1 .. s.world /\ p \in Int /\ q \in Int
      BY <1>1, <1>2, <2>1
    <2>3. s.ring[p + 1] = s.ring[q + 1]
      BY <2>1
    <2>4. p + 1 = q + 1
      <3>. HIDE DEF r
      <3>. QED  BY <2>2, <2>3, RingInjective
    <2>5. p = q
      BY <2>2, <2>4
    <2>. QED  BY <2>5 DEF p
  <1>5. At(s, n) = r
    BY DEF At, q
  <1>6. Neighbour(s, r, 1) = At(s, n + 1)
    <2>1. Neighbour(s, r, 1) = s.ring[((q + 1) % W) + 1]
      BY <1>4 DEF Neighbour
    <2>. QED  BY <1>2, <2>1 DEF At
  <1>. QED  BY <1>3, <1>4, <1>5, <1>6 DEF q

\* Every rank is at most W - 1 steps after every other.
LEMMA Reach ==
  ASSUME NEW s, ValidTopology(s), NEW x \in Ranks(s), NEW y \in Ranks(s)
  PROVE  /\ At(s, Position(s, y)) = y
         /\ \E d \in 0 .. s.world - 1 : At(s, Position(s, y) + d) = x
  <1>. DEFINE W == s.world
              q == Position(s, y)
              p == Position(s, x)
  <1>1. W \in Nat /\ W > 1 /\ Ranks(s) = 0 .. W - 1
    BY DEF ValidTopology, Ranks
  <1>2. p \in 0 .. W - 1 /\ q \in 0 .. W - 1 /\ s.ring[p + 1] = x /\ s.ring[q + 1] = y
    BY <1>1, Positioned
  <1>. HIDE DEF p, q, W
  <1>3. q % W = q
    BY <1>1, <1>2, Remainders
  <1>4. PICK d \in 0 .. W - 1 : (q + d) % W = p
    BY <1>1, <1>2, Remainders
  <1>. QED  BY <1>2, <1>3, <1>4 DEF At, q, W

\* A full turn of the ring, or one exchange of all with all, leads from everyone
\* to everyone.
LEMMA MixLeads ==
  ASSUME NEW s, ValidTopology(s), NEW p, Len(p) \in Nat, NEW m, NEW l, Mix(s, p, m, l),
         NEW S \in SUBSET (Ranks(s) \X (1 .. Len(p) + 1)), Closed(s, p, DataKinds, S),
         NEW y \in Ranks(s), NEW x \in Ranks(s), <<y, m>> \in S
  PROVE  <<x, m + l>> \in S
  <1>1. /\ m \in 1 .. Len(p) /\ l \in Nat /\ m + l - 1 \in 1 .. Len(p)
        /\ \A k \in m .. m + l - 1 : p[k].kind \in DataKinds /\ k \in 1 .. Len(p)
    BY DEF Mix
  <1>2. \A z \in Ranks(s) : \A k, h \in 1 .. Len(p) + 1 : <<z, k>> \in S /\ k <= h => <<z, h>> \in S
    BY DEF Closed
  <1>3. \A k \in m .. m + l - 1 : \A z, w \in Ranks(s) :
            <<z, w>> \in p[k].links /\ <<z, k>> \in S => <<w, k + 1>> \in S
    BY <1>1 DEF Closed
  <1>4. s.world \in Nat /\ s.world > 1 /\ Ranks(s) = 0 .. s.world - 1
    BY DEF ValidTopology, Ranks
  <1>5. CASE l = s.world - 1 /\ \A k \in m .. m + l - 1 : p[k].links = Around(s, Ranks(s))
    <2>. DEFINE q == Position(s, y)
                D == {d \in 0 .. l : <<At(s, q + d), m + d>> \notin S}
    <2>1. q \in Nat
      BY <1>4, Positioned
    <2>. HIDE DEF q
    <2>2. D = {}
      <3>. SUFFICES ASSUME D # {} PROVE FALSE
        OBVIOUS
      <3>1. D \in SUBSET Nat
        BY <1>1
      <3>2. PICK d \in D : \A j \in D : d <= j
        <4>. HIDE DEF D
        <4>. QED  BY <3>1, HasLeast
      <3>3. d \in 0 .. l /\ <<At(s, q + d), m + d>> \notin S
        OBVIOUS
      <3>4. d # 0
        <4>1. At(s, q + 0) = y /\ m + 0 = m
          BY <2>1, <1>1, Reach DEF q
        <4>. QED  BY <3>3, <4>1
      <3>. DEFINE k == m + (d - 1)
                  z == At(s, q + (d - 1))
      <3>5. d - 1 \in 0 .. l /\ ~(d <= d - 1) /\ q + (d - 1) \in Nat /\ (q + (d - 1)) + 1 = q + d
        BY <2>1, <1>1, <3>3, <3>4
      <3>6. <<z, k>> \in S
        BY <3>2, <3>5
      <3>7. k \in m .. m + l - 1 /\ k + 1 = m + d
        BY <1>1, <3>3, <3>4
      <3>8. z \in Ranks(s) /\ Neighbour(s, z, 1) = At(s, q + d) /\ At(s, q + d) \in Ranks(s)
        <4>1. q + d \in Nat
          BY <2>1, <1>1, <3>3
        <4>. QED  BY <3>5, <4>1, AtRing
      <3>. HIDE DEF k, z
      <3>9. <<z, At(s, q + d)>> \in p[k].links
        BY <1>5, <3>7, <3>8 DEF Around
      <3>. QED  BY <1>3, <3>3, <3>6, <3>7, <3>8, <3>9
    <2>3. PICK d \in 0 .. s.world - 1 : At(s, q + d) = x
      BY Reach DEF q
    <2>4. d \in 0 .. l /\ m + d \in 1 .. Len(p) + 1 /\ m + l \in 1 .. Len(p) + 1 /\ m + d <= m + l
      <3>1. l = s.world - 1 /\ m \in Nat /\ m >= 1 /\ l \in Nat /\ m + l - 1 <= Len(p) /\ s.world \in Nat
        BY <1>1, <1>4, <1>5
      <3>. QED  BY <3>1
    <2>5. <<x, m + d>> \in S
      BY <2>2, <2>3, <2>4
    <2>. QED  BY <1>2, <2>4, <2>5
  <1>6. CASE l = 1 /\ p[m].links = UNION {FromRank(s, r) : r \in Ranks(s)}
    <2>1. m \in m .. m + l - 1 /\ m + l = m + 1 /\ m + 1 \in 1 .. Len(p) + 1 /\ m \in 1 .. Len(p) + 1 /\ m <= m + 1
      BY <1>1, <1>6
    <2>2. CASE x = y
      BY <1>2, <2>1, <2>2
    <2>3. CASE x # y
      <3>1. <<y, x>> \in p[m].links
        BY <1>6, <2>3 DEF FromRank, Others
      <3>. QED  BY <1>3, <2>1, <3>1
    <2>. QED  BY <2>2, <2>3
  <1>. QED  BY <1>5, <1>6 DEF Mix

LEMMA PartedIsApart ==
  ASSUME NEW s, ValidTopology(s), NEW p, Shape(s, p), Parted(s, p)
  PROVE  DataApart(s, p)
  <1>0. Len(p) \in Nat /\ \A k \in 1 .. Len(p) : p[k].kind \in Kinds
    <2>1. p \in Seq(StageSet(s))
      BY DEF Shape
    <2>2. \A k \in 1 .. Len(p) : p[k] \in StageSet(s)
      BY <2>1
    <2>. QED  BY <2>1, <2>2 DEF StageSet
  <1>. SUFFICES ASSUME NEW i \in 1 .. Len(p), NEW j \in 1 .. Len(p), i < j, p[i].kind \in DataKinds,
                       p[i].tag = p[j].tag,
                       NEW x \in Ranks(s), NEW y \in Ranks(s),
                       NEW S \in SUBSET (Ranks(s) \X (1 .. Len(p) + 1)),
                       Closed(s, p, DataKinds, S), <<y, i + 1>> \in S
                PROVE  <<x, j>> \in S
    BY DEF DataApart, Apart, Leads
  <1>1. Between(s, p, i, j)
    <2>1. WellPlaced(s, p, i) /\ WellPlaced(s, p, j)
      BY DEF Shape
    <2>2. p[j].kind \notin Guarded \cup ControlKinds
      BY <2>1 DEF WellPlaced, Guarded, ControlKinds, DataKinds
    <2>3. p[j].kind \in DataKinds
      BY <1>0, <2>2 DEF Kinds, Guarded, ControlKinds, DataKinds
    <2>. QED  BY <2>3 DEF Parted, DataAt
  <1>2. PICK m, l \in Nat : Mix(s, p, m, l) /\ i < m /\ m + l <= j
    BY <1>1 DEF Between
  <1>3. /\ i + 1 \in 1 .. Len(p) + 1 /\ m \in 1 .. Len(p) + 1 /\ i + 1 <= m
        /\ m + l \in 1 .. Len(p) + 1 /\ j \in 1 .. Len(p) + 1
    BY <1>0, <1>2 DEF Mix
  <1>4. <<y, m>> \in S
    BY <1>3 DEF Closed
  <1>5. <<x, m + l>> \in S
    BY <1>0, <1>2, <1>4, MixLeads
  <1>. QED  BY <1>2, <1>3, <1>5 DEF Closed

\* Mixes go along when a piece is put somewhere.
LEMMA BetweenMoved ==
  ASSUME NEW s, NEW p, NEW q, NEW d, Inside(p, q, d), NEW i \in Int, NEW j \in Int, Between(s, p, i, j)
  PROVE  Between(s, q, d + i, d + j)
  <1>1. PICK m, l \in Nat : Mix(s, p, m, l) /\ i < m /\ m + l <= j
    BY DEF Between
  <1>2. d + m \in Nat /\ Mix(s, q, d + m, l) /\ d \in Nat
    BY <1>1, MixMoved DEF Inside
  <1>3. d + i < d + m /\ (d + m) + l <= d + j
    BY <1>1, <1>2
  <1>. QED  BY <1>2, <1>3 DEF Between

LEMMA AfterMoved ==
  ASSUME NEW s, NEW p, NEW q, NEW d, Inside(p, q, d), NEW i \in Int, After(s, p, i)
  PROVE  /\ After(s, q, d + i)
         /\ \A k \in Int : k > d + Len(p) => Between(s, q, d + i, k)
  <1>1. PICK m, l \in Nat : Mix(s, p, m, l) /\ i < m
    BY DEF After
  <1>2. d + m \in Nat /\ Mix(s, q, d + m, l) /\ d \in Nat /\ Len(p) \in Nat
    BY <1>1, MixMoved DEF Inside
  <1>3. m + l - 1 \in 1 .. Len(p)
    BY <1>1 DEF Mix
  <1>4. d + i < d + m /\ \A k \in Int : k > d + Len(p) => (d + m) + l <= k
    BY <1>1, <1>2, <1>3
  <1>. QED  BY <1>2, <1>4 DEF Between, After

LEMMA BeforeMoved ==
  ASSUME NEW s, NEW p, NEW q, NEW d, Inside(p, q, d), NEW j \in Int, Before(s, p, j)
  PROVE  /\ Before(s, q, d + j)
         /\ \A i \in Int : i <= d => Between(s, q, i, d + j)
  <1>1. PICK m, l \in Nat : Mix(s, p, m, l) /\ m + l <= j
    BY DEF Before
  <1>2. d + m \in Nat /\ Mix(s, q, d + m, l) /\ d \in Nat
    BY <1>1, MixMoved DEF Inside
  <1>3. m >= 1 /\ Len(p) \in Nat
    BY <1>1 DEF Mix, Inside
  <1>4. (d + m) + l <= d + j /\ \A i \in Int : i <= d => i < d + m
    BY <1>1, <1>2, <1>3
  <1>. QED  BY <1>2, <1>4 DEF Between, Before

LEMMA PartedConcat ==
  ASSUME NEW s, NEW a \in Seq(StageSet(s)), NEW b \in Seq(StageSet(s)), Parted(s, a), Parted(s, b),
         \A i \in DataAt(a) : \A j \in DataAt(b) : a[i].tag = b[j].tag => After(s, a, i) \/ Before(s, b, j)
  PROVE  Parted(s, a \o b)
  <1>. DEFINE c == a \o b
  <1>1. /\ c \in Seq(StageSet(s)) /\ Inside(a, c, 0) /\ Inside(b, c, Len(a))
        /\ \A k \in 1 .. Len(c) : k \in 1 .. Len(a) \/ (k - Len(a) \in 1 .. Len(b) /\ k > Len(a))
    BY ConcatInside
  <1>. HIDE DEF c
  <1>2. Len(a) \in Nat /\ Len(b) \in Nat /\ Len(c) \in Nat
    BY <1>1 DEF Inside
  <1>3. \A k \in 1 .. Len(a) : c[k] = a[k]
    BY <1>1, <1>2 DEF Inside
  <1>4. \A k \in 1 .. Len(c) : k - Len(a) \in 1 .. Len(b) => c[k] = b[k - Len(a)] /\ Len(a) + (k - Len(a)) = k
    <2>. SUFFICES ASSUME NEW k \in 1 .. Len(c), k - Len(a) \in 1 .. Len(b)
                  PROVE  c[k] = b[k - Len(a)] /\ Len(a) + (k - Len(a)) = k
      OBVIOUS
    <2>1. Len(a) + (k - Len(a)) = k
      BY <1>2
    <2>2. c[Len(a) + (k - Len(a))] = b[k - Len(a)]
      BY <1>1 DEF Inside
    <2>. QED  BY <2>1, <2>2
  <1>5. SUFFICES ASSUME NEW i \in DataAt(c), NEW j \in DataAt(c), i < j, c[i].tag = c[j].tag
                 PROVE  Between(s, c, i, j)
    BY DEF Parted, c
  <1>6. i \in 1 .. Len(c) /\ j \in 1 .. Len(c) /\ i \in Int /\ j \in Int
    BY <1>2 DEF DataAt
  <1>7. CASE j \in 1 .. Len(a)
    <2>1. i \in 1 .. Len(a)
      BY <1>2, <1>5, <1>6, <1>7
    <2>2. i \in DataAt(a) /\ j \in DataAt(a) /\ a[i].tag = a[j].tag
      BY <1>3, <1>5, <1>7, <2>1 DEF DataAt
    <2>3. Between(s, a, i, j)
      BY <1>5, <2>2 DEF Parted
    <2>4. Between(s, c, 0 + i, 0 + j)
      BY <1>1, <1>6, <2>3, BetweenMoved
    <2>. QED  BY <1>6, <2>4
  <1>8. CASE i \notin 1 .. Len(a)
    <2>. DEFINE n == Len(a)
    <2>1. i - n \in 1 .. Len(b) /\ j - n \in 1 .. Len(b) /\ i - n < j - n
      BY <1>1, <1>2, <1>5, <1>6, <1>8
    <2>2. i - n \in DataAt(b) /\ j - n \in DataAt(b) /\ b[i - n].tag = b[j - n].tag
      BY <1>4, <1>5, <1>6, <2>1 DEF DataAt
    <2>3. Between(s, b, i - n, j - n)
      BY <2>1, <2>2 DEF Parted
    <2>4. Between(s, c, n + (i - n), n + (j - n))
      <3>1. i - n \in Int /\ j - n \in Int
        BY <1>2, <1>6
      <3>. HIDE DEF n
      <3>. QED  BY <1>1, <2>3, <3>1, BetweenMoved DEF n
    <2>5. n + (i - n) = i /\ n + (j - n) = j
      BY <1>4, <1>6, <2>1
    <2>. QED  BY <2>4, <2>5
  <1>9. CASE i \in 1 .. Len(a) /\ j \notin 1 .. Len(a)
    <2>. DEFINE n == Len(a)
                e == j - n
    <2>1. e \in 1 .. Len(b) /\ j > n /\ e \in Int /\ n + e = j
      BY <1>1, <1>2, <1>6, <1>9
    <2>2. i \in DataAt(a) /\ e \in DataAt(b) /\ a[i].tag = b[e].tag
      BY <1>3, <1>4, <1>5, <1>6, <1>9, <2>1 DEF DataAt
    <2>3. CASE After(s, a, i)
      <3>1. 0 \in Int /\ j \in Int /\ j > 0 + n /\ 0 + i = i
        BY <1>2, <1>6, <2>1
      <3>2. Between(s, c, 0 + i, j)
        BY <1>1, <1>6, <2>3, <3>1, AfterMoved
      <3>. QED  BY <3>1, <3>2
    <2>4. CASE Before(s, b, e)
      <3>1. i <= n
        BY <1>2, <1>9
      <3>2. Between(s, c, i, n + e)
        <4>. HIDE DEF e
        <4>. QED  BY <1>1, <1>6, <2>1, <2>4, <3>1, BeforeMoved
      <3>. QED  BY <2>1, <3>2
    <2>. QED  BY <2>2, <2>3, <2>4
  <1>. QED  BY <1>7, <1>8, <1>9

\* A piece with no data in it.
LEMMA NoData ==
  ASSUME NEW s, NEW p \in Seq(StageSet(s)), \A k \in 1 .. Len(p) : p[k].kind \notin DataKinds
  PROVE  p \in Tame(s) /\ Parted(s, p) /\ DataAt(p) = {}
  BY DEF Tame, Parted, DataAt

LEMMA TameConcat ==
  ASSUME NEW s, NEW a \in Tame(s), NEW b \in Tame(s)
  PROVE  a \o b \in Tame(s)
  <1>. DEFINE c == a \o b
  <1>1. a \in Seq(StageSet(s)) /\ b \in Seq(StageSet(s)) /\ Parted(s, a) /\ Parted(s, b)
    BY DEF Tame
  <1>2. /\ \A k \in DataAt(a) : IF Early(s, a[k].tag) THEN After(s, a, k) ELSE Before(s, a, k)
        /\ \A k \in DataAt(b) : IF Early(s, b[k].tag) THEN After(s, b, k) ELSE Before(s, b, k)
    BY DEF Tame
  <1>3. \A i \in DataAt(a) : \A j \in DataAt(b) : a[i].tag = b[j].tag => After(s, a, i) \/ Before(s, b, j)
    BY <1>2
  <1>4. Parted(s, c)
    BY <1>1, <1>3, PartedConcat
  <1>5. /\ c \in Seq(StageSet(s)) /\ Inside(a, c, 0) /\ Inside(b, c, Len(a))
        /\ \A k \in 1 .. Len(c) : k \in 1 .. Len(a) \/ (k - Len(a) \in 1 .. Len(b) /\ k > Len(a))
    BY <1>1, ConcatInside
  <1>. HIDE DEF c
  <1>6. Len(a) \in Nat /\ Len(b) \in Nat /\ Len(c) \in Nat
    BY <1>5 DEF Inside
  <1>7. ASSUME NEW p, NEW d, Inside(p, c, d), NEW n \in DataAt(p), p = a \/ p = b
        PROVE  IF Early(s, c[d + n].tag) THEN After(s, c, d + n) ELSE Before(s, c, d + n)
    <2>1. n \in Int /\ c[d + n] = p[n]
      BY <1>6, <1>7 DEF DataAt, Inside
    <2>2. IF Early(s, p[n].tag) THEN After(s, p, n) ELSE Before(s, p, n)
      BY <1>2, <1>7
    <2>3. After(s, p, n) => After(s, c, d + n)
      BY <1>7, <2>1, AfterMoved
    <2>4. Before(s, p, n) => Before(s, c, d + n)
      BY <1>7, <2>1, BeforeMoved
    <2>. QED  BY <2>1, <2>2, <2>3, <2>4
  <1>8. ASSUME NEW k \in DataAt(c)
        PROVE  IF Early(s, c[k].tag) THEN After(s, c, k) ELSE Before(s, c, k)
    <2>1. k \in 1 .. Len(c) /\ c[k].kind \in DataKinds
      BY DEF DataAt
    <2>2. CASE k \in 1 .. Len(a)
      <3>1. k \in DataAt(a) /\ 0 + k = k
        <4>1. c[0 + k] = a[k] /\ 0 + k = k
          BY <1>5, <1>6, <2>2 DEF Inside
        <4>. QED  BY <2>1, <2>2, <4>1 DEF DataAt
      <3>2. IF Early(s, c[0 + k].tag) THEN After(s, c, 0 + k) ELSE Before(s, c, 0 + k)
        BY <1>5, <1>7, <3>1
      <3>. QED  BY <3>1, <3>2
    <2>3. CASE k - Len(a) \in 1 .. Len(b)
      <3>. DEFINE n == k - Len(a)
                  h == Len(a)
      <3>1. h + n = k
        BY <1>6, <2>1
      <3>2. c[h + n] = b[n]
        BY <1>5, <2>3 DEF Inside
      <3>3. n \in DataAt(b)
        BY <2>1, <2>3, <3>1, <3>2 DEF DataAt
      <3>. HIDE DEF n, h
      <3>4. IF Early(s, c[h + n].tag) THEN After(s, c, h + n) ELSE Before(s, c, h + n)
        BY <1>5, <1>7, <3>3 DEF h
      <3>. QED  BY <3>1, <3>4
    <2>. QED  BY <1>5, <2>1, <2>2, <2>3
  <1>. QED  BY <1>4, <1>5, <1>8 DEF Tame, c

LEMMA TameFlatten ==
  ASSUME NEW s, NEW ss \in Seq(Tame(s))
  PROVE  FlattenSeq(ss) \in Tame(s)
  <1>1. <<>> \in Tame(s)
    <2>1. <<>> \in Seq(StageSet(s)) /\ \A k \in 1 .. Len(<<>>) : <<>>[k].kind \notin DataKinds
      OBVIOUS
    <2>. QED  BY <2>1, NoData
  <1>. QED  BY <1>1, TameConcat, Flattened

\* Pieces that share no tag.
LEMMA PartedFlatten ==
  ASSUME NEW s, NEW ss \in Seq(Seq(StageSet(s))), \A a \in 1 .. Len(ss) : Parted(s, ss[a]),
         \A a, e \in 1 .. Len(ss) : a # e =>
            \A i \in DataAt(ss[a]) : \A j \in DataAt(ss[e]) : ss[a][i].tag # ss[e][j].tag
  PROVE  Parted(s, FlattenSeq(ss))
  <1>. DEFINE F == FlattenSeq(ss)
  <1>1. PICK off : FlatAt(ss, off) /\ \A a \in 1 .. Len(ss) : Inside(ss[a], F, off[a])
    BY FlattenInside
  <1>2. ASSUME NEW k \in DataAt(F)
        PROVE  \E a \in 1 .. Len(ss) : \E i \in DataAt(ss[a]) : k = off[a] + i /\ F[k].tag = ss[a][i].tag
    <2>1. k \in 1 .. Len(F) /\ F[k].kind \in DataKinds
      BY DEF DataAt
    <2>2. PICK a \in 1 .. Len(ss) : /\ k - off[a] \in 1 .. Len(ss[a]) /\ k = off[a] + (k - off[a])
                                    /\ F[k] = ss[a][k - off[a]]
      BY <1>1, <2>1, FlattenWhere
    <2>3. k - off[a] \in DataAt(ss[a])
      BY <2>1, <2>2 DEF DataAt
    <2>. QED  BY <2>2, <2>3
  <1>. SUFFICES ASSUME NEW k \in DataAt(F), NEW h \in DataAt(F), k < h, F[k].tag = F[h].tag
                PROVE  Between(s, F, k, h)
    BY DEF Parted
  <1>30. PICK a \in 1 .. Len(ss) : \E i \in DataAt(ss[a]) : k = off[a] + i /\ F[k].tag = ss[a][i].tag
    BY <1>2
  <1>3. PICK i \in DataAt(ss[a]) : k = off[a] + i /\ F[k].tag = ss[a][i].tag
    BY <1>30
  <1>40. PICK e \in 1 .. Len(ss) : \E j \in DataAt(ss[e]) : h = off[e] + j /\ F[h].tag = ss[e][j].tag
    BY <1>2
  <1>4. PICK j \in DataAt(ss[e]) : h = off[e] + j /\ F[h].tag = ss[e][j].tag
    BY <1>40
  <1>5. a = e
    BY <1>3, <1>4
  <1>6. Inside(ss[a], F, off[a]) /\ off[a] \in Nat /\ i \in Int /\ j \in Int
    <2>1. Inside(ss[a], F, off[a])
      BY <1>1
    <2>2. Len(ss[a]) \in Nat /\ i \in 1 .. Len(ss[a]) /\ j \in 1 .. Len(ss[a])
      BY <1>5, <2>1 DEF Inside, DataAt
    <2>. QED  BY <2>1, <2>2 DEF Inside
  <1>. HIDE DEF F
  <1>7. i < j
    BY <1>3, <1>4, <1>5, <1>6
  <1>8. Between(s, ss[a], i, j)
    BY <1>3, <1>4, <1>5, <1>7 DEF Parted
  <1>. QED  BY <1>3, <1>4, <1>5, <1>6, <1>8, BetweenMoved

\* The iterations of a collective whose steps have tags of their own.
Iterated(s, ss, c) ==
    /\ ss \in Seq(Seq(StageSet(s))) /\ Len(ss) = s.rounds
    /\ \A a \in 1 .. Len(ss) :
        /\ Len(ss[a]) \in Nat /\ Len(ss[a]) <= 256
        /\ \A b \in 1 .. Len(ss[a]) : ss[a][b].tag = <<c, 256 * (a - 1) + (b - 1)>>

LEMMA IteratedOnce ==
  ASSUME NEW s, NEW ss, NEW c, Iterated(s, ss, c)
  PROVE  Parted(s, FlattenSeq(ss))
  <1>1. ss \in Seq(Seq(StageSet(s))) /\ Len(ss) \in Nat
    BY DEF Iterated
  <1>. DEFINE Number(a, b) == 256 * (a - 1) + (b - 1)
  <1>0. \A a \in 1 .. Len(ss) : \A b \in 1 .. Len(ss[a]) : ss[a][b].tag = <<c, Number(a, b)>>
    BY DEF Iterated
  <1>2. ASSUME NEW a \in 1 .. Len(ss), NEW e \in 1 .. Len(ss),
               NEW i \in DataAt(ss[a]), NEW j \in DataAt(ss[e]), ss[a][i].tag = ss[e][j].tag
        PROVE  a = e /\ i = j
    <2>1. i \in 1 .. Len(ss[a]) /\ j \in 1 .. Len(ss[e]) /\ Len(ss[a]) \in Nat /\ Len(ss[a]) <= 256 /\ Len(ss[e]) \in Nat /\ Len(ss[e]) <= 256
      BY DEF Iterated, DataAt
    <2>2. ss[a][i].tag = <<c, Number(a, i)>> /\ ss[e][j].tag = <<c, Number(e, j)>>
      <3>. HIDE DEF Number
      <3>. QED  BY <1>0, <2>1
    <2>3. i \in Int /\ 1 <= i /\ i <= 256 /\ j \in Int /\ 1 <= j /\ j <= 256 /\ a \in Int /\ e \in Int
      BY <1>1, <2>1
    <2>. DEFINE x == 256 * (a - 1) + (i - 1)
                z == 256 * (e - 1) + (j - 1)
    <2>4. x = z
      <3>. HIDE DEF x, z
      <3>1. <<c, x>> = <<c, z>>
        BY <1>2, <2>2 DEF x, z
      <3>. QED  BY <3>1
    <2>. QED  BY <2>3, <2>4
  <1>3. \A a \in 1 .. Len(ss) : Parted(s, ss[a])
    <2>. SUFFICES ASSUME NEW a \in 1 .. Len(ss), NEW i \in DataAt(ss[a]), NEW j \in DataAt(ss[a]),
                         i < j, ss[a][i].tag = ss[a][j].tag
                  PROVE  FALSE
      BY DEF Parted
    <2>1. i = j
      BY <1>2
    <2>2. Len(ss[a]) \in Nat /\ Len(ss[a]) <= 256 /\ i \in 1 .. Len(ss[a]) /\ j \in 1 .. Len(ss[a])
      BY DEF Iterated, DataAt
    <2>. QED  BY <2>1, <2>2
  <1>4. \A a, e \in 1 .. Len(ss) : a # e =>
            \A i \in DataAt(ss[a]) : \A j \in DataAt(ss[e]) : ss[a][i].tag # ss[e][j].tag
    BY <1>2
  <1>. QED  BY <1>1, <1>3, <1>4, PartedFlatten

LEMMA IteratedTame ==
  ASSUME NEW s, s.rounds \in Nat, s.rounds > 1, NEW ss, NEW c, c # "ring_allreduce", Iterated(s, ss, c),
         \A a \in 1 .. Len(ss) : Mix(s, ss[a], 1, Len(ss[a]))
  PROVE  FlattenSeq(ss) \in Tame(s)
  <1>. DEFINE F == FlattenSeq(ss)
              n == Len(ss)
  <1>1. ss \in Seq(Seq(StageSet(s))) /\ n \in Nat /\ n = s.rounds /\ n > 1
    BY DEF Iterated
  <1>2. Parted(s, F)
    BY IteratedOnce
  <1>3. F \in Seq(StageSet(s))
    <2>. DEFINE W == Seq(StageSet(s))
    <2>1. <<>> \in W
      OBVIOUS
    <2>2. \A a, b \in W : a \o b \in W
      BY ConcatProperties
    <2>. HIDE DEF W
    <2>3. F \in W
      BY <1>1, <2>1, <2>2, Flattened DEF W
    <2>. QED  BY <2>3 DEF W
  <1>4. PICK off : FlatAt(ss, off) /\ \A a \in 1 .. n : Inside(ss[a], F, off[a])
    BY <1>1, FlattenInside
  <1>5. ASSUME NEW a \in 1 .. n
        PROVE  /\ off[a] \in Nat /\ off[a + 1] = off[a] + Len(ss[a])
               /\ Mix(s, F, off[a] + 1, Len(ss[a])) /\ off[a] + 1 \in Nat /\ Len(ss[a]) \in Nat
    <2>1. Inside(ss[a], F, off[a]) /\ Mix(s, ss[a], 1, Len(ss[a]))
      BY <1>4
    <2>2. off[a + 1] = off[a] + Len(ss[a])
      BY <1>4 DEF FlatAt
    <2>. QED  BY <2>1, <2>2, MixMoved DEF Inside
  <1>6. ASSUME NEW k \in DataAt(F)
        PROVE  IF Early(s, F[k].tag) THEN After(s, F, k) ELSE Before(s, F, k)
    <2>1. k \in 1 .. Len(F)
      BY DEF DataAt
    <2>2. PICK a \in 1 .. n : /\ k - off[a] \in 1 .. Len(ss[a]) /\ k = off[a] + (k - off[a])
                              /\ F[k] = ss[a][k - off[a]]
      <3>1. ss \in Seq(Seq(StageSet(s))) /\ FlatAt(ss, off)
        BY <1>1, <1>4
      <3>. QED  BY <2>1, <3>1, FlattenWhere
    <2>. DEFINE b == k - off[a]
    <2>3. b \in 1 .. Len(ss[a]) /\ k = off[a] + b /\ F[k].tag = <<c, 256 * (a - 1) + (b - 1)>> /\ Len(ss[a]) \in Nat /\ Len(ss[a]) <= 256
      BY <2>2 DEF Iterated
    <2>. HIDE DEF b, F
    <2>4. Early(s, F[k].tag) <=> 256 * (a - 1) + (b - 1) < 256 * (s.rounds - 1)
      BY <2>3 DEF Early
    <2>5. Early(s, F[k].tag) <=> a < n
      <3>1. a \in Int /\ n \in Int /\ b \in Int /\ b - 1 >= 0 /\ b - 1 < 256
        <4>1. a \in Int /\ n \in Int /\ b \in Int
          BY <1>1, <2>3
        <4>2. b >= 1 /\ b <= 256
          BY <2>3
        <4>. QED  BY <4>1, <4>2
      <3>. HIDE DEF n
      <3>2. 256 * (a - 1) + (b - 1) < 256 * (n - 1) <=> a < n
        BY <1>1, <3>1
      <3>. QED  BY <1>1, <2>4, <3>2
    <2>6. CASE a < n
      <3>1. a + 1 \in 1 .. n
        BY <1>1, <2>6
      <3>2. Mix(s, F, off[a + 1] + 1, Len(ss[a + 1])) /\ off[a + 1] + 1 \in Nat /\ Len(ss[a + 1]) \in Nat
        BY <1>5, <3>1
      <3>3. k < off[a + 1] + 1
        <4>1. off[a + 1] = off[a] + Len(ss[a]) /\ off[a] \in Nat /\ Len(ss[a]) \in Nat
          BY <1>5
        <4>. QED  BY <2>3, <4>1
      <3>4. After(s, F, k)
        BY <3>2, <3>3 DEF After
      <3>. QED  BY <2>5, <2>6, <3>4
    <2>7. CASE ~(a < n)
      <3>. DEFINE e == a - 1
      <3>1. e \in 1 .. n /\ e + 1 = a
        BY <1>1, <2>7
      <3>. HIDE DEF e
      <3>2. Mix(s, F, off[e] + 1, Len(ss[e])) /\ off[e] + 1 \in Nat /\ Len(ss[e]) \in Nat
        BY <1>5, <3>1
      <3>3. (off[e] + 1) + Len(ss[e]) <= k
        <4>1. off[e + 1] = off[e] + Len(ss[e]) /\ off[e] \in Nat
          BY <1>5, <3>1
        <4>2. off[a] = off[e] + Len(ss[e]) /\ off[a] \in Nat
          BY <1>5, <3>1, <4>1
        <4>. QED  BY <2>3, <3>2, <4>1, <4>2
      <3>4. Before(s, F, k)
        BY <3>2, <3>3 DEF Before
      <3>. QED  BY <2>5, <2>7, <3>4
    <2>. QED  BY <2>6, <2>7
  <1>. QED  BY <1>2, <1>3, <1>6 DEF Tame

\* One turn of the ring, with the tags from a number on.
Turn(s, p, kind, c, number) ==
    /\ p \in Seq(StageSet(s)) /\ Len(p) = s.world - 1 /\ Mix(s, p, 1, s.world - 1)
    /\ \A k \in 1 .. s.world - 1 : p[k].kind = kind /\ p[k].tag = <<c, number + (k - 1)>>

LEMMA StepsMix ==
  ASSUME NEW s, ValidTopology(s), NEW kind \in {"pass", "reduce", "share"},
         NEW c \in {"allgather", "ring_allreduce"}, NEW size \in Int, NEW i \in Nat, NEW from \in Int
  PROVE  Turn(s, Steps(s, kind, c, size, i, from), kind, c, 256 * i + from)
  <1>. DEFINE links == Around(s, Ranks(s))
              St(n) == Stage(kind, <<c, 256 * i + (from + n - 1)>>, size, n - 1, links)
              p == Steps(s, kind, c, size, i, from)
              f == [n \in 1 .. s.world - 1 |-> St(n)]
  <1>1. p \in Seq(StageSet(s))
    BY StepsShape DEF WellShaped
  <1>2. s.world - 1 \in Nat /\ s.world - 1 >= 1
    BY DEF ValidTopology
  <1>3. p = f
    BY DEF Steps
  <1>4. \A n \in 1 .. s.world - 1 : St(n).kind = kind /\ St(n).links = links /\ St(n).tag = <<c, 256 * i + (from + n - 1)>>
    BY DEF Stage
  <1>5. Len(f) = s.world - 1 /\ \A n \in 1 .. s.world - 1 : f[n] = St(n)
    BY <1>2
  <1>. HIDE DEF St, links, f
  <1>6. Len(p) = s.world - 1 /\ \A k \in 1 .. s.world - 1 : p[k] = St(k)
    BY <1>3, <1>5
  <1>. HIDE DEF p
  <1>7. \A k \in 1 .. 1 + (s.world - 1) - 1 : p[k].kind \in DataKinds /\ p[k].links = Around(s, Ranks(s))
    <2>1. 1 + (s.world - 1) - 1 = s.world - 1
      BY <1>2
    <2>. QED  BY <1>4, <1>6, <2>1 DEF DataKinds, links
  <1>8. 1 \in 1 .. Len(p) /\ 1 + (s.world - 1) - 1 \in 1 .. Len(p)
    BY <1>2, <1>6
  <1>9. Mix(s, p, 1, s.world - 1)
    BY <1>2, <1>7, <1>8 DEF Mix
  <1>10. \A k \in 1 .. s.world - 1 : p[k].kind = kind /\ p[k].tag = <<c, (256 * i + from) + (k - 1)>>
    <2>. SUFFICES ASSUME NEW k \in 1 .. s.world - 1
                  PROVE  p[k].kind = kind /\ p[k].tag = <<c, (256 * i + from) + (k - 1)>>
      OBVIOUS
    <2>. DEFINE x == 256 * i + (from + k - 1)
                y == (256 * i + from) + (k - 1)
    <2>1. x = y
      BY <1>2
    <2>2. p[k].kind = kind /\ p[k].tag = <<c, x>>
      BY <1>4, <1>6
    <2>. HIDE DEF x, y
    <2>. QED  BY <2>1, <2>2 DEF y
  <1>. QED  BY <1>1, <1>6, <1>9, <1>10 DEF p, Turn

\* What _run_rank does for one collective and size.
Iterations(s, c, z) == [i \in 1 .. s.rounds |-> CollectiveStages(s, c, z, i - 1)]

LEMMA IterationsType ==
  ASSUME NEW s, Valid(s), NEW c \in Collectives, NEW z \in Nat, c = "ring_allreduce" => z >= s.world
  PROVE  LET ss == Iterations(s, c, z)
         IN  /\ ss \in Seq(Seq(StageSet(s))) /\ Len(ss) = s.rounds /\ s.rounds \in Nat /\ FlattenSeq(ss) \in Seq(StageSet(s))
             /\ \A a \in 1 .. s.rounds : ss[a] = CollectiveStages(s, c, z, a - 1) /\ a - 1 \in Nat
  <1>. DEFINE ss == Iterations(s, c, z)
              W == WellShaped(s)
  <1>1. s.rounds \in Nat
    BY DEF Valid, ValidRounds
  <1>2. \A i \in 1 .. s.rounds : i - 1 \in Nat /\ CollectiveStages(s, c, z, i - 1) \in W
    <2>. TAKE i \in 1 .. s.rounds
    <2>1. i - 1 \in Nat
      BY <1>1
    <2>. QED  BY <2>1, CollectiveShape
  <1>. HIDE DEF W
  <1>3. ss \in Seq(W) /\ Len(ss) = s.rounds /\ \A a \in 1 .. s.rounds : ss[a] = CollectiveStages(s, c, z, a - 1)
    BY <1>1, <1>2 DEF Iterations
  <1>. HIDE DEF ss
  <1>4. FlattenSeq(ss) \in WellShaped(s)
    BY <1>3, FlattenShape DEF W
  <1>5. \A a \in 1 .. Len(ss) : ss[a] \in W
    BY <1>3
  <1>6. ss \in Seq(Seq(StageSet(s)))
    <2>. DEFINE V == Seq(StageSet(s))
    <2>1. W \subseteq V
      BY DEF W, WellShaped
    <2>. HIDE DEF V
    <2>2. ss \in Seq(V)
      BY <1>3, <2>1
    <2>. QED  BY <2>2 DEF V
  <1>. QED  BY <1>1, <1>2, <1>3, <1>4, <1>6 DEF ss, WellShaped

LEMMA AllgatherIterated ==
  ASSUME NEW s, Valid(s), s.world <= 129, NEW z \in Nat
  PROVE  LET ss == Iterations(s, "allgather", z)
         IN  Iterated(s, ss, "allgather") /\ \A a \in 1 .. Len(ss) : Mix(s, ss[a], 1, Len(ss[a]))
  <1>. DEFINE ss == Iterations(s, "allgather", z)
  <1>1. /\ ss \in Seq(Seq(StageSet(s))) /\ Len(ss) = s.rounds
        /\ \A a \in 1 .. s.rounds : ss[a] = CollectiveStages(s, "allgather", z, a - 1) /\ a - 1 \in Nat
    BY IterationsType DEF Collectives
  <1>2. ValidTopology(s) /\ s.world - 1 \in Nat /\ s.world - 1 <= 256 /\ z \in Int
    BY DEF Valid, ValidTopology
  <1>. HIDE DEF ss
  <1>3. ASSUME NEW a \in 1 .. Len(ss)
        PROVE  /\ Len(ss[a]) = s.world - 1 /\ Mix(s, ss[a], 1, Len(ss[a]))
               /\ \A b \in 1 .. Len(ss[a]) : ss[a][b].tag = <<"allgather", 256 * (a - 1) + (b - 1)>>
    <2>. DEFINE i == a - 1
                from == 0
                p == Steps(s, "pass", "allgather", z, i, from)
    <2>1. i \in Nat /\ ss[a] = CollectiveStages(s, "allgather", z, i)
      BY <1>1
    <2>. HIDE DEF i
    <2>2. ss[a] = p
      BY <2>1 DEF CollectiveStages, AllgatherStages, Tagged, Steps
    <2>3. "pass" \in {"pass", "reduce", "share"} /\ "allgather" \in {"allgather", "ring_allreduce"} /\ from \in Int
      OBVIOUS
    <2>. HIDE DEF from
    <2>4. Turn(s, p, "pass", "allgather", 256 * i + from)
      BY <1>2, <2>1, <2>3, StepsMix
    <2>. HIDE DEF p
    <2>5. 256 * i + from = 256 * i
      BY <2>1 DEF from
    <2>6. Turn(s, p, "pass", "allgather", 256 * i)
      BY <2>4, <2>5
    <2>. QED  BY <2>2, <2>6 DEF i, Turn
  <1>. QED  BY <1>1, <1>2, <1>3 DEF Iterated, ss

\* A collective of one stage.
LEMMA OneStage ==
  ASSUME NEW s, NEW z, NEW i \in Nat
  PROVE  /\ Len(CollectiveStages(s, "broadcast", z, i)) = 1
         /\ CollectiveStages(s, "broadcast", z, i)[1].tag = <<"broadcast", 256 * i + 0>>
         /\ CollectiveStages(s, "broadcast", z, i)[1].kind = "broadcast"
         /\ Len(CollectiveStages(s, "all_to_all_exchange", z, i)) = 1
         /\ CollectiveStages(s, "all_to_all_exchange", z, i)[1].tag = <<"all_to_all_exchange", 256 * i + 0>>
         /\ CollectiveStages(s, "all_to_all_exchange", z, i)[1].kind = "alltoall"
         /\ Mix(s, CollectiveStages(s, "all_to_all_exchange", z, i), 1, 1)
  <1>. DEFINE p == CollectiveStages(s, "broadcast", z, i)
              q == CollectiveStages(s, "all_to_all_exchange", z, i)
              n == 256 * i + 0
              all == UNION {FromRank(s, r) : r \in Ranks(s)}
  <1>1. p = <<Stage("broadcast", <<"broadcast", n>>, z, 0, FromRank(s, s.root))>>
    BY DEF CollectiveStages, BroadcastStages, Tagged
  <1>2. q = <<Stage("alltoall", <<"all_to_all_exchange", n>>, z, 0, all)>>
    BY DEF CollectiveStages, AllToAllStages, Tagged
  <1>. HIDE DEF n, all, p, q
  <1>3. Len(p) = 1 /\ p[1].tag = <<"broadcast", n>> /\ p[1].kind = "broadcast"
    BY <1>1 DEF Stage
  <1>4. Len(q) = 1 /\ q[1].tag = <<"all_to_all_exchange", n>> /\ q[1].kind = "alltoall" /\ q[1].links = all
    BY <1>2 DEF Stage
  <1>5. Mix(s, q, 1, 1)
    <2>1. \A k \in 1 .. 1 + 1 - 1 : k = 1
      OBVIOUS
    <2>2. \A k \in 1 .. 1 + 1 - 1 : q[k].kind \in DataKinds
      BY <1>4, <2>1 DEF DataKinds
    <2>3. 1 \in 1 .. Len(q) /\ 1 + 1 - 1 \in 1 .. Len(q) /\ 1 \in Nat
      BY <1>4
    <2>. QED  BY <1>4, <2>2, <2>3 DEF Mix, all
  <1>. QED  BY <1>3, <1>4, <1>5 DEF p, q, n

LEMMA BroadcastIterated ==
  ASSUME NEW s, Valid(s), NEW z \in Nat
  PROVE  Iterated(s, Iterations(s, "broadcast", z), "broadcast")
  <1>. DEFINE ss == Iterations(s, "broadcast", z)
  <1>1. /\ ss \in Seq(Seq(StageSet(s))) /\ Len(ss) = s.rounds
        /\ \A a \in 1 .. s.rounds : ss[a] = CollectiveStages(s, "broadcast", z, a - 1) /\ a - 1 \in Nat
    BY IterationsType DEF Collectives
  <1>. HIDE DEF ss
  <1>2. ASSUME NEW a \in 1 .. Len(ss)
        PROVE  Len(ss[a]) = 1 /\ \A b \in 1 .. Len(ss[a]) : ss[a][b].tag = <<"broadcast", 256 * (a - 1) + (b - 1)>>
    <2>. DEFINE i == a - 1
    <2>1. i \in Nat /\ ss[a] = CollectiveStages(s, "broadcast", z, i)
      BY <1>1
    <2>. HIDE DEF i
    <2>2. Len(ss[a]) = 1 /\ ss[a][1].tag = <<"broadcast", 256 * i + 0>>
      BY <2>1, OneStage
    <2>. QED  BY <2>2 DEF i
  <1>3. \A a \in 1 .. Len(ss) : Len(ss[a]) \in Nat /\ Len(ss[a]) <= 256
    <2>. TAKE a \in 1 .. Len(ss)
    <2>1. Len(ss[a]) = 1
      BY <1>2
    <2>. QED  BY <2>1
  <1>. QED  BY <1>1, <1>2, <1>3 DEF Iterated, ss

LEMMA AllToAllIterated ==
  ASSUME NEW s, Valid(s), NEW z \in Nat
  PROVE  /\ Iterated(s, Iterations(s, "all_to_all_exchange", z), "all_to_all_exchange")
         /\ \A a \in 1 .. Len(Iterations(s, "all_to_all_exchange", z)) :
                Mix(s, Iterations(s, "all_to_all_exchange", z)[a], 1, Len(Iterations(s, "all_to_all_exchange", z)[a]))
  <1>. DEFINE ss == Iterations(s, "all_to_all_exchange", z)
  <1>1. /\ ss \in Seq(Seq(StageSet(s))) /\ Len(ss) = s.rounds
        /\ \A a \in 1 .. s.rounds : ss[a] = CollectiveStages(s, "all_to_all_exchange", z, a - 1) /\ a - 1 \in Nat
    BY IterationsType DEF Collectives
  <1>. HIDE DEF ss
  <1>2. ASSUME NEW a \in 1 .. Len(ss)
        PROVE  /\ Len(ss[a]) = 1 /\ Mix(s, ss[a], 1, 1)
               /\ \A b \in 1 .. Len(ss[a]) : ss[a][b].tag = <<"all_to_all_exchange", 256 * (a - 1) + (b - 1)>>
    <2>. DEFINE i == a - 1
    <2>1. i \in Nat /\ ss[a] = CollectiveStages(s, "all_to_all_exchange", z, i)
      BY <1>1
    <2>. HIDE DEF i
    <2>2. Len(ss[a]) = 1 /\ ss[a][1].tag = <<"all_to_all_exchange", 256 * i + 0>> /\ Mix(s, ss[a], 1, 1)
      BY <2>1, OneStage
    <2>. QED  BY <2>2 DEF i
  <1>3. \A a \in 1 .. Len(ss) : Len(ss[a]) \in Nat /\ Len(ss[a]) <= 256
    <2>. TAKE a \in 1 .. Len(ss)
    <2>1. Len(ss[a]) = 1
      BY <1>2
    <2>. QED  BY <2>1
  <1>. QED  BY <1>1, <1>2, <1>3 DEF Iterated, ss

LEMMA Doubled ==
  ASSUME NEW W \in Nat, W >= 2
  PROVE  W - 1 \in Nat /\ W - 1 >= 1 /\ 2 * (W - 1) \in Nat /\ 2 * (W - 1) = (W - 1) + (W - 1) /\ 2 * (W - 1) > 0
  OBVIOUS

LEMMA BlockNumbers ==
  ASSUME NEW i \in Nat, NEW f \in Nat, NEW D \in Nat, f + D <= 256, NEW t \in 0 .. D - 1
  PROVE  (256 * i + f) + t = 256 * i + (f + t) /\ f + t \in 0 .. 256 - 1
  OBVIOUS

Residues(i, f, D) == \A t \in 0 .. D - 1 : (((256 * i + f) + t) % 256) % D = t

LEMMA BlockResidues ==
  ASSUME NEW i \in Nat, NEW e \in Nat, NEW D \in Nat, D > 0, NEW f \in Nat, f = D * e, f + D <= 256
  PROVE  Residues(i, f, D)
  <1>. SUFFICES ASSUME NEW t \in 0 .. D - 1 PROVE (((256 * i + f) + t) % 256) % D = t
    BY DEF Residues
  <1>. DEFINE x == f + t
  <1>1. (256 * i + f) + t = 256 * i + x /\ x \in 0 .. 256 - 1
    BY BlockNumbers
  <1>. HIDE DEF x
  <1>2. (256 * i + x) % 256 = x
    BY <1>1, Residue
  <1>3. (D * e + t) % D = t
    BY Residue
  <1>. QED  BY <1>1, <1>2, <1>3 DEF x

\* A block of an allreduce: a turn with early tags, and one with late tags.
LEMMA BlockTame ==
  ASSUME NEW s, ValidTopology(s), NEW size \in Int, NEW i \in Nat, NEW e \in Nat,
         NEW first, first = (2 * (s.world - 1)) * e, first + 2 * (s.world - 1) <= 256
  PROVE  BlockStages(s, size, i, first) \in Tame(s)
  <1>. DEFINE w == s.world - 1
              D == 2 * w
              a == Steps(s, "reduce", "ring_allreduce", size, i, first)
              b == Steps(s, "share", "ring_allreduce", size, i, first + w)
              n == 256 * i + first
  <1>1. w \in Nat /\ w >= 1 /\ D \in Nat /\ D = w + w /\ D > 0
    <2>1. s.world \in Nat /\ s.world >= 2
      BY DEF ValidTopology
    <2>. QED  BY <2>1, Doubled
  <1>2. first \in Nat /\ first + w \in Int /\ n \in Nat /\ 256 * i + (first + w) = n + w /\ first + D <= 256
    <2>1. D * e \in Nat
      BY <1>1
    <2>2. first \in Nat
      BY <2>1
    <2>. QED  BY <1>1, <2>2
  <1>3. Turn(s, a, "reduce", "ring_allreduce", n)
    <2>1. "reduce" \in {"pass", "reduce", "share"} /\ "ring_allreduce" \in {"allgather", "ring_allreduce"} 
      OBVIOUS
    <2>. DEFINE from == first
    <2>2. from \in Int
      BY <1>2
    <2>. HIDE DEF from
    <2>3. Turn(s, Steps(s, "reduce", "ring_allreduce", size, i, from), "reduce", "ring_allreduce", 256 * i + from)
      BY <2>1, <2>2, StepsMix
    <2>. QED  BY <2>3 DEF from
  <1>4. Turn(s, b, "share", "ring_allreduce", n + w)
    <2>1. "share" \in {"pass", "reduce", "share"} /\ "ring_allreduce" \in {"allgather", "ring_allreduce"}
      OBVIOUS
    <2>2. Turn(s, b, "share", "ring_allreduce", 256 * i + (first + w))
      <3>. DEFINE from == first + w
      <3>1. from \in Int
        BY <1>2
      <3>. HIDE DEF from
      <3>2. Turn(s, Steps(s, "share", "ring_allreduce", size, i, from), "share", "ring_allreduce", 256 * i + from)
        BY <2>1, <3>1, StepsMix
      <3>. QED  BY <3>2 DEF from
    <2>. QED  BY <1>2, <2>2
  <1>5. BlockStages(s, size, i, first) = a \o b
    BY DEF BlockStages, Tagged, Steps
  <1>6. \A t \in 0 .. D - 1 : ((n + t) % 256) % D = t
    <2>0. first = D * e
      OBVIOUS
    <2>1. D \in Nat /\ D > 0 /\ first \in Nat /\ first + D <= 256
      BY <1>1, <1>2
    <2>. HIDE DEF D
    <2>2. Residues(i, first, D)
      BY <2>0, <2>1, BlockResidues
    <2>. QED  BY <2>2 DEF Residues
  <1>. HIDE DEF a, b, n, w
  <1>7. /\ a \in Seq(StageSet(s)) /\ b \in Seq(StageSet(s)) /\ Len(a) = w /\ Len(b) = w
        /\ Mix(s, a, 1, w) /\ Mix(s, b, 1, w)
        /\ \A k \in 1 .. w : /\ a[k].tag = <<"ring_allreduce", n + (k - 1)>>
                             /\ b[k].tag = <<"ring_allreduce", (n + w) + (k - 1)>>
    BY <1>3, <1>4 DEF Turn, w
  <1>8. \A k, h \in 1 .. w : /\ a[k].tag = a[h].tag => k = h
                             /\ b[k].tag = b[h].tag => k = h
                             /\ a[k].tag # b[h].tag
    <2>. SUFFICES ASSUME NEW k \in 1 .. w, NEW h \in 1 .. w
                  PROVE  /\ a[k].tag = a[h].tag => k = h
                         /\ b[k].tag = b[h].tag => k = h
                         /\ a[k].tag # b[h].tag
      OBVIOUS
    <2>. DEFINE A(x) == n + (x - 1)
                B(x) == (n + w) + (x - 1)
    <2>1. /\ a[k].tag = <<"ring_allreduce", A(k)>> /\ a[h].tag = <<"ring_allreduce", A(h)>>
          /\ b[k].tag = <<"ring_allreduce", B(k)>> /\ b[h].tag = <<"ring_allreduce", B(h)>>
      BY <1>7
    <2>2. (A(k) = A(h) => k = h) /\ (B(k) = B(h) => k = h) /\ A(k) # B(h)
      BY <1>1, <1>2
    <2>. HIDE DEF A, B
    <2>. QED  BY <2>1, <2>2
  <1>9. DataAt(a) \subseteq 1 .. w /\ DataAt(b) \subseteq 1 .. w
    BY <1>7 DEF DataAt
  <1>10. Parted(s, a \o b)
    <2>1. Parted(s, a) /\ Parted(s, b)
      <3>1. \A k, h \in 1 .. w : k < h => k # h
        BY <1>1
      <3>. QED  BY <1>8, <1>9, <3>1 DEF Parted
    <2>2. \A k \in DataAt(a) : \A h \in DataAt(b) : a[k].tag = b[h].tag => After(s, a, k) \/ Before(s, b, h)
      BY <1>8, <1>9
    <2>. QED  BY <1>7, <2>1, <2>2, PartedConcat
  <1>. DEFINE c == a \o b
  <1>11. /\ c \in Seq(StageSet(s)) /\ Inside(a, c, 0) /\ Inside(b, c, w)
         /\ \A k \in 1 .. Len(c) : k \in 1 .. w \/ (k - w \in 1 .. w /\ k > w)
    BY <1>7, ConcatInside
  <1>. HIDE DEF c
  <1>12. Mix(s, c, w + 1, w) /\ Mix(s, c, 1, w) /\ w + 1 \in Nat /\ 1 \in Nat
    <2>1. Mix(s, c, 0 + 1, w)
      BY <1>7, <1>11, MixMoved
    <2>2. Mix(s, c, w + 1, w)
      BY <1>7, <1>11, MixMoved
    <2>. QED  BY <1>1, <2>1, <2>2
  <1>13. ASSUME NEW k \in DataAt(c)
         PROVE  IF Early(s, c[k].tag) THEN After(s, c, k) ELSE Before(s, c, k)
    <2>1. k \in 1 .. Len(c) /\ Len(c) \in Nat
      BY <1>11 DEF DataAt, Inside
    <2>3. CASE k \in 1 .. w
      <3>. DEFINE t == k - 1
      <3>1. t \in 0 .. D - 1 /\ t < w
        BY <1>1, <2>3
      <3>2. c[k] = a[k]
        <4>1. c[0 + k] = a[k] /\ 0 + k = k
          BY <1>7, <1>11, <2>3 DEF Inside
        <4>. QED  BY <4>1
      <3>3. c[k].tag = <<"ring_allreduce", n + t>>
        BY <1>7, <2>3, <3>2
      <3>4. ((n + t) % 256) % D = t
        BY <1>6, <3>1
      <3>. HIDE DEF t, D
      <3>5. Early(s, c[k].tag)
        BY <3>1, <3>3, <3>4 DEF Early, D, w
      <3>6. k < w + 1
        BY <1>1, <2>3
      <3>7. After(s, c, k)
        BY <1>1, <1>12, <3>6 DEF After
      <3>. QED  BY <3>5, <3>7
    <2>4. CASE k - w \in 1 .. w /\ k > w
      <3>. DEFINE h == k - w
                  t == w + (h - 1)
      <3>1. h \in 1 .. w /\ w + h = k /\ t \in 0 .. D - 1 /\ ~(t < w) /\ (n + w) + (h - 1) = n + t
        BY <1>1, <1>2, <2>1, <2>4
      <3>2. c[k] = b[h]
        <4>1. c[w + h] = b[h]
          BY <1>7, <1>11, <3>1 DEF Inside
        <4>. QED  BY <3>1, <4>1
      <3>3. c[k].tag = <<"ring_allreduce", n + t>>
        BY <1>7, <3>1, <3>2
      <3>4. ((n + t) % 256) % D = t
        BY <1>6, <3>1
      <3>. HIDE DEF t, D, h
      <3>5. ~Early(s, c[k].tag)
        BY <3>1, <3>3, <3>4 DEF Early, D, w
      <3>6. 1 + w <= k
        BY <1>1, <2>1, <2>4
      <3>7. Before(s, c, k)
        BY <1>1, <1>12, <3>6 DEF Before
      <3>. QED  BY <3>5, <3>7
    <2>. QED  BY <1>11, <2>1, <2>3, <2>4
  <1>14. c \in Tame(s)
    <2>1. Parted(s, c)
      BY <1>10 DEF c
    <2>. QED  BY <1>11, <1>13, <2>1 DEF Tame
  <1>. QED  BY <1>5, <1>14 DEF c

\* The steps of all blocks fit between the tags of two iterations.
Fits(s, size) ==
    /\ size >= s.world
    /\ s.block # 0 => ((size \div s.world + s.block - 1) \div s.block) * 2 * (s.world - 1) <= 256

LEMMA OneBlock ==
  ASSUME NEW x \in Nat, x >= 1
  PROVE  (x + x - 1) \div x = 1
  <1>. DEFINE q == (x + x - 1) \div x
              r == (x + x - 1) % x
  <1>1. q \in Nat /\ r \in 0 .. x - 1 /\ x + x - 1 = x * q + r
    BY Quotient
  <1>. HIDE DEF q, r
  <1>2. q # 0
    BY <1>1
  <1>3. ~(q >= 2)
    <2>. SUFFICES ASSUME q >= 2 PROVE FALSE
      OBVIOUS
    <2>1. x * q = x * (q - 2) + (x + x) /\ x * (q - 2) >= 0
      <3>1. q - 2 \in Nat /\ x * (q - 2) \in Nat
        BY <1>1
      <3>. QED  BY <1>1, <3>1
    <2>. QED  BY <1>1, <2>1
  <1>4. q = 1
    BY <1>1, <1>2, <1>3
  <1>. QED  BY <1>4 DEF q

LEMMA AllreduceTame ==
  ASSUME NEW s, Valid(s), s.world <= 129, NEW size \in Nat, Fits(s, size), NEW i \in Nat
  PROVE  CollectiveStages(s, "ring_allreduce", size, i) \in Tame(s)
  <1>. DEFINE shard == size \div s.world
              block == IF s.block = 0 THEN shard ELSE LeastOf(s.block, shard)
              blocks == (shard + block - 1) \div block
              D == 2 * (s.world - 1)
              B(b) == BlockStages(s, LeastOf(block, shard - (b - 1) * block), i, (b - 1) * 2 * (s.world - 1))
              ss == [b \in 1 .. blocks |-> B(b)]
  <1>1. s.world \in Nat /\ s.world >= 2 /\ s.block \in Nat /\ ValidTopology(s) /\ size >= s.world
    BY DEF Valid, ValidTopology, ValidRounds, Fits
  <1>2. shard \in Nat /\ shard >= 1 /\ (s.block # 0 => ((shard + s.block - 1) \div s.block) * 2 * (s.world - 1) <= 256)
    BY <1>1 DEF Fits
  <1>. HIDE DEF shard
  <1>3. block \in Nat /\ block >= 1
    BY <1>1, <1>2 DEF LeastOf
  <1>4. D \in Nat /\ D <= 256 /\ D > 0
    BY <1>1
  <1>5. blocks \in Nat /\ D * blocks <= 256
    <2>1. CASE block = shard
      <3>1. blocks = 1
        BY <1>2, <2>1, OneBlock
      <3>. HIDE DEF blocks
      <3>. QED  BY <1>4, <3>1
    <2>2. CASE block # shard
      <3>1. block = s.block /\ s.block # 0
        BY <2>2 DEF LeastOf
      <3>2. blocks * 2 * (s.world - 1) <= 256 /\ blocks \in Nat
        BY <1>1, <1>2, <1>3, <3>1
      <3>. HIDE DEF blocks
      <3>. DEFINE w == s.world - 1
      <3>3. w \in Nat
        BY <1>1
      <3>4. blocks * 2 * w = 2 * w * blocks
        <4>. HIDE DEF w
        <4>. QED  BY <3>2, <3>3
      <3>. QED  BY <3>2, <3>4
    <2>. QED  BY <2>1, <2>2
  <1>. HIDE DEF block, blocks
  <1>6. \A b \in 1 .. blocks : B(b) \in Tame(s)
    <2>. SUFFICES ASSUME NEW b \in 1 .. blocks PROVE B(b) \in Tame(s)
      OBVIOUS
    <2>. DEFINE x == LeastOf(block, shard - (b - 1) * block)
                e == b - 1
                first == e * 2 * (s.world - 1)
    <2>1. x \in Int
      BY <1>2, <1>3 DEF LeastOf
    <2>2. e \in Nat /\ first = D * e
      <3>1. e \in Nat
        BY <1>5
      <3>. HIDE DEF e
      <3>. DEFINE w == s.world - 1
      <3>2. w \in Nat
        BY <1>1
      <3>3. e * 2 * w = (2 * w) * e
        <4>. HIDE DEF w
        <4>. QED  BY <3>1, <3>2
      <3>. QED  BY <3>1, <3>3
    <2>3. first + D <= 256
      <3>1. D * blocks = D * e + D + D * (blocks - b) /\ D * (blocks - b) >= 0 /\ D * e \in Nat
        <4>. DEFINE c == blocks - b
        <4>1. c \in Nat /\ blocks = e + 1 + c
          BY <1>5
        <4>2. e \in Nat
          BY <2>2
        <4>. HIDE DEF c, e, D
        <4>3. D * (e + 1 + c) = D * e + D + D * c /\ D * c >= 0 /\ D * e \in Nat
          BY <1>4, <4>1, <4>2
        <4>. QED  BY <4>1, <4>3 DEF c
      <3>. HIDE DEF D, e, first
      <3>. QED  BY <1>4, <1>5, <2>2, <3>1
    <2>. HIDE DEF x, first, e
    <2>4. BlockStages(s, x, i, first) \in Tame(s)
      BY <1>1, <2>1, <2>2, <2>3, BlockTame
    <2>. QED  BY <2>4 DEF x, first, e
  <1>. HIDE DEF B
  <1>7. ss \in Seq(Tame(s))
    BY <1>5, <1>6
  <1>8. FlattenSeq(ss) \in Tame(s)
    BY <1>7, TameFlatten
  <1>9. CollectiveStages(s, "ring_allreduce", size, i) = AllreduceStages(s, size, i)
    BY DEF CollectiveStages
  <1>. QED  BY <1>8, <1>9 DEF AllreduceStages, B, blocks, block, shard

\* Barriers and ring exchanges, which have no data stages.
Silent(s) == {p \in Seq(StageSet(s)) : DataAt(p) = {}}

Named(s, c) == {p \in Seq(StageSet(s)) : \A k \in DataAt(p) : p[k].tag[1] = c}

LEMMA NamedConcat ==
  ASSUME NEW s, NEW c, NEW a \in Named(s, c), NEW b \in Named(s, c)
  PROVE  a \o b \in Named(s, c)
  <1>. DEFINE d == a \o b
  <1>1. a \in Seq(StageSet(s)) /\ b \in Seq(StageSet(s))
    BY DEF Named
  <1>2. /\ d \in Seq(StageSet(s)) /\ Inside(a, d, 0) /\ Inside(b, d, Len(a))
        /\ \A k \in 1 .. Len(d) : k \in 1 .. Len(a) \/ (k - Len(a) \in 1 .. Len(b) /\ k > Len(a))
    BY <1>1, ConcatInside
  <1>. HIDE DEF d
  <1>3. ASSUME NEW k \in DataAt(d)
        PROVE  d[k].tag[1] = c
    <2>1. k \in 1 .. Len(d) /\ d[k].kind \in DataKinds /\ Len(d) \in Nat /\ Len(a) \in Nat
      BY <1>2 DEF DataAt, Inside
    <2>2. CASE k \in 1 .. Len(a)
      <3>1. d[0 + k] = a[k] /\ 0 + k = k
        BY <1>2, <2>1, <2>2 DEF Inside
      <3>. QED  BY <2>1, <2>2, <3>1 DEF DataAt, Named
    <2>3. CASE k - Len(a) \in 1 .. Len(b)
      <3>. DEFINE h == k - Len(a)
      <3>1. d[Len(a) + h] = b[h] /\ Len(a) + h = k
        BY <1>2, <2>1, <2>3 DEF Inside
      <3>. HIDE DEF h
      <3>2. h \in DataAt(b)
        BY <2>1, <2>3, <3>1 DEF DataAt, h
      <3>. QED  BY <3>1, <3>2 DEF Named
    <2>. QED  BY <1>2, <2>1, <2>2, <2>3
  <1>. QED  BY <1>2, <1>3 DEF Named, d

LEMMA NamedFlatten ==
  ASSUME NEW s, NEW c, NEW ss \in Seq(Named(s, c))
  PROVE  FlattenSeq(ss) \in Named(s, c)
  <1>1. <<>> \in Named(s, c)
    BY DEF Named, DataAt
  <1>. QED  BY <1>1, NamedConcat, Flattened

LEMMA SilentTame ==
  ASSUME NEW s, NEW p \in Silent(s)
  PROVE  p \in Tame(s) /\ Parted(s, p) /\ \A c : p \in Named(s, c)
  BY DEF Silent, Tame, Parted, Named

\* What can be named in two ways has no data.
LEMMA SilentConcat ==
  ASSUME NEW s, NEW a \in Silent(s), NEW b \in Silent(s)
  PROVE  a \o b \in Silent(s)
  <1>1. a \in Named(s, 0) /\ a \in Named(s, 1) /\ b \in Named(s, 0) /\ b \in Named(s, 1)
    BY SilentTame
  <1>. DEFINE d == a \o b
  <1>2. d \in Named(s, 0) /\ d \in Named(s, 1)
    BY <1>1, NamedConcat
  <1>. HIDE DEF d
  <1>3. d \in Seq(StageSet(s)) /\ DataAt(d) = {}
    BY <1>2 DEF Named
  <1>. QED  BY <1>3 DEF Silent, d

LEMMA SilentFlatten ==
  ASSUME NEW s, NEW ss \in Seq(Silent(s))
  PROVE  FlattenSeq(ss) \in Silent(s)
  <1>1. <<>> \in Silent(s)
    BY DEF Silent, DataAt
  <1>. QED  BY <1>1, SilentConcat, Flattened

LEMMA BarrierSilent ==
  ASSUME NEW s, ValidTopology(s), NEW c \in Collectives, NEW n \in Int, BarrierTag(<<c, n>>)
  PROVE  BarrierStages(s, <<c, n>>) \in Silent(s)
  <1>. DEFINE p == BarrierStages(s, <<c, n>>)
  <1>1. p \in Seq(StageSet(s)) /\ Len(p) = 2
    BY BarrierShape DEF WellShaped
  <1>2. p[1].kind = "arrive" /\ p[2].kind = "release"
    BY DEF BarrierStages, Stage
  <1>. HIDE DEF p
  <1>3. \A k \in 1 .. Len(p) : k = 1 \/ k = 2
    BY <1>1
  <1>4. DataAt(p) = {}
    BY <1>2, <1>3 DEF DataAt, DataKinds
  <1>. QED  BY <1>1, <1>4 DEF Silent, p

LEMMA RingExchangeSilent ==
  ASSUME NEW s, Valid(s), NEW size \in Int, NEW i \in Nat
  PROVE  RingExchangeStages(s, size, i) \in Silent(s)
  <1>. DEFINE W == Silent(s)
  <1>0. ValidTopology(s) /\ s.concurrency \in 1 .. s.world
    BY DEF Valid
  <1>1. \A p \in Nat : Phase(s, size, i, p) \in Silent(s)
    <2>. SUFFICES ASSUME NEW p \in Nat PROVE Phase(s, size, i, p) \in Silent(s)
      OBVIOUS
    <2>. DEFINE n == 256 * i + (2 * p + 1)
                h == 256 * i + 2 * p
                links == Around(s, Active(s, p))
                st == Stage("exchange", <<"ring_exchange", h>>, size, 0, links)
    <2>1. n \in Int /\ h \in Int /\ BarrierTag(<<"ring_exchange", n>>) /\ "ring_exchange" \in Collectives
      <3>1. n % 2 = 1
        OBVIOUS
      <3>. QED  BY <3>1 DEF BarrierTag, Collectives
    <2>2. links \in SUBSET (Ranks(s) \X Ranks(s))
      <3>1. Active(s, p) \in SUBSET Ranks(s)
        BY <1>0 DEF Active, ValidTopology
      <3>. QED  BY <1>0, <3>1, RingLinks
    <2>3. Tagged("ring_exchange", i, 2 * p + 1) = <<"ring_exchange", n>> /\ Tagged("ring_exchange", i, 2 * p) = <<"ring_exchange", h>>
      BY DEF Tagged
    <2>. HIDE DEF n, h, links
    <2>4. BarrierStages(s, <<"ring_exchange", n>>) \in Silent(s)
      BY <1>0, <2>1, BarrierSilent
    <2>5. st \in StageSet(s)
      <3>1. "exchange" \in Kinds /\ "ring_exchange" \in Collectives \cup {"control"} /\ 0 \in Int
        BY DEF Kinds, Collectives
      <3>. QED  BY <2>1, <2>2, <3>1, StageType
    <2>6. st.kind = "exchange"
      BY DEF Stage
    <2>7. <<st>> \in Silent(s)
      <3>. HIDE DEF st
      <3>. DEFINE q == <<st>>
      <3>1. q \in Seq(StageSet(s)) /\ Len(q) = 1 /\ q[1] = st
        BY <2>5
      <3>. HIDE DEF q
      <3>2. DataAt(q) = {}
        <4>1. \A k \in 1 .. Len(q) : k = 1
          BY <3>1
        <4>. QED  BY <2>6, <3>1, <4>1 DEF DataAt, DataKinds
      <3>3. q \in Silent(s)
        BY <3>1, <3>2 DEF Silent
      <3>. QED  BY <3>3 DEF q
    <2>. HIDE DEF st
    <2>8. <<st>> \o BarrierStages(s, <<"ring_exchange", n>>) \in Silent(s)
      BY <2>4, <2>7, SilentConcat
    <2>. QED  BY <2>3, <2>8 DEF Phase, st, links
  <1>2. <<>> \in W /\ \A a, b \in W : a \o b \in W
    BY SilentConcat DEF Silent, DataAt
  <1>3. \A p \in Nat : Phase(s, size, i, p) \in W
    BY <1>1
  <1>. HIDE DEF W
  <1>4. RingExchangeStages(s, size, i) \in W
    BY <1>0, <1>2, <1>3, RingExchangeIn
  <1>. QED  BY <1>4 DEF W

LEMMA TurnNamed ==
  ASSUME NEW s, NEW p, NEW kind, NEW c, NEW number, Turn(s, p, kind, c, number)
  PROVE  p \in Named(s, c)
  <1>1. p \in Seq(StageSet(s)) /\ Len(p) = s.world - 1 /\ \A k \in 1 .. s.world - 1 : p[k].tag[1] = c
    BY DEF Turn
  <1>. QED  BY <1>1 DEF Named, DataAt

LEMMA BlockNamed ==
  ASSUME NEW s, ValidTopology(s), NEW size \in Int, NEW i \in Nat, NEW first \in Int
  PROVE  BlockStages(s, size, i, first) \in Named(s, "ring_allreduce")
  <1>. DEFINE from == first + (s.world - 1)
              a == Steps(s, "reduce", "ring_allreduce", size, i, first)
              b == Steps(s, "share", "ring_allreduce", size, i, from)
  <1>1. BlockStages(s, size, i, first) = a \o b
    BY DEF BlockStages, Tagged, Steps
  <1>2. from \in Int
    BY DEF ValidTopology
  <1>. HIDE DEF from
  <1>3. /\ "reduce" \in {"pass", "reduce", "share"} /\ "share" \in {"pass", "reduce", "share"}
        /\ "ring_allreduce" \in {"allgather", "ring_allreduce"}
    OBVIOUS
  <1>4. Turn(s, a, "reduce", "ring_allreduce", 256 * i + first) /\ Turn(s, b, "share", "ring_allreduce", 256 * i + from)
    BY <1>2, <1>3, StepsMix
  <1>. HIDE DEF a, b
  <1>5. a \in Named(s, "ring_allreduce") /\ b \in Named(s, "ring_allreduce")
    BY <1>4, TurnNamed
  <1>. QED  BY <1>1, <1>5, NamedConcat

LEMMA AllreduceNamed ==
  ASSUME NEW s, ValidTopology(s), s.block \in Nat, NEW size \in Nat, size >= s.world, NEW i \in Nat
  PROVE  AllreduceStages(s, size, i) \in Named(s, "ring_allreduce")
  <1>. DEFINE W == Named(s, "ring_allreduce")
  <1>1. <<>> \in W /\ \A a, b \in W : a \o b \in W
    <2>1. <<>> \in W
      BY DEF Named, DataAt
    <2>. QED  BY <2>1, NamedConcat
  <1>2. \A x, first \in Int : BlockStages(s, x, i, first) \in W
    BY BlockNamed
  <1>. HIDE DEF W
  <1>3. AllreduceStages(s, size, i) \in W
    BY <1>1, <1>2, AllreduceIn
  <1>. QED  BY <1>3 DEF W

LEMMA CollectiveNamed ==
  ASSUME NEW s, Valid(s), NEW c \in Collectives, NEW z \in Nat, NEW i \in Nat,
         c = "ring_allreduce" => z >= s.world
  PROVE  CollectiveStages(s, c, z, i) \in Named(s, c)
  <1>. DEFINE p == CollectiveStages(s, c, z, i)
  <1>1. ValidTopology(s) /\ s.block \in Nat /\ z \in Int
    BY DEF Valid, ValidRounds
  <1>2. p \in Seq(StageSet(s))
    BY CollectiveShape DEF WellShaped
  <1>3. CASE c = "barrier"
    <2>. DEFINE n == 256 * i + 0
    <2>1. n \in Int /\ BarrierTag(<<"barrier", n>>) /\ "barrier" \in Collectives
      BY DEF BarrierTag, Collectives
    <2>. HIDE DEF n
    <2>2. BarrierStages(s, <<"barrier", n>>) \in Silent(s)
      BY <1>1, <2>1, BarrierSilent
    <2>3. p \in Silent(s)
      BY <1>3, <2>2 DEF CollectiveStages, Tagged, n
    <2>. QED  BY <2>3, SilentTame
  <1>4. CASE c = "ring_exchange"
    <2>1. p \in Silent(s)
      BY <1>1, <1>4, RingExchangeSilent DEF CollectiveStages
    <2>. QED  BY <2>1, SilentTame
  <1>5. CASE c = "ring_allreduce"
    BY <1>1, <1>5, AllreduceNamed DEF CollectiveStages
  <1>6. CASE c = "allgather"
    <2>. DEFINE from == 0
    <2>1. p = Steps(s, "pass", "allgather", z, i, from)
      BY <1>6 DEF CollectiveStages, AllgatherStages, Tagged, Steps
    <2>2. "pass" \in {"pass", "reduce", "share"} /\ "allgather" \in {"allgather", "ring_allreduce"} /\ from \in Int
      OBVIOUS
    <2>. HIDE DEF from, p
    <2>3. Turn(s, p, "pass", "allgather", 256 * i + from)
      BY <1>1, <2>1, <2>2, StepsMix
    <2>4. p \in Named(s, "allgather")
      BY <2>3, TurnNamed
    <2>. QED  BY <1>6, <2>4 DEF p
  <1>7. CASE c \in {"broadcast", "all_to_all_exchange"}
    <2>1. Len(p) = 1 /\ p[1].tag = <<c, 256 * i + 0>>
      BY <1>7, OneStage
    <2>. HIDE DEF p
    <2>2. p[1].tag[1] = c
      BY <2>1
    <2>3. \A k \in DataAt(p) : k = 1
      BY <2>1 DEF DataAt
    <2>. QED  BY <1>2, <2>2, <2>3 DEF Named, p
  <1>. QED  BY <1>3, <1>4, <1>5, <1>6, <1>7 DEF Collectives

\* One collective of one size, over all rounds: with tags of its own if nothing
\* repeats it, and free to be repeated if it keeps its ranks close.
LEMMA RoundsParted ==
  ASSUME NEW s, Valid(s), s.world <= 129, NEW c \in Collectives, NEW z \in Nat,
         c = "ring_allreduce" => Fits(s, z)
  PROVE  /\ FlattenSeq(Iterations(s, c, z)) \in Named(s, c)
         /\ Parted(s, FlattenSeq(Iterations(s, c, z)))
         /\ c # "broadcast" /\ (s.rounds > 1 \/ c \notin {"allgather", "all_to_all_exchange"}) =>
                FlattenSeq(Iterations(s, c, z)) \in Tame(s)
  <1>. DEFINE ss == Iterations(s, c, z)
  <1>0. c = "ring_allreduce" => z >= s.world
    BY DEF Fits
  <1>1. /\ ss \in Seq(Seq(StageSet(s))) /\ Len(ss) = s.rounds /\ s.rounds \in Nat
        /\ \A a \in 1 .. s.rounds : ss[a] = CollectiveStages(s, c, z, a - 1) /\ a - 1 \in Nat
    BY <1>0, IterationsType
  <1>2. FlattenSeq(ss) \in Named(s, c)
    <2>. HIDE DEF ss
    <2>1. \A a \in 1 .. Len(ss) : ss[a] \in Named(s, c)
      BY <1>0, <1>1, CollectiveNamed
    <2>. DEFINE W == Named(s, c)
    <2>2. \A a \in 1 .. Len(ss) : ss[a] \in W
      BY <2>1
    <2>. HIDE DEF W
    <2>3. ss \in Seq(W)
      <3>. DEFINE T == Seq(StageSet(s))
      <3>1. ss \in Seq(T)
        BY <1>1
      <3>. HIDE DEF T
      <3>. QED  BY <2>2, <3>1, ElementsIn
    <2>. QED  BY <2>3, NamedFlatten DEF W
  <1>3. CASE c \in {"barrier", "ring_exchange", "ring_allreduce"}
    <2>1. ASSUME NEW i \in Nat
          PROVE  CollectiveStages(s, c, z, i) \in Tame(s)
      <3>0. ValidTopology(s) /\ z \in Int
        BY DEF Valid
      <3>1. CASE c = "barrier"
        <4>. DEFINE n == 256 * i + 0
        <4>1. n \in Int /\ BarrierTag(<<"barrier", n>>) /\ "barrier" \in Collectives
          BY DEF BarrierTag, Collectives
        <4>. HIDE DEF n
        <4>2. BarrierStages(s, <<"barrier", n>>) \in Silent(s)
          BY <3>0, <4>1, BarrierSilent
        <4>3. CollectiveStages(s, c, z, i) \in Silent(s)
          BY <3>1, <4>2 DEF CollectiveStages, Tagged, n
        <4>. QED  BY <4>3, SilentTame
      <3>2. CASE c = "ring_exchange"
        <4>1. CollectiveStages(s, c, z, i) \in Silent(s)
          BY <3>0, <3>2, RingExchangeSilent DEF CollectiveStages
        <4>. QED  BY <4>1, SilentTame
      <3>3. CASE c = "ring_allreduce"
        BY <3>3, AllreduceTame
      <3>. QED  BY <1>3, <3>1, <3>2, <3>3
    <2>. HIDE DEF ss
    <2>2. \A a \in 1 .. Len(ss) : ss[a] \in Tame(s)
      BY <1>1, <2>1
    <2>. DEFINE W == Tame(s)
    <2>3. \A a \in 1 .. Len(ss) : ss[a] \in W
      BY <2>2
    <2>. HIDE DEF W
    <2>4. ss \in Seq(W)
      <3>. DEFINE T == Seq(StageSet(s))
      <3>1. ss \in Seq(T)
        BY <1>1
      <3>. HIDE DEF T
      <3>. QED  BY <2>3, <3>1, ElementsIn
    <2>5. FlattenSeq(ss) \in Tame(s)
      BY <2>4, TameFlatten DEF W
    <2>. QED  BY <1>2, <2>5 DEF Tame, ss
  <1>4. CASE c = "allgather"
    <2>1. Iterated(s, ss, c) /\ \A a \in 1 .. Len(ss) : Mix(s, ss[a], 1, Len(ss[a]))
      BY <1>4, AllgatherIterated
    <2>. HIDE DEF ss
    <2>2. Parted(s, FlattenSeq(ss))
      BY <2>1, IteratedOnce
    <2>3. s.rounds > 1 => FlattenSeq(ss) \in Tame(s)
      BY <1>1, <1>4, <2>1, IteratedTame
    <2>. QED  BY <1>2, <1>4, <2>2, <2>3 DEF ss
  <1>5. CASE c = "all_to_all_exchange"
    <2>1. Iterated(s, ss, c) /\ \A a \in 1 .. Len(ss) : Mix(s, ss[a], 1, Len(ss[a]))
      BY <1>5, AllToAllIterated
    <2>. HIDE DEF ss
    <2>2. Parted(s, FlattenSeq(ss))
      BY <2>1, IteratedOnce
    <2>3. s.rounds > 1 => FlattenSeq(ss) \in Tame(s)
      BY <1>1, <1>5, <2>1, IteratedTame
    <2>. QED  BY <1>2, <1>5, <2>2, <2>3 DEF ss
  <1>6. CASE c = "broadcast"
    <2>1. Iterated(s, ss, c)
      BY <1>6, BroadcastIterated
    <2>. HIDE DEF ss
    <2>2. Parted(s, FlattenSeq(ss))
      BY <2>1, IteratedOnce
    <2>. QED  BY <1>2, <1>6, <2>2 DEF ss
  <1>. QED  BY <1>3, <1>4, <1>5, <1>6 DEF Collectives

LEMMA SizeFits ==
  ASSUME NEW s, Valid(s), NEW j \in 1 .. Len(s.collectives), s.collectives[j] = "ring_allreduce", NEW k \in 1 .. Len(s.sizes)
  PROVE  Fits(s, s.sizes[k])
  <1>1. s.sizes \in Seq(Nat \ {0}) /\ s.collectives \in Seq(Collectives) /\ s.world \in Nat /\ s.world >= 2
    BY DEF Valid, ValidRounds, ValidTopology
  <1>2. Contains(s.collectives, "ring_allreduce")
    BY DEF Contains
  <1>3. /\ s.sizes[k] % s.world = 0
        /\ s.block # 0 => ((s.sizes[k] \div s.world + s.block - 1) \div s.block) * 2 * (s.world - 1) <= 256
    BY <1>2 DEF Valid
  <1>4. s.sizes[k] >= s.world
    <2>. DEFINE z == s.sizes[k]
                w == s.world
    <2>1. z \in Nat /\ z # 0 /\ z % w = 0 /\ w \in Nat /\ w >= 2
      BY <1>1, <1>3
    <2>. HIDE DEF z, w
    <2>2. z >= w
      BY <2>1
    <2>. QED  BY <2>2 DEF z, w
  <1>. QED  BY <1>3, <1>4 DEF Fits

\* What _run_rank does for one collective.
ForSizes(s, c) ==
    LET Sizes == IF c = "barrier" THEN <<0>> ELSE s.sizes
    IN  [k \in 1 .. Len(Sizes) |-> FlattenSeq(Iterations(s, c, Sizes[k]))]

LEMMA SizesParted ==
  ASSUME NEW s, Valid(s), s.world <= 129, NEW j \in 1 .. Len(s.collectives)
  PROVE  LET c == s.collectives[j]
         IN  /\ FlattenSeq(ForSizes(s, c)) \in Named(s, c)
             /\ Len(s.sizes) = 1 => Parted(s, FlattenSeq(ForSizes(s, c)))
             /\ c # "broadcast" /\ (s.rounds > 1 \/ c \notin {"allgather", "all_to_all_exchange"}) =>
                    FlattenSeq(ForSizes(s, c)) \in Tame(s)
  <1>. DEFINE c == s.collectives[j]
              Sizes == IF c = "barrier" THEN <<0>> ELSE s.sizes
              ss == ForSizes(s, c)
              P(k) == FlattenSeq(Iterations(s, c, Sizes[k]))
              T == Seq(StageSet(s))
  <1>1. c \in Collectives /\ s.sizes \in Seq(Nat \ {0})
    BY DEF Valid, ValidRounds
  <1>2. Len(Sizes) \in Nat /\ \A k \in 1 .. Len(Sizes) : Sizes[k] \in Nat
    <2>1. CASE c = "barrier"
      BY <2>1
    <2>2. CASE c # "barrier"
      BY <2>2, <1>1
    <2>. QED  BY <2>1, <2>2
  <1>3. \A k \in 1 .. Len(Sizes) : c = "ring_allreduce" => Fits(s, Sizes[k])
    BY SizeFits
  <1>4. Len(s.sizes) = 1 => Len(Sizes) = 1
    BY <1>1
  <1>5. ss = [k \in 1 .. Len(Sizes) |-> P(k)]
    BY DEF ForSizes
  <1>. HIDE DEF Sizes, c
  <1>6. ASSUME NEW k \in 1 .. Len(Sizes)
        PROVE  /\ P(k) \in Named(s, c) /\ Parted(s, P(k)) /\ P(k) \in T
               /\ c # "broadcast" /\ (s.rounds > 1 \/ c \notin {"allgather", "all_to_all_exchange"}) => P(k) \in Tame(s)
    <2>1. Sizes[k] \in Nat /\ (c = "ring_allreduce" => Fits(s, Sizes[k]))
      BY <1>2, <1>3
    <2>2. /\ P(k) \in Named(s, c) /\ Parted(s, P(k))
          /\ c # "broadcast" /\ (s.rounds > 1 \/ c \notin {"allgather", "all_to_all_exchange"}) => P(k) \in Tame(s)
      BY <1>1, <2>1, RoundsParted
    <2>. QED  BY <2>2 DEF Named
  <1>. HIDE DEF P, T
  <1>7. ss \in Seq(T) /\ Len(ss) = Len(Sizes) /\ \A k \in 1 .. Len(ss) : ss[k] = P(k)
    BY <1>2, <1>5, <1>6
  <1>. HIDE DEF ss
  <1>8. FlattenSeq(ss) \in Named(s, c)
    <2>. DEFINE W == Named(s, c)
    <2>1. \A k \in 1 .. Len(ss) : ss[k] \in W
      BY <1>6, <1>7
    <2>. HIDE DEF W
    <2>2. ss \in Seq(W)
      BY <1>7, <2>1, ElementsIn
    <2>. QED  BY <2>2, NamedFlatten DEF W
  <1>9. ASSUME Len(s.sizes) = 1
        PROVE  Parted(s, FlattenSeq(ss))
    <2>1. \A a, e \in 1 .. Len(ss) : a = e
      BY <1>4, <1>7, <1>9
    <2>2. \A a \in 1 .. Len(ss) : Parted(s, ss[a])
      BY <1>6, <1>7
    <2>. QED  BY <1>7, <2>1, <2>2, PartedFlatten DEF T
  <1>10. ASSUME c # "broadcast", s.rounds > 1 \/ c \notin {"allgather", "all_to_all_exchange"}
         PROVE  FlattenSeq(ss) \in Tame(s)
    <2>. DEFINE W == Tame(s)
    <2>1. \A k \in 1 .. Len(ss) : ss[k] \in W
      BY <1>6, <1>7, <1>10
    <2>. HIDE DEF W
    <2>2. ss \in Seq(W)
      BY <1>7, <2>1, ElementsIn
    <2>. QED  BY <2>2, TameFlatten DEF W
  <1>. QED  BY <1>8, <1>9, <1>10 DEF ss, c

LEMMA AllRounds ==
  ASSUME NEW s, Valid(s), SizesApart(s)
  PROVE  Parted(s, RoundStages(s))
  <1>. DEFINE F(k) == FlattenSeq(ForSizes(s, s.collectives[k]))
              all == [k \in 1 .. Len(s.collectives) |-> F(k)]
              n == Len(s.collectives)
              T == Seq(StageSet(s))
  <1>1. RoundStages(s) = FlattenSeq(all)
    BY DEF RoundStages, ForSizes, Iterations
  <1>2. s.world <= 129 /\ n \in Nat /\ \A k \in 1 .. n : s.collectives[k] \in Collectives
    BY DEF SizesApart, Valid, ValidRounds
  <1>3. \A k \in 1 .. n : F(k) \in Named(s, s.collectives[k])
    BY <1>2, SizesParted
  <1>4. \A k \in 1 .. n : F(k) \in T
    BY <1>3 DEF Named
  <1>5. CASE UsedOnce(s)
    <2>1. \A k \in 1 .. n : Parted(s, F(k))
      BY <1>2, <1>5, SizesParted DEF UsedOnce
    <2>2. \A k, h \in 1 .. n : s.collectives[k] = s.collectives[h] => k = h
      <3>1. s.collectives \in Seq(Collectives)
        BY DEF Valid, ValidRounds
      <3>. QED  BY <1>5, <3>1 DEF UsedOnce, IsInjective
    <2>. HIDE DEF F
    <2>3. ASSUME NEW k \in 1 .. n, NEW h \in 1 .. n, k # h, NEW i \in DataAt(F(k)), NEW j \in DataAt(F(h))
          PROVE  F(k)[i].tag # F(h)[j].tag
      <3>1. F(k)[i].tag[1] = s.collectives[k] /\ F(h)[j].tag[1] = s.collectives[h]
        BY <1>3 DEF Named
      <3>. QED  BY <2>2, <2>3, <3>1
    <2>. HIDE DEF T, n
    <2>4. all \in Seq(T) /\ Len(all) = n /\ \A k \in 1 .. n : all[k] = F(k)
      BY <1>2, <1>4 DEF n
    <2>. HIDE DEF all
    <2>5. \A a, e \in 1 .. Len(all) : a # e =>
            \A i \in DataAt(all[a]) : \A j \in DataAt(all[e]) : all[a][i].tag # all[e][j].tag
      BY <2>3, <2>4
    <2>6. \A a \in 1 .. Len(all) : Parted(s, all[a])
      BY <2>1, <2>4
    <2>7. Parted(s, FlattenSeq(all))
      BY <2>4, <2>5, <2>6, PartedFlatten DEF T
    <2>. QED  BY <1>1, <2>7
  <1>6. CASE ~UsedOnce(s)
    <2>1. ~Uses(s, "broadcast") /\ (s.rounds > 1 \/ (~Uses(s, "allgather") /\ ~Uses(s, "all_to_all_exchange")))
      BY <1>6 DEF SizesApart
    <2>2. ASSUME NEW k \in 1 .. n
          PROVE  F(k) \in Tame(s)
      <3>1. /\ s.collectives[k] # "broadcast"
            /\ s.rounds > 1 \/ s.collectives[k] \notin {"allgather", "all_to_all_exchange"}
        BY <2>1 DEF Uses, Contains
      <3>. QED  BY <1>2, <3>1, SizesParted
    <2>. DEFINE W == Tame(s)
    <2>3. \A k \in 1 .. n : F(k) \in W
      BY <2>2
    <2>. HIDE DEF F, W
    <2>4. all \in Seq(W)
      BY <1>2, <2>3
    <2>. HIDE DEF all
    <2>5. FlattenSeq(all) \in Tame(s)
      BY <2>4, TameFlatten DEF W
    <2>. QED  BY <1>1, <2>5 DEF Tame
  <1>. QED  BY <1>5, <1>6

\* The stages before and after the rounds have no data.
LEMMA PlanParted ==
  ASSUME NEW s, Valid(s), SizesApart(s)
  PROVE  Parted(s, PlanOf(s))
  <1>. DEFINE opening == IF s.cluster THEN ClusterOpening(s) ELSE TwoSidedOpening(s)
              rounds == RoundStages(s)
              end == ResultStages(s)
  <1>1. PlanOf(s) = (opening \o rounds) \o end
    BY DEF PlanOf
  <1>2. ValidTopology(s) /\ rounds \in Seq(StageSet(s)) /\ Parted(s, rounds)
    BY AllRounds, RoundsShape DEF Valid, WellShaped
  <1>3. \A kind \in Kinds : \A links \in SUBSET (Ranks(s) \X Ranks(s)) : Stage(kind, Control, 0, 0, links) \in StageSet(s)
    BY StageType DEF Control
  <1>. DEFINE Two(a, b, x, y) == <<Stage(a, Control, 0, 0, x), Stage(b, Control, 0, 0, y)>>
  <1>4. ASSUME NEW a \in ControlKinds, NEW b \in ControlKinds,
               NEW x \in SUBSET (Ranks(s) \X Ranks(s)), NEW y \in SUBSET (Ranks(s) \X Ranks(s))
        PROVE  Two(a, b, x, y) \in Seq(StageSet(s)) /\ DataAt(Two(a, b, x, y)) = {}
    <2>. DEFINE f == Stage(a, Control, 0, 0, x)
                g == Stage(b, Control, 0, 0, y)
                q == <<f, g>>
    <2>1. f \in StageSet(s) /\ g \in StageSet(s) /\ f.kind = a /\ g.kind = b
      BY <1>3 DEF ControlKinds, Kinds, Stage
    <2>. HIDE DEF f, g
    <2>2. q \in Seq(StageSet(s)) /\ Len(q) = 2 /\ q[1] = f /\ q[2] = g
      BY <2>1
    <2>. HIDE DEF q
    <2>3. \A k \in 1 .. Len(q) : k = 1 \/ k = 2
      BY <2>2
    <2>4. DataAt(q) = {}
      BY <2>1, <2>2, <2>3 DEF DataAt, DataKinds, ControlKinds
    <2>. QED  BY <2>2, <2>4 DEF q, f, g
  <1>5. opening \in Seq(StageSet(s)) /\ DataAt(opening) = {}
    <2>2. /\ ClusterOpening(s) = Two("ready", "go", ToController(s), FromController(s))
          /\ TwoSidedOpening(s) = Two("start", "answer", FromController(s), ToController(s))
      BY DEF ClusterOpening, TwoSidedOpening
    <2>3. /\ ToController(s) \in SUBSET (Ranks(s) \X Ranks(s))
          /\ FromController(s) \in SUBSET (Ranks(s) \X Ranks(s))
      BY <1>2, ZeroIsRank
    <2>. HIDE DEF Two
    <2>4. /\ ClusterOpening(s) \in Seq(StageSet(s)) /\ DataAt(ClusterOpening(s)) = {}
          /\ TwoSidedOpening(s) \in Seq(StageSet(s)) /\ DataAt(TwoSidedOpening(s)) = {}
      <3>1. "ready" \in ControlKinds /\ "go" \in ControlKinds /\ "start" \in ControlKinds /\ "answer" \in ControlKinds
        BY DEF ControlKinds
      <3>. DEFINE L == SUBSET (Ranks(s) \X Ranks(s))
      <3>2. \A a, b \in ControlKinds : \A x, y \in L : Two(a, b, x, y) \in Seq(StageSet(s)) /\ DataAt(Two(a, b, x, y)) = {}
        BY <1>4
      <3>3. ToController(s) \in L /\ FromController(s) \in L
        BY <2>3
      <3>. HIDE DEF L
      <3>4. /\ Two("ready", "go", ToController(s), FromController(s)) \in Seq(StageSet(s))
            /\ DataAt(Two("ready", "go", ToController(s), FromController(s))) = {}
            /\ Two("start", "answer", FromController(s), ToController(s)) \in Seq(StageSet(s))
            /\ DataAt(Two("start", "answer", FromController(s), ToController(s))) = {}
        BY <3>1, <3>2, <3>3
      <3>. QED  BY <2>2, <3>4
    <2>. QED  BY <2>4
  <1>6. end \in Seq(StageSet(s)) /\ DataAt(end) = {}
    <2>. DEFINE f == Stage("results", Control, 0, 0, ToController(s))
    <2>1. f \in StageSet(s) /\ f.kind = "results"
      BY <1>2, <1>3, ZeroIsRank DEF Kinds, Stage
    <2>. HIDE DEF f
    <2>2. <<f>> \in Seq(StageSet(s)) /\ Len(<<f>>) = 1 /\ <<f>>[1] = f
      BY <2>1
    <2>3. end = <<f>>
      BY DEF ResultStages, f
    <2>. HIDE DEF end
    <2>4. \A k \in 1 .. Len(end) : k = 1
      BY <2>2, <2>3
    <2>. QED  BY <2>1, <2>2, <2>3, <2>4 DEF DataAt, DataKinds
  <1>. HIDE DEF opening, rounds, end
  <1>7. Parted(s, opening) /\ Parted(s, end)
    BY <1>5, <1>6 DEF Parted
  <1>8. Parted(s, opening \o rounds) /\ opening \o rounds \in Seq(StageSet(s))
    BY <1>2, <1>5, <1>7, PartedConcat, ConcatProperties
  <1>. DEFINE q == opening \o rounds
  <1>. HIDE DEF q
  <1>9. Parted(s, q \o end)
    BY <1>6, <1>7, <1>8, PartedConcat DEF q
  <1>. QED  BY <1>1, <1>9 DEF q

LEMMA PlanApart ==
  ASSUME NEW s \in Settings, SizesApart(s)
  PROVE  DataApart(s, Plan[s])
  <1>1. Valid(s) /\ ValidTopology(s)
    BY ClusterAssumption DEF Valid
  <1>2. Plan[s] = PlanOf(s)
    BY DEF Plan
  <1>. QED  BY <1>1, <1>2, PlanShape, PlanParted, PartedIsApart

\* Where tags tell the stages apart (SizesApart), a rank never takes a message of
\* another step, round, size or collective for the one it waits for, however far
\* ranks run ahead of each other, messages overtake, and ranks fail.
THEOREM TagsTellApart ==
  ASSUME \A s \in Settings : SizesApart(s)
  PROVE  Spec => []TakenInPhase
  <1>1. StagesInv /\ Held => TakenInPhase
    <2>1. ASSUME StagesInv, Held PROVE TakenInPhase
      <3>1. setting \in Settings
        BY <2>1 DEF StagesInv, PlaceInv
      <3>2. DataApart(setting, Stages)
        BY <3>1, PlanApart DEF Stages
      <3>. QED  BY <2>1, <3>2, TakenThere
    <2>. QED  BY <2>1
  <1>. QED  BY <1>1, HeldKept, PTL

\* Some stage of a piece tells everyone what rank 0 knows.
Relays(s, p) ==
    \/ \E k \in 1 .. Len(p) : p[k].links = FromRank(s, 0)
    \/ \E m, l \in Nat : Mix(s, p, m, l)

LEMMA RelayMoved ==
  ASSUME NEW s, NEW p, NEW q, NEW d, Inside(p, q, d), Relays(s, p)
  PROVE  Relays(s, q)
  <1>1. CASE \E k \in 1 .. Len(p) : p[k].links = FromRank(s, 0)
    BY <1>1 DEF Relays, Inside
  <1>2. CASE \E m, l \in Nat : Mix(s, p, m, l)
    BY <1>2, MixMoved DEF Relays
  <1>. QED  BY <1>1, <1>2 DEF Relays

LEMMA RelayFlatten ==
  ASSUME NEW s, NEW S, NEW ss \in Seq(Seq(S)), NEW a \in 1 .. Len(ss), Relays(s, ss[a])
  PROVE  Relays(s, FlattenSeq(ss))
  <1>1. \E d : Inside(ss[a], FlattenSeq(ss), d)
    BY FlattenInside
  <1>. QED  BY <1>1, RelayMoved

LEMMA BarrierRelays ==
  ASSUME NEW s, NEW t
  PROVE  Relays(s, BarrierStages(s, t)) /\ BarrierStages(s, t)[2].links = FromRank(s, 0)
  <1>. DEFINE a == Stage("arrive", t, 0, 0, ToRank(s, 0))
              b == Stage("release", t, 0, 0, FromRank(s, 0))
              p == BarrierStages(s, t)
  <1>1. p = <<a, b>> /\ b.links = FromRank(s, 0)
    BY DEF BarrierStages, Stage
  <1>. HIDE DEF a, b, p
  <1>2. Len(p) = 2 /\ p[2] = b
    BY <1>1
  <1>3. 2 \in 1 .. Len(p)
    BY <1>2
  <1>4. Relays(s, p)
    BY <1>1, <1>2, <1>3 DEF Relays
  <1>. QED  BY <1>1, <1>2, <1>4 DEF p

LEMMA BroadcastRelays ==
  ASSUME NEW s, s.root = 0, NEW size, NEW i
  PROVE  Relays(s, BroadcastStages(s, size, i))
  <1>. DEFINE t == Tagged("broadcast", i, 0)
              a == Stage("broadcast", t, size, 0, FromRank(s, 0))
              p == BroadcastStages(s, size, i)
  <1>. HIDE DEF t
  <1>1. p = <<a>> /\ a.links = FromRank(s, 0)
    BY DEF BroadcastStages, Stage, t
  <1>. HIDE DEF a, p
  <1>2. Len(p) = 1 /\ p[1] = a
    BY <1>1
  <1>3. 1 \in 1 .. Len(p)
    BY <1>2
  <1>4. Relays(s, p)
    BY <1>1, <1>2, <1>3 DEF Relays
  <1>. QED  BY <1>4 DEF p

LEMMA TurnRelays ==
  ASSUME NEW s, ValidTopology(s), NEW p, NEW kind, NEW c, NEW number, Turn(s, p, kind, c, number)
  PROVE  Relays(s, p)
  <1>1. 1 \in Nat /\ s.world - 1 \in Nat /\ Mix(s, p, 1, s.world - 1)
    BY DEF ValidTopology, Turn
  <1>. QED  BY <1>1 DEF Relays

LEMMA BlockRelays ==
  ASSUME NEW s, ValidTopology(s), NEW size \in Int, NEW i \in Nat, NEW first \in Int
  PROVE  Relays(s, BlockStages(s, size, i, first))
  <1>. DEFINE from == first + (s.world - 1)
              a == Steps(s, "reduce", "ring_allreduce", size, i, first)
              b == Steps(s, "share", "ring_allreduce", size, i, from)
  <1>1. BlockStages(s, size, i, first) = a \o b
    BY DEF BlockStages, Tagged, Steps
  <1>2. from \in Int
    BY DEF ValidTopology
  <1>. HIDE DEF from
  <1>3. /\ "reduce" \in {"pass", "reduce", "share"} /\ "share" \in {"pass", "reduce", "share"}
        /\ "ring_allreduce" \in {"allgather", "ring_allreduce"}
    OBVIOUS
  <1>4. Turn(s, a, "reduce", "ring_allreduce", 256 * i + first)
    BY <1>3, StepsMix
  <1>5. a \in Seq(StageSet(s)) /\ b \in Seq(StageSet(s))
    BY <1>2, <1>3, StepsShape DEF WellShaped
  <1>. HIDE DEF a, b
  <1>6. Relays(s, a)
    BY <1>4, TurnRelays
  <1>7. Inside(a, a \o b, 0)
    BY <1>5, ConcatInside
  <1>. QED  BY <1>1, <1>6, <1>7, RelayMoved

\* A shard has at least one block, and a ring exchange at least one phase.
LEMMA AllreduceRelays ==
  ASSUME NEW s, ValidTopology(s), s.block \in Nat, NEW size \in Nat, size >= s.world, NEW i \in Nat
  PROVE  Relays(s, AllreduceStages(s, size, i))
  <1>. DEFINE shard == size \div s.world
              block == IF s.block = 0 THEN shard ELSE LeastOf(s.block, shard)
              blocks == (shard + block - 1) \div block
              B(b) == BlockStages(s, LeastOf(block, shard - (b - 1) * block), i, (b - 1) * 2 * (s.world - 1))
              ss == [b \in 1 .. blocks |-> B(b)]
              T == Seq(StageSet(s))
  <1>1. s.world \in Nat /\ s.world >= 2
    BY DEF ValidTopology
  <1>2. shard \in Nat /\ shard >= 1
    BY <1>1
  <1>. HIDE DEF shard
  <1>3. block \in Nat /\ block >= 1
    BY <1>2 DEF LeastOf
  <1>. HIDE DEF block
  <1>4. blocks \in Nat /\ blocks >= 1
    BY <1>2, <1>3
  <1>. HIDE DEF blocks
  <1>5. \A b \in Int : B(b) \in T /\ Relays(s, B(b))
    <2>. SUFFICES ASSUME NEW b \in Int PROVE B(b) \in T /\ Relays(s, B(b))
      OBVIOUS
    <2>. DEFINE x == LeastOf(block, shard - (b - 1) * block)
                y == (b - 1) * 2 * (s.world - 1)
    <2>1. x \in Int
      BY <1>2, <1>3 DEF LeastOf
    <2>2. y \in Int
      BY <1>1
    <2>. HIDE DEF x, y
    <2>3. BlockStages(s, x, i, y) \in T /\ Relays(s, BlockStages(s, x, i, y))
      BY <2>1, <2>2, BlockShape, BlockRelays DEF WellShaped
    <2>. QED  BY <2>3 DEF x, y
  <1>. HIDE DEF B, T
  <1>6. ss \in Seq(T) /\ 1 \in 1 .. Len(ss) /\ ss[1] = B(1)
    BY <1>4, <1>5
  <1>. HIDE DEF ss
  <1>7. Relays(s, FlattenSeq(ss))
    BY <1>5, <1>6, RelayFlatten DEF T
  <1>. QED  BY <1>7 DEF AllreduceStages, ss, B, blocks, block, shard

LEMMA RingExchangeRelays ==
  ASSUME NEW s, ValidTopology(s), s.concurrency \in 1 .. s.world, NEW size \in Int, NEW i \in Nat
  PROVE  Relays(s, RingExchangeStages(s, size, i))
  <1>. DEFINE Ph(p) == Phase(s, size, i, p)
              phases == (s.world + s.concurrency - 1) \div s.concurrency
              ss == [n \in 1 .. phases |-> Ph(n - 1)]
              T == Seq(StageSet(s))
  <1>1. \A p \in Nat : Ph(p) \in T /\ Relays(s, Ph(p))
    <2>. SUFFICES ASSUME NEW p \in Nat PROVE Ph(p) \in T /\ Relays(s, Ph(p))
      OBVIOUS
    <2>1. Ph(p) \in WellShaped(s)
      BY PhaseShape DEF Phase
    <2>. DEFINE st == Stage("exchange", Tagged("ring_exchange", i, 2 * p), size, 0, Around(s, Active(s, p)))
                b == BarrierStages(s, Tagged("ring_exchange", i, 2 * p + 1))
                a == <<st>>
                q == a \o b
    <2>2. Ph(p) = q /\ Relays(s, b)
      BY BarrierRelays DEF Phase
    <2>3. Len(a) = 1 /\ Len(b) = 2
      BY DEF BarrierStages
    <2>4. Inside(b, q, 1)
      <3>. DEFINE U == {st, b[1], b[2]}
      <3>1. b \in Seq(U) /\ a \in Seq(U)
        BY DEF BarrierStages
      <3>. HIDE DEF U, a, b
      <3>2. Inside(b, q, Len(a))
        BY <3>1, ConcatInside
      <3>. QED  BY <2>3, <3>2
    <2>. HIDE DEF a, b, q, Ph
    <2>. QED  BY <2>1, <2>2, <2>4, RelayMoved DEF WellShaped
  <1>. HIDE DEF Ph
  <1>2. phases \in Nat /\ phases >= 1
    <2>1. s.world \in Nat /\ s.world >= 2 /\ s.concurrency \in Nat /\ s.concurrency >= 1
      BY DEF ValidTopology
    <2>. QED  BY <2>1
  <1>. HIDE DEF phases, T
  <1>3. \A n \in 1 .. phases : Ph(n - 1) \in T /\ Relays(s, Ph(n - 1))
    BY <1>1, <1>2
  <1>4. ss \in Seq(T) /\ 1 \in 1 .. Len(ss) /\ Relays(s, ss[1])
    BY <1>2, <1>3
  <1>. HIDE DEF ss
  <1>5. Relays(s, FlattenSeq(ss))
    BY <1>4, RelayFlatten DEF T
  <1>. QED  BY <1>5 DEF RingExchangeStages, Ph, Phase, phases, ss

LEMMA CollectiveRelays ==
  ASSUME NEW s, Valid(s), NEW c \in Collectives, s.root = 0 \/ c # "broadcast",
         NEW size \in Nat, NEW i \in Nat, c = "ring_allreduce" => size >= s.world
  PROVE  Relays(s, CollectiveStages(s, c, size, i))
  <1>1. ValidTopology(s) /\ s.concurrency \in 1 .. s.world /\ s.block \in Nat /\ size \in Int
    BY DEF Valid, ValidRounds
  <1>2. CASE c = "barrier"
    BY <1>2, BarrierRelays DEF CollectiveStages
  <1>3. CASE c = "broadcast"
    BY <1>3, BroadcastRelays DEF CollectiveStages
  <1>4. CASE c = "allgather"
    <2>. DEFINE from == 0
    <2>1. "pass" \in {"pass", "reduce", "share"} /\ "allgather" \in {"allgather", "ring_allreduce"} /\ from \in Int
      OBVIOUS
    <2>2. CollectiveStages(s, c, size, i) = Steps(s, "pass", "allgather", size, i, from)
      BY <1>4 DEF CollectiveStages, AllgatherStages, Tagged, Steps
    <2>. HIDE DEF from
    <2>3. Turn(s, Steps(s, "pass", "allgather", size, i, from), "pass", "allgather", 256 * i + from)
      BY <1>1, <2>1, StepsMix
    <2>. QED  BY <1>1, <2>2, <2>3, TurnRelays
  <1>5. CASE c = "ring_allreduce"
    BY <1>1, <1>5, AllreduceRelays DEF CollectiveStages
  <1>6. CASE c = "ring_exchange"
    BY <1>1, <1>6, RingExchangeRelays DEF CollectiveStages
  <1>7. CASE c = "all_to_all_exchange"
    <2>1. Mix(s, CollectiveStages(s, "all_to_all_exchange", size, i), 1, 1)
      BY OneStage
    <2>. QED  BY <1>7, <2>1 DEF Relays
  <1>. QED  BY <1>2, <1>3, <1>4, <1>5, <1>6, <1>7 DEF Collectives

LEMMA SizesType ==
  ASSUME NEW s, Valid(s), NEW j \in 1 .. Len(s.collectives)
  PROVE  FlattenSeq(ForSizes(s, s.collectives[j])) \in Seq(StageSet(s))
  <1>. DEFINE T == Seq(StageSet(s))
              c == s.collectives[j]
              Sizes == IF c = "barrier" THEN <<0>> ELSE s.sizes
              P(k) == FlattenSeq(Iterations(s, c, Sizes[k]))
  <1>1. c \in Collectives /\ Len(Sizes) \in Nat /\ \A k \in 1 .. Len(Sizes) : Sizes[k] \in Nat
    <2>1. c \in Collectives /\ s.sizes \in Seq(Nat \ {0})
      BY DEF Valid, ValidRounds
    <2>2. CASE c = "barrier"
      BY <2>1, <2>2
    <2>3. CASE c # "barrier"
      BY <2>1, <2>3
    <2>. QED  BY <2>2, <2>3
  <1>2. \A k \in 1 .. Len(Sizes) : c = "ring_allreduce" => Sizes[k] >= s.world
    BY SizeFits DEF Fits
  <1>3. ForSizes(s, c) = [k \in 1 .. Len(Sizes) |-> P(k)]
    BY DEF ForSizes
  <1>. HIDE DEF Sizes, c
  <1>4. \A k \in 1 .. Len(Sizes) : P(k) \in T
    <2>. TAKE k \in 1 .. Len(Sizes)
    <2>. QED  BY <1>1, <1>2, IterationsType
  <1>. HIDE DEF P, T
  <1>5. ForSizes(s, c) \in Seq(T)
    BY <1>1, <1>3, <1>4
  <1>6. <<>> \in T /\ \A a, b \in T : a \o b \in T
    BY ConcatProperties DEF T
  <1>7. FlattenSeq(ForSizes(s, c)) \in T
    BY <1>5, <1>6, Flattened
  <1>. QED  BY <1>7 DEF c, T

LEMMA InsideTwice ==
  ASSUME NEW p, NEW q, NEW t, NEW d, NEW e, Inside(p, q, d), Inside(q, t, e)
  PROVE  Inside(p, t, e + d)
  <1>1. /\ d \in Nat /\ e \in Nat /\ e + d \in Nat /\ Len(p) \in Nat /\ Len(q) \in Nat /\ Len(t) \in Nat
        /\ \A k \in 1 .. Len(p) : d + k \in 1 .. Len(q) /\ q[d + k] = p[k]
        /\ \A k \in 1 .. Len(q) : e + k \in 1 .. Len(t) /\ t[e + k] = q[k]
    BY DEF Inside
  <1>2. ASSUME NEW k \in 1 .. Len(p)
        PROVE  (e + d) + k \in 1 .. Len(t) /\ t[(e + d) + k] = p[k]
    <2>1. d + k \in 1 .. Len(q) /\ q[d + k] = p[k]
      BY <1>1
    <2>2. e + (d + k) \in 1 .. Len(t) /\ t[e + (d + k)] = q[d + k]
      BY <1>1, <2>1
    <2>3. e + (d + k) = (e + d) + k
      BY <1>1
    <2>. QED  BY <2>1, <2>2, <2>3
  <1>. QED  BY <1>1, <1>2 DEF Inside

\* A run has a round, a size and a collective at least.
LEMMA RoundsContain ==
  ASSUME NEW s, Valid(s), NEW j \in 1 .. Len(s.collectives)
  PROVE  /\ s.collectives[j] \in Collectives
         /\ \E z \in Nat : \E d : /\ s.collectives[j] = "ring_allreduce" => z >= s.world
                                  /\ Inside(CollectiveStages(s, s.collectives[j], z, 0), RoundStages(s), d)
  <1>. DEFINE n == Len(s.collectives)
              F(k) == FlattenSeq(ForSizes(s, s.collectives[k]))
              all == [k \in 1 .. n |-> F(k)]
              T == Seq(StageSet(s))
              c == s.collectives[j]
              Sizes == IF c = "barrier" THEN <<0>> ELSE s.sizes
              P(k) == FlattenSeq(Iterations(s, c, Sizes[k]))
  <1>1. /\ s.rounds \in Nat /\ s.rounds >= 1 /\ n \in Nat /\ s.sizes \in Seq(Nat \ {0}) /\ Len(s.sizes) >= 1
        /\ \A k \in 1 .. n : s.collectives[k] \in Collectives
    <2>1. s.collectives \in Seq(Collectives) /\ s.sizes \in Seq(Nat \ {0}) /\ s.sizes # <<>>
      BY DEF Valid, ValidRounds
    <2>2. Len(s.sizes) # 0
      BY <2>1, EmptySeq
    <2>. QED  BY <2>1, <2>2 DEF Valid, ValidRounds
  <1>3. c \in Collectives /\ Len(Sizes) >= 1 /\ Len(Sizes) \in Nat /\ \A k \in 1 .. Len(Sizes) : Sizes[k] \in Nat
    <2>1. CASE c = "barrier"
      BY <1>1, <2>1
    <2>2. CASE c # "barrier"
      BY <2>2, <1>1
    <2>. QED  BY <2>1, <2>2
  <1>4. \A k \in 1 .. Len(Sizes) : c = "ring_allreduce" => Sizes[k] >= s.world
    BY SizeFits DEF Fits
  <1>5. ForSizes(s, c) = [k \in 1 .. Len(Sizes) |-> P(k)]
    BY DEF ForSizes
  <1>. HIDE DEF Sizes, c
  <1>6. ASSUME NEW k \in 1 .. Len(Sizes)
        PROVE  P(k) \in T /\ \E d : Inside(CollectiveStages(s, c, Sizes[k], 0), P(k), d)
    <2>. DEFINE ss == Iterations(s, c, Sizes[k])
    <2>1. /\ ss \in Seq(T) /\ Len(ss) = s.rounds /\ FlattenSeq(ss) \in T
          /\ \A a \in 1 .. s.rounds : ss[a] = CollectiveStages(s, c, Sizes[k], a - 1) /\ a - 1 \in Nat
      BY <1>3, <1>4, IterationsType
    <2>. HIDE DEF ss
    <2>2. 1 \in 1 .. Len(ss) /\ ss[1] = CollectiveStages(s, c, Sizes[k], 0)
      <3>1. 1 \in 1 .. s.rounds /\ 1 - 1 = 0
        BY <1>1
      <3>. QED  BY <2>1, <3>1
    <2>3. \E d : Inside(ss[1], FlattenSeq(ss), d)
      BY <2>1, <2>2, FlattenInside DEF T
    <2>. QED  BY <2>1, <2>2, <2>3 DEF ss
  <1>. HIDE DEF P
  <1>7. ForSizes(s, c) \in Seq(T) /\ 1 \in 1 .. Len(ForSizes(s, c)) /\ ForSizes(s, c)[1] = P(1) /\ 1 \in 1 .. Len(Sizes)
    <2>. HIDE DEF T
    <2>. QED  BY <1>3, <1>5, <1>6
  <1>8. PICK e : Inside(P(1), F(j), e)
    BY <1>7, FlattenInside DEF T, c
  <1>9. ASSUME NEW k \in 1 .. n
        PROVE  F(k) \in T
    BY SizesType
  <1>. HIDE DEF F, T
  <1>10. all \in Seq(T) /\ j \in 1 .. Len(all) /\ all[j] = F(j)
    BY <1>1, <1>9
  <1>. HIDE DEF all
  <1>11. PICK f : Inside(F(j), FlattenSeq(all), f)
    BY <1>10, FlattenInside DEF T
  <1>12. PICK d : Inside(CollectiveStages(s, c, Sizes[1], 0), P(1), d)
    BY <1>6, <1>7
  <1>13. Inside(CollectiveStages(s, c, Sizes[1], 0), FlattenSeq(all), f + (e + d))
    BY <1>8, <1>11, <1>12, InsideTwice
  <1>14. FlattenSeq(all) = RoundStages(s)
    BY DEF RoundStages, ForSizes, Iterations, all, F
  <1>. QED  BY <1>3, <1>4, <1>7, <1>13, <1>14 DEF c

LEMMA RoundsRelay ==
  ASSUME NEW s, Valid(s), s.root = 0 \/ \E k \in 1 .. Len(s.collectives) : s.collectives[k] # "broadcast"
  PROVE  Relays(s, RoundStages(s))
  <1>1. s.collectives \in Seq(Collectives) /\ s.collectives # <<>>
    BY DEF Valid, ValidRounds
  <1>2. 1 \in 1 .. Len(s.collectives)
    <2>1. Len(s.collectives) # 0
      BY <1>1, EmptySeq
    <2>. QED  BY <1>1, <2>1
  <1>3. PICK j \in 1 .. Len(s.collectives) : s.root = 0 \/ s.collectives[j] # "broadcast"
    BY <1>2
  <1>4. PICK z \in Nat : \E d : /\ s.collectives[j] = "ring_allreduce" => z >= s.world
                                /\ Inside(CollectiveStages(s, s.collectives[j], z, 0), RoundStages(s), d)
    BY RoundsContain
  <1>5. Relays(s, CollectiveStages(s, s.collectives[j], z, 0))
    <2>1. s.collectives[j] \in Collectives /\ 0 \in Nat
      BY RoundsContain
    <2>. QED  BY <1>3, <1>4, <2>1, CollectiveRelays
  <1>. QED  BY <1>4, <1>5, RelayMoved

---------------------------------------------------------------------------
(* Steps around the ring follow each other                                 *)

RingKinds == {"pass", "reduce", "share"}

\* A step around the ring comes right after the one before it, and the second
\* half of a block of an allreduce right after the first.
InTurn(s, p, k) ==
    p[k].kind \in RingKinds =>
        /\ p[k].links = Around(s, Ranks(s)) /\ p[k].step \in 0 .. s.world - 2
        /\ p[k].step > 0 =>
            k - 1 \in 1 .. Len(p) /\ p[k - 1].kind = p[k].kind /\ p[k - 1].step = p[k].step - 1
        /\ p[k].kind = "share" /\ p[k].step = 0 =>
            k - 1 \in 1 .. Len(p) /\ p[k - 1].kind = "reduce" /\ p[k - 1].step = s.world - 2

Turned(s) ==
    {p \in Seq(StageSet(s)) : \A k \in 1 .. Len(p) : p[k].kind \notin ControlKinds /\ InTurn(s, p, k)}

LEMMA TurnMoved ==
  ASSUME NEW s, NEW p, NEW q, NEW d, Inside(p, q, d), NEW k \in 1 .. Len(p), InTurn(s, p, k)
  PROVE  InTurn(s, q, d + k)
  <1>1. d \in Nat /\ Len(p) \in Nat /\ \A j \in 1 .. Len(p) : d + j \in 1 .. Len(q) /\ q[d + j] = p[j]
    BY DEF Inside
  <1>2. q[d + k] = p[k] /\ (d + k) - 1 = d + (k - 1)
    BY <1>1
  <1>3. k - 1 \in 1 .. Len(p) => (d + k) - 1 \in 1 .. Len(q) /\ q[(d + k) - 1] = p[k - 1]
    BY <1>1, <1>2
  <1>. QED  BY <1>2, <1>3 DEF InTurn

LEMMA TurnedConcat ==
  ASSUME NEW s, NEW a \in Turned(s), NEW b \in Turned(s)
  PROVE  a \o b \in Turned(s)
  <1>. DEFINE c == a \o b
  <1>1. a \in Seq(StageSet(s)) /\ b \in Seq(StageSet(s))
    BY DEF Turned
  <1>2. /\ c \in Seq(StageSet(s)) /\ Inside(a, c, 0) /\ Inside(b, c, Len(a))
        /\ \A k \in 1 .. Len(c) : k \in 1 .. Len(a) \/ (k - Len(a) \in 1 .. Len(b) /\ k > Len(a))
    BY <1>1, ConcatInside
  <1>. HIDE DEF c
  <1>3. ASSUME NEW k \in 1 .. Len(c)
        PROVE  c[k].kind \notin ControlKinds /\ InTurn(s, c, k)
    <2>1. Len(c) \in Nat /\ Len(a) \in Nat /\ k \in Int
      BY <1>2 DEF Inside
    <2>2. CASE k \in 1 .. Len(a)
      <3>1. c[0 + k] = a[k] /\ 0 + k = k
        BY <1>2, <2>1, <2>2 DEF Inside
      <3>2. a[k].kind \notin ControlKinds /\ InTurn(s, a, k)
        BY <2>2 DEF Turned
      <3>3. InTurn(s, c, 0 + k)
        BY <1>2, <2>2, <3>2, TurnMoved
      <3>. QED  BY <3>1, <3>2, <3>3
    <2>3. CASE k - Len(a) \in 1 .. Len(b)
      <3>. DEFINE h == k - Len(a)
      <3>1. c[Len(a) + h] = b[h] /\ Len(a) + h = k
        BY <1>2, <2>1, <2>3 DEF Inside
      <3>2. h \in 1 .. Len(b) /\ b[h].kind \notin ControlKinds /\ InTurn(s, b, h)
        BY <2>3 DEF Turned
      <3>. HIDE DEF h
      <3>3. InTurn(s, c, Len(a) + h)
        BY <1>2, <3>2, TurnMoved
      <3>. QED  BY <3>1, <3>2, <3>3
    <2>. QED  BY <1>2, <2>2, <2>3
  <1>. QED  BY <1>2, <1>3 DEF Turned, c

LEMMA TurnedEmpty ==
  ASSUME NEW s
  PROVE  <<>> \in Turned(s)
  BY DEF Turned

\* Stages that are no steps around the ring.
LEMMA EvenTurned ==
  ASSUME NEW s, NEW p \in Seq(StageSet(s)),
         \A k \in 1 .. Len(p) : p[k].kind \notin ControlKinds /\ p[k].kind \notin RingKinds
  PROVE  p \in Turned(s)
  BY DEF Turned, InTurn

LEMMA OneTurned ==
  ASSUME NEW s, NEW kind \in Kinds \ (ControlKinds \cup RingKinds), NEW c \in Collectives, NEW n \in Int,
         NEW size \in Int, NEW links \in SUBSET (Ranks(s) \X Ranks(s))
  PROVE  <<Stage(kind, <<c, n>>, size, 0, links)>> \in Turned(s)
  <1>. DEFINE st == Stage(kind, <<c, n>>, size, 0, links)
              p == <<st>>
  <1>1. st \in StageSet(s) /\ st.kind = kind
    <2>1. kind \in Kinds /\ c \in Collectives \cup {"control"} /\ 0 \in Int
      OBVIOUS
    <2>. QED  BY <2>1, StageType DEF Stage
  <1>. HIDE DEF st
  <1>2. p \in Seq(StageSet(s)) /\ Len(p) = 1 /\ p[1] = st
    BY <1>1
  <1>. HIDE DEF p
  <1>3. \A k \in 1 .. Len(p) : k = 1
    BY <1>2
  <1>4. \A k \in 1 .. Len(p) : p[k].kind \notin ControlKinds /\ p[k].kind \notin RingKinds
    BY <1>1, <1>2, <1>3
  <1>5. p \in Turned(s)
    BY <1>2, <1>4, EvenTurned
  <1>. QED  BY <1>5 DEF p, st

LEMMA BarrierTurned ==
  ASSUME NEW s, ValidTopology(s), NEW c \in Collectives, NEW n \in Int, BarrierTag(<<c, n>>)
  PROVE  BarrierStages(s, <<c, n>>) \in Turned(s)
  <1>. DEFINE p == BarrierStages(s, <<c, n>>)
  <1>1. p \in Seq(StageSet(s)) /\ Len(p) = 2
    BY BarrierShape DEF WellShaped
  <1>2. p[1].kind = "arrive" /\ p[2].kind = "release"
    BY DEF BarrierStages, Stage
  <1>. HIDE DEF p
  <1>3. \A k \in 1 .. Len(p) : k = 1 \/ k = 2
    BY <1>1
  <1>4. \A k \in 1 .. Len(p) : p[k].kind \notin ControlKinds /\ p[k].kind \notin RingKinds
    BY <1>2, <1>3 DEF ControlKinds, RingKinds
  <1>5. p \in Turned(s)
    BY <1>1, <1>4, EvenTurned
  <1>. QED  BY <1>5 DEF p

LEMMA PhaseTurned ==
  ASSUME NEW s, ValidTopology(s), s.concurrency \in 1 .. s.world, NEW p \in Nat, NEW size \in Int, NEW i \in Nat
  PROVE  Phase(s, size, i, p) \in Turned(s)
  <1>. DEFINE n == 256 * i + 2 * p
              m == 256 * i + (2 * p + 1)
              links == Around(s, Active(s, p))
              a == <<Stage("exchange", <<"ring_exchange", n>>, size, 0, links)>>
              b == BarrierStages(s, <<"ring_exchange", m>>)
  <1>1. n \in Int /\ m \in Int /\ BarrierTag(<<"ring_exchange", m>>)
    BY DEF BarrierTag
  <1>2. Phase(s, size, i, p) = a \o b
    BY DEF Phase, Tagged
  <1>3. links \in SUBSET (Ranks(s) \X Ranks(s))
    BY PhaseLinks
  <1>. HIDE DEF n, m, links
  <1>4. "ring_exchange" \in Collectives /\ "exchange" \in Kinds \ (ControlKinds \cup RingKinds)
    BY DEF Collectives, Kinds, ControlKinds, RingKinds
  <1>5. a \in Turned(s) /\ b \in Turned(s)
    BY <1>1, <1>3, <1>4, OneTurned, BarrierTurned
  <1>. HIDE DEF a, b
  <1>. QED  BY <1>2, <1>5, TurnedConcat

\* The steps of one turn around the ring.
Walk(s, p, kind) ==
    /\ p \in Seq(StageSet(s)) /\ Len(p) = s.world - 1
    /\ \A k \in 1 .. s.world - 1 : p[k].kind = kind /\ p[k].step = k - 1 /\ p[k].links = Around(s, Ranks(s))

LEMMA StepsAre ==
  ASSUME NEW s, ValidTopology(s), NEW kind \in RingKinds,
         NEW c \in {"allgather", "ring_allreduce"}, NEW size \in Int, NEW i \in Nat, NEW from \in Int
  PROVE  Walk(s, Steps(s, kind, c, size, i, from), kind)
  <1>. DEFINE links == Around(s, Ranks(s))
              St(n) == Stage(kind, <<c, 256 * i + (from + n - 1)>>, size, n - 1, links)
              p == Steps(s, kind, c, size, i, from)
              f == [n \in 1 .. s.world - 1 |-> St(n)]
  <1>1. p \in Seq(StageSet(s))
    BY StepsShape DEF WellShaped, RingKinds
  <1>2. s.world - 1 \in Nat
    BY DEF ValidTopology
  <1>3. p = f
    BY DEF Steps
  <1>4. \A n \in 1 .. s.world - 1 : St(n).kind = kind /\ St(n).links = links /\ St(n).step = n - 1
    BY DEF Stage
  <1>5. Len(f) = s.world - 1 /\ \A n \in 1 .. s.world - 1 : f[n] = St(n)
    BY <1>2
  <1>. HIDE DEF St, links, f
  <1>6. Len(p) = s.world - 1 /\ \A k \in 1 .. s.world - 1 : p[k] = St(k)
    BY <1>3, <1>5
  <1>. HIDE DEF p
  <1>. QED  BY <1>1, <1>4, <1>6 DEF p, links, Walk

LEMMA PassTurned ==
  ASSUME NEW s, ValidTopology(s), NEW size \in Int, NEW i \in Nat
  PROVE  AllgatherStages(s, size, i) \in Turned(s)
  <1>. DEFINE from == 0
              p == Steps(s, "pass", "allgather", size, i, from)
  <1>1. AllgatherStages(s, size, i) = p
    BY DEF AllgatherStages, Tagged, Steps
  <1>2. "pass" \in RingKinds /\ "allgather" \in {"allgather", "ring_allreduce"} /\ from \in Int
    BY DEF RingKinds
  <1>. HIDE DEF from
  <1>3. /\ p \in Seq(StageSet(s)) /\ Len(p) = s.world - 1 /\ s.world - 1 \in Nat
        /\ \A k \in 1 .. s.world - 1 :
                p[k].kind = "pass" /\ p[k].step = k - 1 /\ p[k].links = Around(s, Ranks(s))
    <2>1. Walk(s, p, "pass")
      BY <1>2, StepsAre
    <2>. HIDE DEF p
    <2>. QED  BY <2>1 DEF Walk, ValidTopology
  <1>. HIDE DEF p
  <1>4. ASSUME NEW k \in 1 .. Len(p)
        PROVE  p[k].kind \notin ControlKinds /\ InTurn(s, p, k)
    <2>1. k \in 1 .. s.world - 1 /\ k - 1 \in 0 .. s.world - 2 /\ s.world \in Int
      BY <1>3 DEF ValidTopology
    <2>2. k - 1 > 0 => k - 1 \in 1 .. s.world - 1
      BY <2>1
    <2>. QED  BY <1>3, <2>1, <2>2 DEF InTurn, ControlKinds
  <1>. QED  BY <1>1, <1>3, <1>4 DEF Turned

LEMMA BlockTurned ==
  ASSUME NEW s, ValidTopology(s), NEW size \in Int, NEW i \in Nat, NEW first \in Int
  PROVE  BlockStages(s, size, i, first) \in Turned(s)
  <1>. DEFINE w == s.world - 1
              from == first + w
              a == Steps(s, "reduce", "ring_allreduce", size, i, first)
              b == Steps(s, "share", "ring_allreduce", size, i, from)
              c == a \o b
  <1>1. BlockStages(s, size, i, first) = c
    BY DEF BlockStages, Tagged, Steps
  <1>2. w \in Nat /\ w >= 1 /\ from \in Int
    BY DEF ValidTopology
  <1>. HIDE DEF from
  <1>3. /\ "reduce" \in RingKinds /\ "share" \in RingKinds /\ "ring_allreduce" \in {"allgather", "ring_allreduce"}
    BY DEF RingKinds
  <1>4. /\ a \in Seq(StageSet(s)) /\ Len(a) = w
        /\ \A k \in 1 .. w : a[k].kind = "reduce" /\ a[k].step = k - 1 /\ a[k].links = Around(s, Ranks(s))
    <2>1. Walk(s, a, "reduce")
      BY <1>2, <1>3, StepsAre
    <2>. HIDE DEF a
    <2>. QED  BY <2>1 DEF Walk
  <1>5. /\ b \in Seq(StageSet(s)) /\ Len(b) = w
        /\ \A k \in 1 .. w : b[k].kind = "share" /\ b[k].step = k - 1 /\ b[k].links = Around(s, Ranks(s))
    <2>1. Walk(s, b, "share")
      BY <1>2, <1>3, StepsAre
    <2>. HIDE DEF b
    <2>. QED  BY <2>1 DEF Walk
  <1>. HIDE DEF a, b
  <1>6. /\ c \in Seq(StageSet(s)) /\ Len(c) = w + w
        /\ \A k \in 1 .. w + w : c[k] = IF k <= w THEN a[k] ELSE b[k - w]
    <2>0. a \in Seq(StageSet(s)) /\ b \in Seq(StageSet(s))
      BY <1>4, <1>5
    <2>1. /\ c \in Seq(StageSet(s)) /\ Len(c) = Len(a) + Len(b)
          /\ \A k \in 1 .. Len(a) + Len(b) : c[k] = IF k <= Len(a) THEN a[k] ELSE b[k - Len(a)]
      BY <2>0, ConcatProperties
    <2>. HIDE DEF c
    <2>. QED  BY <1>4, <1>5, <2>1
  <1>7. s.world - 2 = w - 1 /\ s.world - 1 = w
    BY DEF ValidTopology
  <1>. HIDE DEF c, w
  <1>8. ASSUME NEW k \in 1 .. w + w
        PROVE  c[k].kind \notin ControlKinds /\ InTurn(s, c, k)
    <2>1. CASE k <= w
      <3>1. c[k] = a[k] /\ k \in 1 .. w /\ k - 1 \in 0 .. w - 1
        BY <1>2, <1>6, <2>1
      <3>2. c[k].kind = "reduce" /\ c[k].step = k - 1 /\ c[k].links = Around(s, Ranks(s))
        BY <1>4, <3>1
      <3>3. ASSUME k - 1 > 0
            PROVE  k - 1 \in 1 .. Len(c) /\ c[k - 1].kind = "reduce" /\ c[k - 1].step = (k - 1) - 1
        <4>. DEFINE j == k - 1
        <4>1. j \in 1 .. w /\ j \in 1 .. w + w /\ j <= w
          BY <1>2, <2>1, <3>3
        <4>. HIDE DEF j
        <4>2. c[j] = a[j]
          BY <1>6, <4>1
        <4>. QED  BY <1>4, <1>6, <4>1, <4>2 DEF j
      <3>. QED  BY <1>7, <3>1, <3>2, <3>3 DEF InTurn, ControlKinds
    <2>2. CASE ~(k <= w)
      <3>. DEFINE h == k - w
      <3>1. c[k] = b[h] /\ h \in 1 .. w /\ h - 1 \in 0 .. w - 1
        BY <1>2, <1>6, <2>2
      <3>2. c[k].kind = "share" /\ c[k].step = h - 1 /\ c[k].links = Around(s, Ranks(s))
        BY <1>5, <3>1
      <3>3. k = w + h
        BY <1>2
      <3>. HIDE DEF h
      <3>4. ASSUME h - 1 > 0
            PROVE  k - 1 \in 1 .. Len(c) /\ c[k - 1].kind = "share" /\ c[k - 1].step = (h - 1) - 1
        <4>. DEFINE j == k - 1
                    g == h - 1
        <4>1. j \in 1 .. w + w /\ ~(j <= w) /\ j - w = g /\ g \in 1 .. w
          BY <1>2, <3>1, <3>3, <3>4
        <4>. HIDE DEF j, g
        <4>2. c[j] = b[g]
          BY <1>6, <4>1
        <4>. QED  BY <1>5, <1>6, <4>1, <4>2 DEF j, g
      <3>5. ASSUME h - 1 = 0
            PROVE  k - 1 \in 1 .. Len(c) /\ c[k - 1].kind = "reduce" /\ c[k - 1].step = w - 1
        <4>1. k - 1 = w /\ w \in 1 .. w + w /\ w \in 1 .. w /\ w <= w
          BY <1>2, <3>1, <3>3, <3>5
        <4>2. c[w] = a[w]
          BY <1>6, <4>1
        <4>. QED  BY <1>4, <1>6, <4>1, <4>2
      <3>. QED  BY <1>7, <3>1, <3>2, <3>4, <3>5 DEF InTurn, ControlKinds
    <2>. QED  BY <2>1, <2>2
  <1>. QED  BY <1>1, <1>6, <1>8 DEF Turned

LEMMA CollectiveTurned ==
  ASSUME NEW s, Valid(s), NEW c \in Collectives, NEW size \in Nat, NEW i \in Nat,
         c = "ring_allreduce" => size >= s.world
  PROVE  CollectiveStages(s, c, size, i) \in Turned(s)
  <1>1. ValidTopology(s) /\ s.root \in Ranks(s) /\ s.concurrency \in 1 .. s.world /\ s.block \in Nat /\ size \in Int
    BY DEF Valid, ValidRounds
  <1>. DEFINE n == 256 * i + 0
              W == Turned(s)
  <1>2. n \in Int /\ BarrierTag(<<"barrier", n>>) /\ \A x \in Collectives : Tagged(x, i, 0) = <<x, n>>
    BY DEF BarrierTag, Tagged
  <1>3. <<>> \in W /\ \A a, b \in W : a \o b \in W
    BY TurnedEmpty, TurnedConcat
  <1>. HIDE DEF n
  <1>4. CASE c = "barrier"
    BY <1>1, <1>2, <1>4, BarrierTurned DEF CollectiveStages
  <1>5. CASE c = "broadcast"
    <2>1. FromRank(s, s.root) \in SUBSET (Ranks(s) \X Ranks(s)) /\ "broadcast" \in Kinds \ (ControlKinds \cup RingKinds)
      BY <1>1 DEF FromRank, Others, Kinds, ControlKinds, RingKinds
    <2>2. <<Stage("broadcast", <<"broadcast", n>>, size, 0, FromRank(s, s.root))>> \in Turned(s)
      BY <1>1, <1>2, <1>5, <2>1, OneTurned
    <2>. QED  BY <1>2, <1>5, <2>2 DEF CollectiveStages, BroadcastStages
  <1>6. CASE c = "allgather"
    BY <1>1, <1>6, PassTurned DEF CollectiveStages
  <1>7. CASE c = "ring_allreduce"
    <2>1. \A x, first \in Int : BlockStages(s, x, i, first) \in W
      BY <1>1, BlockTurned
    <2>. HIDE DEF W
    <2>2. AllreduceStages(s, size, i) \in W
      BY <1>1, <1>3, <1>7, <2>1, AllreduceIn
    <2>. QED  BY <1>7, <2>2 DEF CollectiveStages, W
  <1>8. CASE c = "ring_exchange"
    <2>1. \A p \in Nat : Phase(s, size, i, p) \in W
      BY <1>1, PhaseTurned
    <2>. HIDE DEF W
    <2>2. RingExchangeStages(s, size, i) \in W
      BY <1>1, <1>3, <2>1, RingExchangeIn
    <2>. QED  BY <1>8, <2>2 DEF CollectiveStages, W
  <1>9. CASE c = "all_to_all_exchange"
    <2>. DEFINE all == UNION {FromRank(s, r) : r \in Ranks(s)}
    <2>1. all \in SUBSET (Ranks(s) \X Ranks(s)) /\ "alltoall" \in Kinds \ (ControlKinds \cup RingKinds)
      BY <1>1 DEF FromRank, Others, Kinds, ControlKinds, RingKinds
    <2>. HIDE DEF all
    <2>2. <<Stage("alltoall", <<"all_to_all_exchange", n>>, size, 0, all)>> \in Turned(s)
      BY <1>1, <1>2, <1>9, <2>1, OneTurned
    <2>. QED  BY <1>2, <1>9, <2>2 DEF CollectiveStages, AllToAllStages, all
  <1>. QED  BY <1>4, <1>5, <1>6, <1>7, <1>8, <1>9 DEF Collectives

LEMMA RoundsTurned ==
  ASSUME NEW s, Valid(s)
  PROVE  RoundStages(s) \in Turned(s)
  <1>. DEFINE W == Turned(s)
  <1>1. <<>> \in W /\ \A a, b \in W : a \o b \in W
    BY TurnedEmpty, TurnedConcat
  <1>2. \A c \in Collectives : \A z, i \in Nat :
            (c = "ring_allreduce" => z >= s.world) => CollectiveStages(s, c, z, i) \in W
    BY CollectiveTurned
  <1>. HIDE DEF W
  <1>3. RoundStages(s) \in W
    BY <1>1, <1>2, RoundsIn
  <1>. QED  BY <1>3 DEF W

\* The control stages of a plan are the first two and the last.
PlanParts(s, p) ==
    /\ p \in Seq(StageSet(s)) /\ Len(p) = Len(RoundStages(s)) + 3 /\ Len(RoundStages(s)) \in Nat
    /\ Inside(RoundStages(s), p, 2)
    /\ s.cluster => p[1].links = ToController(s) /\ p[2].links = FromController(s)
    /\ ~s.cluster => /\ p[1].links = FromController(s) /\ p[2].links = ToController(s)
                     /\ p[1].kind # "ready" /\ p[2].kind # "ready"
    /\ p[Len(p)].links = ToController(s)
    /\ \A k \in 1 .. Len(p) : /\ p[k].kind \in ControlKinds <=> (k = 1 \/ k = 2 \/ k = Len(p))
                              /\ InTurn(s, p, k) /\ p[k].kind \in Kinds

LEMMA PlanHasParts ==
  ASSUME NEW s, Valid(s)
  PROVE  PlanParts(s, PlanOf(s))
  <1>. DEFINE opening == IF s.cluster THEN ClusterOpening(s) ELSE TwoSidedOpening(s)
              rounds == RoundStages(s)
              last == Stage("results", Control, 0, 0, ToController(s))
              end == <<last>>
              p == PlanOf(s)
              q == opening \o rounds
              U == StageSet(s) \cup {opening[1], opening[2], last}
  <1>1. p = q \o end
    BY DEF PlanOf, ResultStages
  <1>2. p \in Seq(StageSet(s)) /\ \A k \in 1 .. Len(p) : p[k].kind \in Kinds
    <2>1. p \in Seq(StageSet(s))
      BY PlanShape DEF Shape
    <2>. HIDE DEF p
    <2>2. \A k \in 1 .. Len(p) : p[k] \in StageSet(s)
      BY <2>1
    <2>. QED  BY <2>1, <2>2 DEF StageSet
  <1>3. /\ Len(opening) = 2 /\ opening[1].kind \in ControlKinds /\ opening[2].kind \in ControlKinds
        /\ opening \in Seq(U)
    <2>1. \E a, b : opening = <<a, b>> /\ a.kind \in ControlKinds /\ b.kind \in ControlKinds
      <3>1. CASE s.cluster
        <4>. DEFINE a == Stage("ready", Control, 0, 0, ToController(s))
                    b == Stage("go", Control, 0, 0, FromController(s))
        <4>1. opening = <<a, b>>
          BY <3>1 DEF ClusterOpening
        <4>2. a.kind \in ControlKinds /\ b.kind \in ControlKinds
          BY DEF Stage, ControlKinds
        <4>. QED  BY <4>1, <4>2
      <3>2. CASE ~s.cluster
        <4>. DEFINE a == Stage("start", Control, 0, 0, FromController(s))
                    b == Stage("answer", Control, 0, 0, ToController(s))
        <4>1. opening = <<a, b>>
          BY <3>2 DEF TwoSidedOpening
        <4>2. a.kind \in ControlKinds /\ b.kind \in ControlKinds
          BY DEF Stage, ControlKinds
        <4>. QED  BY <4>1, <4>2
      <3>. QED  BY <3>1, <3>2
    <2>. HIDE DEF opening
    <2>. QED  BY <2>1
  <1>4. /\ s.cluster => opening[1].links = ToController(s) /\ opening[2].links = FromController(s)
        /\ ~s.cluster => /\ opening[1].links = FromController(s) /\ opening[2].links = ToController(s)
                         /\ opening[1].kind # "ready" /\ opening[2].kind # "ready"
    BY DEF ClusterOpening, TwoSidedOpening, Stage
  <1>5. last.kind \in ControlKinds /\ last.links = ToController(s)
    BY DEF Stage, ControlKinds
  <1>6. rounds \in Turned(s)
    BY RoundsTurned
  <1>. HIDE DEF opening, rounds, last, p
  <1>7. rounds \in Seq(U) /\ end \in Seq(U) /\ Len(end) = 1 /\ end[1] = last
    <2>1. rounds \in Seq(StageSet(s))
      BY <1>6 DEF Turned
    <2>. QED  BY <2>1
  <1>. HIDE DEF U, end
  <1>8. q \in Seq(U) /\ Inside(opening, q, 0) /\ Inside(rounds, q, 2) /\ Len(q) = 2 + Len(rounds)
    <2>1. q \in Seq(U) /\ Inside(opening, q, 0) /\ Inside(rounds, q, Len(opening))
      BY <1>3, <1>7, ConcatInside
    <2>2. Len(q) = Len(opening) + Len(rounds)
      BY <1>3, <1>7, ConcatProperties
    <2>. QED  BY <1>3, <2>1, <2>2
  <1>. HIDE DEF q
  <1>9. Inside(q, p, 0) /\ Inside(end, p, Len(q)) /\ Len(p) = Len(q) + 1
    <2>1. Inside(q, q \o end, 0) /\ Inside(end, q \o end, Len(q))
      BY <1>7, <1>8, ConcatInside
    <2>2. Len(q \o end) = Len(q) + Len(end)
      BY <1>7, <1>8, ConcatProperties
    <2>. QED  BY <1>1, <1>7, <2>1, <2>2
  <1>10. Len(rounds) \in Nat /\ Len(p) = Len(rounds) + 3 /\ Len(q) \in Nat
    BY <1>7, <1>8, <1>9
  <1>11. p[1] = opening[1] /\ p[2] = opening[2] /\ p[Len(p)] = last
    <2>1. 1 \in 1 .. Len(opening) /\ 2 \in 1 .. Len(opening) /\ 0 + 1 = 1 /\ 0 + 2 = 2
      BY <1>3
    <2>2. 1 \in 1 .. Len(q) /\ 2 \in 1 .. Len(q) /\ q[1] = opening[1] /\ q[2] = opening[2]
      BY <1>8, <1>10, <2>1 DEF Inside
    <2>3. p[1] = q[1] /\ p[2] = q[2]
      BY <1>9, <2>1, <2>2 DEF Inside
    <2>4. 1 \in 1 .. Len(end)
      BY <1>7
    <2>5. p[Len(q) + 1] = end[1]
      BY <1>9, <2>4 DEF Inside
    <2>. QED  BY <1>7, <1>9, <2>2, <2>3, <2>5
  <1>12. Inside(rounds, p, 2)
    <2>. SUFFICES ASSUME NEW k \in 1 .. Len(rounds) PROVE 2 + k \in 1 .. Len(p) /\ p[2 + k] = rounds[k]
      BY <1>10 DEF Inside
    <2>. DEFINE j == 2 + k
    <2>1. j \in 1 .. Len(q) /\ q[j] = rounds[k]
      BY <1>8 DEF Inside
    <2>2. 0 + j = j /\ j \in 1 .. Len(p)
      BY <1>8, <1>10
    <2>. HIDE DEF j
    <2>3. p[j] = q[j]
      BY <1>9, <2>1, <2>2 DEF Inside
    <2>. QED  BY <2>1, <2>2, <2>3 DEF j
  <1>13. ASSUME NEW k \in 1 .. Len(p)
         PROVE  /\ p[k].kind \in ControlKinds <=> (k = 1 \/ k = 2 \/ k = Len(p))
                /\ InTurn(s, p, k)
    <2>1. CASE k = 1 \/ k = 2 \/ k = Len(p)
      <3>1. p[k].kind \in ControlKinds
        BY <1>3, <1>5, <1>11, <2>1
      <3>. QED  BY <2>1, <3>1 DEF InTurn, ControlKinds, RingKinds
    <2>2. CASE ~(k = 1 \/ k = 2 \/ k = Len(p))
      <3>. DEFINE h == k - 2
      <3>1. h \in 1 .. Len(rounds) /\ 2 + h = k
        BY <1>10, <2>2
      <3>. HIDE DEF h
      <3>2. p[2 + h] = rounds[h]
        BY <1>12, <3>1 DEF Inside
      <3>3. rounds[h].kind \notin ControlKinds /\ InTurn(s, rounds, h)
        BY <1>6, <3>1 DEF Turned
      <3>4. InTurn(s, p, 2 + h)
        BY <1>12, <3>1, <3>3, TurnMoved
      <3>. QED  BY <2>2, <3>1, <3>2, <3>3, <3>4
    <2>. QED  BY <2>1, <2>2
  <1>. QED  BY <1>2, <1>4, <1>5, <1>10, <1>11, <1>12, <1>13 DEF PlanParts, p, rounds

LEMMA ClosedLess ==
  ASSUME NEW s, NEW p, NEW S, Closed(s, p, Kinds, S)
  PROVE  Closed(s, p, DataKinds, S)
  <1>1. DataKinds \subseteq Kinds
    BY DEF DataKinds, Kinds
  <1>. QED  BY <1>1 DEF Closed

\* Where a stage of the rounds makes rank 0 known to everyone, all are in the
\* last stage after rank 0 was past the second.
LEMMA RelayLeads ==
  ASSUME NEW s, Valid(s), NEW p, PlanParts(s, p), Relays(s, RoundStages(s)),
         NEW w \in Ranks(s), w # 0,
         NEW S \in SUBSET (Ranks(s) \X (1 .. Len(p) + 1)), Closed(s, p, Kinds, S), <<0, 3>> \in S
  PROVE  <<w, Len(p)>> \in S
  <1>. DEFINE n == Len(RoundStages(s))
  <1>1. /\ n \in Nat /\ Len(p) = n + 3 /\ Inside(RoundStages(s), p, 2) /\ ValidTopology(s) /\ 0 \in Ranks(s)
        /\ \A k \in 1 .. Len(p) : p[k].kind \in Kinds
    BY ZeroIsRank DEF PlanParts, Valid
  <1>2. \A x \in Ranks(s) : \A k, l \in 1 .. Len(p) + 1 : <<x, k>> \in S /\ k <= l => <<x, l>> \in S
    BY DEF Closed
  <1>. HIDE DEF n
  <1>3. CASE \E k \in 1 .. n : RoundStages(s)[k].links = FromRank(s, 0)
    <2>1. PICK k \in 1 .. n : RoundStages(s)[k].links = FromRank(s, 0)
      BY <1>3
    <2>. DEFINE h == 2 + k
    <2>2. h \in 1 .. Len(p) /\ p[h] = RoundStages(s)[k]
      BY <1>1 DEF Inside, n
    <2>3. /\ h \in 1 .. Len(p) + 1 /\ 3 \in 1 .. Len(p) + 1 /\ 3 <= h
          /\ h + 1 \in 1 .. Len(p) + 1 /\ Len(p) \in 1 .. Len(p) + 1 /\ h + 1 <= Len(p)
      BY <1>1
    <2>. HIDE DEF h
    <2>4. <<0, h>> \in S
      BY <1>1, <1>2, <2>3
    <2>5. <<0, w>> \in p[h].links
      BY <2>1, <2>2 DEF FromRank, Others
    <2>6. <<w, h + 1>> \in S
      BY <1>1, <2>2, <2>4, <2>5 DEF Closed
    <2>. QED  BY <1>2, <2>3, <2>6
  <1>4. CASE \E m, l \in Nat : Mix(s, RoundStages(s), m, l)
    <2>1. PICK m, l \in Nat : Mix(s, RoundStages(s), m, l)
      BY <1>4
    <2>. DEFINE h == 2 + m
    <2>2. Mix(s, p, h, l)
      BY <1>1, <2>1, MixMoved
    <2>3. m \in 1 .. n /\ m + l - 1 \in 1 .. n
      BY <2>1 DEF Mix, n
    <2>4. /\ h \in 1 .. Len(p) + 1 /\ 3 \in 1 .. Len(p) + 1 /\ 3 <= h
          /\ h + l \in 1 .. Len(p) + 1 /\ Len(p) \in 1 .. Len(p) + 1 /\ h + l <= Len(p) /\ Len(p) \in Nat
      BY <1>1, <2>3
    <2>. HIDE DEF h
    <2>5. <<0, h>> \in S
      BY <1>1, <1>2, <2>4
    <2>6. <<w, h + l>> \in S
      BY <1>1, <2>2, <2>4, <2>5, ClosedLess, MixLeads
    <2>. QED  BY <1>2, <2>4, <2>6
  <1>. QED  BY <1>3, <1>4 DEF Relays, n

LEMMA ControlParted ==
  ASSUME NEW s, Valid(s), AnswersApart(s), NEW p, PlanParts(s, p), Shape(s, p)
  PROVE  Apart(s, p, ControlKinds, Kinds)
  <1>1. /\ Len(p) \in Nat /\ Len(p) >= 3 /\ 0 \in Ranks(s)
        /\ \A k \in 1 .. Len(p) : p[k].kind \in ControlKinds <=> (k = 1 \/ k = 2 \/ k = Len(p))
        /\ \A k \in 1 .. Len(p) : p[k].kind \in Kinds
    BY ZeroIsRank DEF PlanParts, Valid
  <1>2. /\ \A x, y : <<x, y>> \in ToController(s) => y = 0 /\ x # 0 /\ x \in Ranks(s) /\ <<0, x>> \in FromController(s)
        /\ \A x, y : <<x, y>> \in FromController(s) => x = 0 /\ y # 0
    BY DEF ToController, FromController, Workers, Coordinators
  <1>. SUFFICES ASSUME NEW i \in 1 .. Len(p), NEW j \in 1 .. Len(p), i < j, p[i].kind \in ControlKinds,
                       p[i].tag = p[j].tag,
                       NEW x \in Ranks(s), NEW y \in Ranks(s), <<x, y>> \in p[i].links \cap p[j].links,
                       NEW S \in SUBSET (Ranks(s) \X (1 .. Len(p) + 1)),
                       Closed(s, p, Kinds, S), <<y, i + 1>> \in S
                PROVE  <<x, j>> \in S
    BY DEF Apart, Leads
  <1>3. p[j].kind \in ControlKinds
    <2>1. WellPlaced(s, p, i) /\ WellPlaced(s, p, j)
      BY DEF Shape
    <2>. QED  BY <2>1 DEF WellPlaced
  <1>4. (i = 1 /\ j = 2) \/ (i = 1 /\ j = Len(p)) \/ (i = 2 /\ j = Len(p))
    BY <1>1, <1>3
  <1>5. CASE s.cluster
    <2>1. p[1].links = ToController(s) /\ p[2].links = FromController(s) /\ p[Len(p)].links = ToController(s)
      BY <1>5 DEF PlanParts
    <2>2. i = 1 /\ j = Len(p) /\ y = 0 /\ <<0, x>> \in FromController(s)
      BY <1>2, <1>4, <2>1
    <2>3. <<0, 2>> \in S /\ 2 \in 1 .. Len(p) /\ p[2].kind \in Kinds /\ 2 + 1 = 3
      BY <1>1, <2>2
    <2>4. <<x, 3>> \in S
      BY <1>1, <2>1, <2>2, <2>3 DEF Closed
    <2>5. 3 \in 1 .. Len(p) + 1 /\ Len(p) \in 1 .. Len(p) + 1 /\ 3 <= Len(p)
      BY <1>1
    <2>. QED  BY <2>2, <2>4, <2>5 DEF Closed
  <1>6. CASE ~s.cluster
    <2>1. p[1].links = FromController(s) /\ p[2].links = ToController(s) /\ p[Len(p)].links = ToController(s)
      BY <1>6 DEF PlanParts
    <2>2. i = 2 /\ j = Len(p) /\ y = 0 /\ x # 0
      BY <1>2, <1>4, <2>1
    <2>3. Relays(s, RoundStages(s))
      BY <1>6, RoundsRelay DEF AnswersApart
    <2>4. <<0, 3>> \in S
      BY <2>2
    <2>. QED  BY <2>2, <2>3, <2>4, RelayLeads
  <1>. QED  BY <1>5, <1>6

LEMMA AllApart ==
  ASSUME NEW s \in Settings, SizesApart(s), AnswersApart(s)
  PROVE  ControlApart(s, Plan[s])
  <1>1. Valid(s)
    BY ClusterAssumption
  <1>2. Plan[s] = PlanOf(s)
    BY DEF Plan
  <1>3. Apart(s, PlanOf(s), ControlKinds, Kinds)
    BY <1>1, PlanShape, PlanHasParts, ControlParted
  <1>. QED  BY <1>2, <1>3, PlanApart DEF ControlApart

\* The messages of stages of kinds K are not behind their receivers, who still
\* wait for them, and a link carries one in each stage.
Current(K) ==
    /\ \A m \in net : m.kind \in K => pc[m.dst] < m.at \/ (pc[m.dst] = m.at /\ m.src \in awaited[m.dst])
    /\ \A m, n \in net : m.kind \in K /\ m.src = n.src /\ m.dst = n.dst /\ m.at = n.at => m = n

\* What is under way was sent in a stage its sender has reached, along a link of it.
\* Messages of barriers and ring exchanges are current in every run; those of the
\* other collectives where tags tell the stages apart (SizesApart), and those of
\* control if in addition the answers are known to have come (AnswersApart) and no
\* frame was repeated (_send_with_retry).
THEOREM StagesKept ==
  Spec => [](/\ \A m \in net : Genuine(m)
             /\ Current(Guarded)
             /\ SizesApart(setting) => Current(DataKinds)
             /\ SizesApart(setting) /\ AnswersApart(setting) /\ retries = 0 => Current(ControlKinds))
  <1>. DEFINE Kept ==
         /\ \A m \in net : Genuine(m)
         /\ Current(Guarded)
         /\ SizesApart(setting) => Current(DataKinds)
         /\ SizesApart(setting) /\ AnswersApart(setting) /\ retries = 0 => Current(ControlKinds)
  <1>1. StagesInv => Kept
    <2>. SUFFICES ASSUME StagesInv PROVE Kept
      OBVIOUS
    <2>1. setting \in Settings /\ \A m \in net : Genuine(m)
      BY DEF StagesInv, PlaceInv, MessagesInv
    <2>2. ASSUME NEW K, K \subseteq Exact  PROVE Current(K)
      BY <2>2 DEF StagesInv, NotStale, SentOnce, Current
    <2>3. Guarded \subseteq Exact
      BY ExactGroups
    <2>4. SizesApart(setting) => DataKinds \subseteq Exact
      BY <2>1, PlanApart DEF Exact, Stages
    <2>5. SizesApart(setting) /\ AnswersApart(setting) /\ retries = 0 => ControlKinds \subseteq Exact
      BY <2>1, AllApart DEF Exact, Stages
    <2>. QED  BY <2>1, <2>2, <2>3, <2>4, <2>5
  <1>. HIDE DEF Kept
  <1>. QED  BY <1>1, Inductive, PTL DEF Kept

---------------------------------------------------------------------------
(* Distances on the ring                                                   *)

LEMMA Near ==
  ASSUME NEW W \in Nat, W > 0, NEW a \in Int, a + W >= 0, a < W + W
  PROVE  a % W = IF a < 0 THEN a + W ELSE IF a >= W THEN a - W ELSE a
  <1>1. CASE a < 0
    <2>1. a = W * (-1) + (a + W) /\ a + W \in 0 .. W - 1 /\ -1 \in Int
      BY <1>1
    <2>2. (W * (-1) + (a + W)) % W = a + W
      BY <2>1, Residue
    <2>. QED  BY <1>1, <2>1, <2>2
  <1>2. CASE a >= W
    <2>1. a = W * 1 + (a - W) /\ a - W \in 0 .. W - 1 /\ 1 \in Int /\ ~(a < 0)
      BY <1>2
    <2>2. (W * 1 + (a - W)) % W = a - W
      BY <2>1, Residue
    <2>. QED  BY <1>2, <2>1, <2>2
  <1>3. CASE ~(a < 0) /\ ~(a >= W)
    <2>1. a = W * 0 + a /\ a \in 0 .. W - 1 /\ 0 \in Int
      BY <1>3
    <2>2. (W * 0 + a) % W = a
      BY <2>1, Residue
    <2>. QED  BY <1>3, <2>1, <2>2
  <1>. QED  BY <1>1, <1>2, <1>3

\* How far a rank comes after a position of the ring.
Dist(s, r, k) == (Position(s, r) - k) % s.world

LEMMA Distances ==
  ASSUME NEW s, ValidTopology(s), NEW r \in Ranks(s), NEW k \in Ranks(s)
  PROVE  /\ Dist(s, r, k) = IF Position(s, r) < k THEN Position(s, r) - k + s.world ELSE Position(s, r) - k
         /\ Dist(s, r, k) \in 0 .. s.world - 1 /\ Position(s, r) \in 0 .. s.world - 1 /\ k \in 0 .. s.world - 1
         /\ s.world \in Nat /\ s.world > 1 /\ Ranks(s) = 0 .. s.world - 1
  <1>. DEFINE W == s.world
              p == Position(s, r)
              a == p - k
  <1>1. W \in Nat /\ W > 1 /\ Ranks(s) = 0 .. W - 1
    BY DEF ValidTopology, Ranks
  <1>2. p \in 0 .. W - 1 /\ k \in 0 .. W - 1
    BY <1>1, Positioned
  <1>. HIDE DEF W, p
  <1>3. a \in Int /\ a + W >= 0 /\ a < W + W /\ W > 0
    BY <1>1, <1>2
  <1>4. a % W = IF a < 0 THEN a + W ELSE IF a >= W THEN a - W ELSE a
    <2>. HIDE DEF a
    <2>. QED  BY <1>1, <1>3, Near
  <1>5. a % W = IF p < k THEN p - k + W ELSE p - k
    <2>1. a < 0 <=> p < k
      BY <1>1, <1>2
    <2>2. ~(a >= W) /\ a + W = p - k + W
      BY <1>1, <1>2
    <2>. QED  BY <1>4, <2>1, <2>2
  <1>6. a % W \in 0 .. W - 1
    BY <1>1, <1>2, <1>5
  <1>. QED  BY <1>1, <1>2, <1>5, <1>6 DEF Dist, a, p, W

\* The next rank on the ring is one further away.
LEMMA NextDistance ==
  ASSUME NEW s, ValidTopology(s), NEW x \in Ranks(s), NEW r \in Ranks(s), <<x, r>> \in Around(s, Ranks(s)),
         NEW k \in Ranks(s)
  PROVE  Dist(s, r, k) = IF Dist(s, x, k) = s.world - 1 THEN 0 ELSE Dist(s, x, k) + 1
  <1>. DEFINE W == s.world
              p == Position(s, x)
              n == p + 1
  <1>1. W \in Nat /\ W > 1 /\ p \in 0 .. W - 1 /\ k \in 0 .. W - 1
    BY Distances
  <1>2. r = At(s, n)
    <2>1. r = Neighbour(s, x, 1)
      BY DEF Around
    <2>. QED  BY <2>1 DEF Neighbour, At
  <1>3. n \in Nat /\ n \in Int /\ n + W >= 0 /\ n < W + W /\ W > 0
    BY <1>1
  <1>. HIDE DEF n, W
  <1>4. Position(s, r) = n % W
    BY <1>2, <1>3, AtRing DEF W
  <1>5. n % W = IF n < 0 THEN n + W ELSE IF n >= W THEN n - W ELSE n
    BY <1>1, <1>3, Near
  <1>. HIDE DEF p
  <1>6. Position(s, r) = IF p = W - 1 THEN 0 ELSE p + 1
    BY <1>1, <1>4, <1>5 DEF n
  <1>7. /\ Dist(s, r, k) = IF Position(s, r) < k THEN Position(s, r) - k + W ELSE Position(s, r) - k
        /\ Dist(s, x, k) = IF p < k THEN p - k + W ELSE p - k
    BY Distances DEF W, p
  <1>8. CASE p = W - 1
    BY <1>1, <1>6, <1>7, <1>8 DEF W
  <1>9. CASE p # W - 1
    BY <1>1, <1>6, <1>7, <1>9 DEF W
  <1>. QED  BY <1>8, <1>9

\* A distance tells the rank, and the position.
LEMMA DistanceTells ==
  ASSUME NEW s, ValidTopology(s), NEW x \in Ranks(s), NEW y \in Ranks(s), NEW k \in Ranks(s), NEW h \in Ranks(s)
  PROVE  /\ Dist(s, x, k) = Dist(s, y, k) => x = y
         /\ Dist(s, x, k) = Dist(s, x, h) => k = h
         /\ Dist(s, x, Position(s, y)) = 0 <=> x = y
  <1>. DEFINE W == s.world
              p == Position(s, x)
              q == Position(s, y)
  <1>1. /\ W \in Nat /\ W > 1 /\ p \in 0 .. W - 1 /\ q \in 0 .. W - 1 /\ k \in 0 .. W - 1 /\ h \in 0 .. W - 1
        /\ Ranks(s) = 0 .. W - 1
    BY Distances
  <1>2. s.ring[p + 1] = x /\ s.ring[q + 1] = y
    BY Positioned
  <1>3. /\ Dist(s, x, k) = IF p < k THEN p - k + W ELSE p - k
        /\ Dist(s, y, k) = IF q < k THEN q - k + W ELSE q - k
        /\ Dist(s, x, h) = IF p < h THEN p - h + W ELSE p - h
    BY Distances
  <1>4. Dist(s, x, q) = IF p < q THEN p - q + W ELSE p - q
    <2>1. q \in Ranks(s)
      BY <1>1
    <2>. QED  BY <2>1, Distances
  <1>5. p = q <=> x = y
    BY <1>2
  <1>. HIDE DEF W, p, q
  <1>6. Dist(s, x, k) = Dist(s, y, k) => p = q
    BY <1>1, <1>3
  <1>7. Dist(s, x, k) = Dist(s, x, h) => k = h
    BY <1>1, <1>3
  <1>8. Dist(s, x, q) = 0 <=> p = q
    BY <1>1, <1>4
  <1>. QED  BY <1>5, <1>6, <1>7, <1>8 DEF q

\* The chunk that a rank sends in a step, and those one before and after it.
LEMMA ChunkDistance ==
  ASSUME NEW s, ValidTopology(s), NEW r \in Ranks(s), NEW t \in 0 .. s.world - 2, NEW d \in {-1, 0, 1}
  PROVE  LET c == (Position(s, r) - t + d) % s.world
         IN  /\ c \in Ranks(s)
             /\ Dist(s, r, c) = IF t - d < 0 THEN s.world - 1 ELSE t - d
  <1>. DEFINE W == s.world
              p == Position(s, r)
              a == p - t + d
              c == a % W
  <1>1. W \in Nat /\ W > 1 /\ p \in 0 .. W - 1 /\ Ranks(s) = 0 .. W - 1 /\ t \in 0 .. W - 2
    <2>1. r \in Ranks(s)
      OBVIOUS
    <2>. QED  BY <2>1, Distances
  <1>. HIDE DEF W, p
  <1>2. d \in Int /\ -1 <= d /\ d <= 1
    OBVIOUS
  <1>3. a \in Int /\ a + W >= 0 /\ a < W + W /\ W > 0
    BY <1>1, <1>2
  <1>4. c = IF a < 0 THEN a + W ELSE IF a >= W THEN a - W ELSE a
    <2>. HIDE DEF a
    <2>. QED  BY <1>1, <1>3, Near
  <1>. HIDE DEF c
  <1>5. c \in 0 .. W - 1
    BY <1>1, <1>2, <1>3, <1>4
  <1>6. Dist(s, r, c) = IF p < c THEN p - c + W ELSE p - c
    BY <1>1, <1>5, Distances DEF W, p
  <1>7. Dist(s, r, c) = IF t - d < 0 THEN W - 1 ELSE t - d
    <2>1. CASE a < 0
      BY <1>1, <1>2, <1>4, <1>6, <2>1
    <2>2. CASE a >= W
      BY <1>1, <1>2, <1>4, <1>6, <2>2
    <2>3. CASE ~(a < 0) /\ ~(a >= W)
      BY <1>1, <1>2, <1>4, <1>6, <2>3
    <2>. QED  BY <2>1, <2>2, <2>3
  <1>. QED  BY <1>1, <1>5, <1>7 DEF c, p, W

\* Those at most so far after a position, and those at a distance before a rank.
Upto(s, k, d) == {x \in Ranks(s) : Dist(s, x, k) <= d}

Behind(s, r, t) == {x \in Ranks(s) : Dist(s, r, Position(s, x)) = t}

Within(s, r, t) == {x \in Ranks(s) : Dist(s, r, Position(s, x)) <= t}

LEMMA Gathering ==
  ASSUME NEW s, ValidTopology(s), NEW x \in Ranks(s), NEW r \in Ranks(s), <<x, r>> \in Around(s, Ranks(s)),
         NEW t \in 0 .. s.world - 2
  PROVE  /\ Behind(s, x, t) = Behind(s, r, t + 1)
         /\ Within(s, r, t) \cup Behind(s, r, t + 1) = Within(s, r, t + 1)
         /\ Within(s, r, s.world - 1) = Ranks(s)
         /\ Behind(s, r, 0) = {r} /\ Within(s, r, 0) = {r}
  <1>1. s.world \in Nat /\ s.world > 1 /\ Ranks(s) = 0 .. s.world - 1
    BY Distances
  <1>2. \A y \in Ranks(s) : /\ Position(s, y) \in Ranks(s)
                            /\ Dist(s, r, Position(s, y)) \in 0 .. s.world - 1
                            /\ Dist(s, x, Position(s, y)) \in 0 .. s.world - 1
    BY Positioned, Distances
  <1>3. \A y \in Ranks(s) : Dist(s, r, Position(s, y)) =
            IF Dist(s, x, Position(s, y)) = s.world - 1 THEN 0 ELSE Dist(s, x, Position(s, y)) + 1
    BY <1>2, NextDistance
  <1>4. \A y \in Ranks(s) : Dist(s, r, Position(s, y)) = 0 <=> r = y
    BY DistanceTells
  <1>5. Behind(s, x, t) = Behind(s, r, t + 1)
    <2>1. \A y \in Ranks(s) : Dist(s, x, Position(s, y)) = t <=> Dist(s, r, Position(s, y)) = t + 1
      <3>. TAKE y \in Ranks(s)
      <3>. DEFINE d == Dist(s, x, Position(s, y))
                  e == Dist(s, r, Position(s, y))
      <3>1. d \in 0 .. s.world - 1 /\ e = IF d = s.world - 1 THEN 0 ELSE d + 1
        BY <1>2, <1>3
      <3>. HIDE DEF d, e
      <3>2. d = t <=> e = t + 1
        BY <1>1, <3>1
      <3>. QED  BY <3>2 DEF d, e
    <2>. QED  BY <2>1 DEF Behind
  <1>6. Within(s, r, t) \cup Behind(s, r, t + 1) = Within(s, r, t + 1)
    <2>1. \A y \in Ranks(s) : (Dist(s, r, Position(s, y)) <= t \/ Dist(s, r, Position(s, y)) = t + 1)
                                <=> Dist(s, r, Position(s, y)) <= t + 1
      <3>. TAKE y \in Ranks(s)
      <3>. DEFINE d == Dist(s, r, Position(s, y))
      <3>1. d \in 0 .. s.world - 1
        BY <1>2
      <3>. HIDE DEF d
      <3>2. (d <= t \/ d = t + 1) <=> d <= t + 1
        BY <1>1, <3>1
      <3>. QED  BY <3>2 DEF d
    <2>. QED  BY <2>1 DEF Within, Behind
  <1>7. Within(s, r, s.world - 1) = Ranks(s)
    BY <1>1, <1>2 DEF Within
  <1>8. Behind(s, r, 0) = {r}
    BY <1>4 DEF Behind
  <1>9. Within(s, r, 0) = {r}
    <2>1. \A y \in Ranks(s) : Dist(s, r, Position(s, y)) <= 0 <=> r = y
      <3>. TAKE y \in Ranks(s)
      <3>. DEFINE e == Dist(s, r, Position(s, y))
      <3>1. e \in 0 .. s.world - 1 /\ (e = 0 <=> r = y)
        BY <1>2, <1>4
      <3>. HIDE DEF e
      <3>2. e <= 0 <=> e = 0
        BY <1>1, <3>1
      <3>. QED  BY <3>1, <3>2 DEF e
    <2>. QED  BY <2>1 DEF Within
  <1>. QED  BY <1>5, <1>6, <1>7, <1>8, <1>9

LEMMA Summing ==
  ASSUME NEW s, ValidTopology(s), NEW r \in Ranks(s), NEW k \in Ranks(s), NEW t \in 0 .. s.world - 2
  PROVE  /\ Dist(s, r, k) = 0 => Upto(s, k, Dist(s, r, k)) = {r}
         /\ Dist(s, r, k) = t + 1 => r \notin Upto(s, k, t) /\ Upto(s, k, t) \cup {r} = Upto(s, k, Dist(s, r, k))
         /\ Upto(s, k, s.world - 1) = Ranks(s)
  <1>1. s.world \in Nat /\ s.world > 1 /\ Ranks(s) = 0 .. s.world - 1
    BY Distances
  <1>2. \A y \in Ranks(s) : Dist(s, y, k) \in 0 .. s.world - 1
    BY Distances
  <1>3. \A y \in Ranks(s) : Dist(s, y, k) = Dist(s, r, k) <=> y = r
    BY DistanceTells
  <1>4. ASSUME Dist(s, r, k) = 0 PROVE Upto(s, k, Dist(s, r, k)) = {r}
    <2>1. \A y \in Ranks(s) : Dist(s, y, k) <= 0 <=> y = r
      <3>. TAKE y \in Ranks(s)
      <3>. DEFINE d == Dist(s, y, k)
      <3>1. d \in 0 .. s.world - 1 /\ (d = 0 <=> y = r)
        BY <1>2, <1>3, <1>4
      <3>. HIDE DEF d
      <3>2. d <= 0 <=> d = 0
        BY <1>1, <3>1
      <3>. QED  BY <3>1, <3>2 DEF d
    <2>. QED  BY <1>4, <2>1 DEF Upto
  <1>5. ASSUME Dist(s, r, k) = t + 1
        PROVE  r \notin Upto(s, k, t) /\ Upto(s, k, t) \cup {r} = Upto(s, k, Dist(s, r, k))
    <2>1. \A y \in Ranks(s) : (Dist(s, y, k) <= t \/ y = r) <=> Dist(s, y, k) <= t + 1
      <3>. TAKE y \in Ranks(s)
      <3>. DEFINE d == Dist(s, y, k)
      <3>1. d \in 0 .. s.world - 1 /\ (d = t + 1 <=> y = r)
        BY <1>2, <1>3, <1>5
      <3>. HIDE DEF d
      <3>2. (d <= t \/ d = t + 1) <=> d <= t + 1
        BY <1>1, <3>1
      <3>. QED  BY <3>1, <3>2 DEF d
    <2>2. ~(Dist(s, r, k) <= t)
      BY <1>1, <1>5
    <2>. QED  BY <1>5, <2>1, <2>2 DEF Upto
  <1>6. Upto(s, k, s.world - 1) = Ranks(s)
    BY <1>1, <1>2 DEF Upto
  <1>. QED  BY <1>4, <1>5, <1>6

---------------------------------------------------------------------------
(* What the steps around the ring add up                                   *)

\* What a message holds is told by the stage it was sent in.
Contents(m) ==
    LET st == Stages[m.at]
    IN  /\ m.size = st.size
        /\ st.kind = "reduce" =>
            m.value = Upto(setting, (Position(setting, m.src) - st.step + 0) % setting.world, st.step)
        /\ st.kind = "share" => m.value = World
        /\ st.kind = "pass" => m.value = Behind(setting, m.src, st.step)

\* What a rank has when it enters a step.
Summed(r) ==
    LET st == Stages[pc[r]]
    IN  /\ st.kind = "reduce" =>
            \A k \in World : Chunks(r)[k] = IF Dist(setting, r, k) <= st.step
                                            THEN Upto(setting, k, Dist(setting, r, k)) ELSE {r}
        /\ st.kind = "share" =>
            \A k \in World : Dist(setting, r, k) = setting.world - 1 \/ Dist(setting, r, k) < st.step =>
                chunks[r][k] = World
        /\ st.kind = "pass" =>
            Carried(r) = Behind(setting, r, st.step) /\ Gathered(r) = Within(setting, r, st.step)

SumsInv ==
    /\ \A m \in net : Contents(m)
    /\ \A r \in World : \A m \in got[r] : Contents(m)
    /\ chunks = [r \in World |-> chunks[r]] /\ carried = [r \in World |-> carried[r]]
    /\ gathered = [r \in World |-> gathered[r]]
    /\ \A r \in World : chunks[r] = [k \in World |-> chunks[r][k]]
    /\ \A r \in World : Summed(r)

LEMMA RingStages ==
  ASSUME PlaceInv
  PROVE  /\ ValidTopology(setting) /\ World = Ranks(setting)
         /\ \A k \in 1 .. Len(Stages) : InTurn(setting, Stages, k)
  <1>1. setting \in Settings /\ Valid(setting)
    BY ClusterAssumption DEF PlaceInv
  <1>2. PlanParts(setting, Stages)
    BY <1>1, PlanHasParts DEF Stages, Plan
  <1>. QED  BY <1>1, <1>2 DEF PlanParts, Valid, World

LEMMA Predecessor ==
  ASSUME NEW s, ValidTopology(s), NEW r \in Ranks(s)
  PROVE  /\ \E x \in Ranks(s) : <<x, r>> \in Around(s, Ranks(s))
         /\ \A x, y \in Ranks(s) : <<x, r>> \in Around(s, Ranks(s)) /\ <<y, r>> \in Around(s, Ranks(s)) => x = y
  <1>. DEFINE W == s.world
              p == Position(s, r)
              n == p + W - 1
              a == p + W
  <1>1. W \in Nat /\ W > 1 /\ p \in 0 .. W - 1 /\ Ranks(s) = 0 .. W - 1
    <2>1. r \in Ranks(s)
      OBVIOUS
    <2>. QED  BY <2>1, Distances
  <1>2. s.ring[p + 1] = r
    BY Positioned
  <1>. HIDE DEF W, p
  <1>3. n \in Nat /\ n + 1 = a /\ a \in Int /\ a + W >= 0 /\ a < W + W /\ W > 0 /\ a >= W /\ ~(a < 0) /\ a - W = p
    BY <1>1
  <1>4. a % W = p
    <2>. HIDE DEF a
    <2>. QED  BY <1>1, <1>3, Near
  <1>5. At(s, n) \in Ranks(s) /\ Neighbour(s, At(s, n), 1) = At(s, n + 1)
    <2>. HIDE DEF n
    <2>. QED  BY <1>3, AtRing
  <1>6. At(s, n + 1) = r
    BY <1>2, <1>3, <1>4 DEF At, W
  <1>7. \E x \in Ranks(s) : <<x, r>> \in Around(s, Ranks(s))
    BY <1>5, <1>6 DEF Around
  <1>8. ASSUME NEW x \in Ranks(s), NEW y \in Ranks(s),
               <<x, r>> \in Around(s, Ranks(s)), <<y, r>> \in Around(s, Ranks(s))
        PROVE  x = y
    <2>. DEFINE d == Dist(s, x, 0)
                e == Dist(s, y, 0)
    <2>1. 0 \in Ranks(s)
      BY <1>1
    <2>2. /\ Dist(s, r, 0) = IF d = W - 1 THEN 0 ELSE d + 1
          /\ Dist(s, r, 0) = IF e = W - 1 THEN 0 ELSE e + 1
          /\ d \in 0 .. W - 1 /\ e \in 0 .. W - 1
      BY <1>8, <2>1, NextDistance, Distances DEF W
    <2>. HIDE DEF d, e
    <2>3. d = e
      BY <1>1, <2>2
    <2>. QED  BY <2>1, <2>3, DistanceTells DEF d, e
  <1>. QED  BY <1>7, <1>8

\* In a step around the ring a rank receives the one message of the rank before it.
LEMMA OneMessage ==
  ASSUME StagesInv, Held, TakenInPhase, SumsInv, NEW r \in World, status[r] = "run", Complete(r),
         Stages[pc[r]].kind \in RingKinds
  PROVE  \E m : /\ got[r] = {m} /\ m.at = pc[r] /\ m.src \in World /\ Contents(m)
                /\ <<m.src, r>> \in Around(setting, World)
  <1>1. /\ ValidTopology(setting) /\ World = Ranks(setting) /\ pc[r] \in 1 .. Len(Stages)
        /\ Stages[pc[r]].links = Around(setting, World)
    BY RingStages, Positions DEF StagesInv, InTurn
  <1>2. awaited[r] = {}
    BY DEF Complete
  <1>3. PICK x \in World : <<x, r>> \in Around(setting, World)
    BY <1>1, Predecessor
  <1>4. x \in Sources(setting, r, pc[r]) \ awaited[r] /\ Sources(setting, r, pc[r]) \subseteq {x}
    <2>1. \A y \in World : <<y, r>> \in Around(setting, World) => y = x
      BY <1>1, <1>3, Predecessor
    <2>. QED  BY <1>1, <1>2, <1>3, <2>1 DEF Sources, Stages, World
  <1>5. PICK m \in got[r] : m.src = x
    BY <1>4 DEF StagesInv, MessagesInv
  <1>6. got[r] = {m}
    <2>1. \A n \in got[r] : n.src = x /\ m.src = n.src
      BY <1>4, <1>5 DEF Held
    <2>2. \A n \in got[r] : n = m
      BY <1>5, <2>1 DEF Held
    <2>. QED  BY <1>5, <2>2
  <1>7. Stages[pc[r]].tag # Control
    <2>1. Stages[pc[r]].kind \notin ControlKinds
      BY DEF RingKinds, ControlKinds
    <2>. QED  BY <1>1, <2>1, Placed DEF StagesInv
  <1>8. m.at = pc[r]
    BY <1>5, <1>7 DEF TakenInPhase, Here, Stages
  <1>9. Contents(m)
    BY <1>5 DEF SumsInv
  <1>. QED  BY <1>3, <1>5, <1>6, <1>8, <1>9

\* What a rank has when it has received all of a step around the ring.
SummedAfter(r) ==
    LET st == Stages[pc[r]]
    IN  /\ st.kind = "reduce" =>
            \A k \in World : ChunksAfter(r)[k] = IF Dist(setting, r, k) <= st.step + 1
                                                 THEN Upto(setting, k, Dist(setting, r, k)) ELSE {r}
        /\ st.kind = "share" =>
            \A k \in World : Dist(setting, r, k) = setting.world - 1 \/ Dist(setting, r, k) < st.step + 1 =>
                ChunksAfter(r)[k] = World
        /\ st.kind \in {"reduce", "share"} => ChunksAfter(r) = [k \in World |-> ChunksAfter(r)[k]]
        /\ st.kind = "pass" =>
            /\ UNION {m.value : m \in got[r]} = Behind(setting, r, st.step + 1)
            /\ GatheredAfter(r) = Within(setting, r, st.step + 1)

LEMMA ReduceAfter ==
  ASSUME StagesInv, Held, TakenInPhase, SumsInv, NEW r \in World, status[r] = "run", Complete(r),
         Stages[pc[r]].kind = "reduce"
  PROVE  /\ \A k \in World : ChunksAfter(r)[k] = IF Dist(setting, r, k) <= Stages[pc[r]].step + 1
                                                 THEN Upto(setting, k, Dist(setting, r, k)) ELSE {r}
         /\ ChunksAfter(r) = [k \in World |-> ChunksAfter(r)[k]]
  <1>. DEFINE t == Stages[pc[r]].step
              W == setting.world
              D(x, k) == Dist(setting, x, k)
              C == Chunks(r)
  <1>1. PICK m : /\ got[r] = {m} /\ m.at = pc[r] /\ m.src \in World /\ Contents(m)
                 /\ <<m.src, r>> \in Around(setting, World)
    BY OneMessage DEF RingKinds
  <1>. DEFINE x == m.src
              c == (Position(setting, r) - t + (-1)) % W
              d == (Position(setting, x) - t + 0) % W
  <1>2. /\ ValidTopology(setting) /\ World = Ranks(setting) /\ t \in 0 .. W - 2
    <2>1. pc[r] \in 1 .. Len(Stages)
      BY Positions DEF StagesInv
    <2>. QED  BY <2>1, RingStages DEF StagesInv, InTurn, RingKinds
  <1>3. m.value = Upto(setting, d, t)
    BY <1>1 DEF Contents
  <1>4. W \in Nat /\ W > 1
    BY <1>2 DEF ValidTopology
  <1>5. c \in World /\ D(r, c) = t + 1 /\ d \in World /\ D(x, d) = t
    <2>. DEFINE e == -1
                z == 0
    <2>1. e \in {-1, 0, 1} /\ z \in {-1, 0, 1} /\ t - e = t + 1 /\ t - z = t /\ ~(t - e < 0) /\ ~(t - z < 0)
      BY <1>2, <1>4
    <2>. HIDE DEF e, z, t, W
    <2>2. /\ (Position(setting, r) - t + e) % W \in World
          /\ Dist(setting, r, (Position(setting, r) - t + e) % W) = IF t - e < 0 THEN W - 1 ELSE t - e
      BY <1>2, <2>1, ChunkDistance DEF W
    <2>3. /\ (Position(setting, x) - t + z) % W \in World
          /\ Dist(setting, x, (Position(setting, x) - t + z) % W) = IF t - z < 0 THEN W - 1 ELSE t - z
      BY <1>1, <1>2, <2>1, ChunkDistance DEF W
    <2>4. c = (Position(setting, r) - t + e) % W /\ d = (Position(setting, x) - t + z) % W
      BY DEF e, z
    <2>. HIDE DEF c, d
    <2>. QED  BY <2>1, <2>2, <2>3, <2>4
  <1>6. Chunk(r, -1) = c
    BY DEF Chunk, Here, Stages
  <1>. HIDE DEF c, d
  <1>7. D(r, d) = t + 1
    <2>1. Dist(setting, r, d) = IF Dist(setting, x, d) = setting.world - 1 THEN 0 ELSE Dist(setting, x, d) + 1
      BY <1>1, <1>2, <1>5, NextDistance
    <2>. QED  BY <1>2, <1>4, <1>5, <2>1
  <1>8. c = d
    BY <1>2, <1>5, <1>7, DistanceTells
  <1>9. \A k \in World : C[k] = IF D(r, k) <= t THEN Upto(setting, k, D(r, k)) ELSE {r}
    BY DEF SumsInv, Summed
  <1>10. C = [k \in World |-> C[k]]
    BY <1>2 DEF SumsInv, Chunks
  <1>11. ChunksAfter(r) = [C EXCEPT ![c] = SymDiff(C[c], m.value)]
    <2>1. (CHOOSE y \in got[r] : TRUE) = m
      BY <1>1
    <2>. HIDE DEF C
    <2>. QED  BY <1>6, <2>1 DEF ChunksAfter, Here, Stages, C
  <1>. HIDE DEF C
  <1>12. SymDiff(C[c], m.value) = Upto(setting, c, D(r, c))
    <2>1. C[c] = {r}
      BY <1>2, <1>4, <1>5, <1>9
    <2>2. r \notin Upto(setting, c, t) /\ Upto(setting, c, t) \cup {r} = Upto(setting, c, D(r, c))
      BY <1>2, <1>5, Summing
    <2>3. SymDiff({r}, Upto(setting, c, t)) = Upto(setting, c, t) \cup {r}
      BY <2>2 DEF SymDiff
    <2>. QED  BY <1>3, <1>8, <2>1, <2>2, <2>3
  <1>13. \A k \in World : k # c => D(r, k) # t + 1
    BY <1>2, <1>5, DistanceTells
  <1>14. \A k \in World : D(r, k) \in Int
    BY <1>2, Distances
  <1>15. ASSUME NEW k \in World
         PROVE  ChunksAfter(r)[k] = IF D(r, k) <= t + 1 THEN Upto(setting, k, D(r, k)) ELSE {r}
    <2>1. CASE k = c
      <3>1. ChunksAfter(r)[k] = Upto(setting, k, D(r, k))
        BY <1>5, <1>10, <1>11, <1>12, <2>1
      <3>2. D(r, k) <= t + 1
        BY <1>2, <1>4, <1>5, <2>1
      <3>. QED  BY <3>1, <3>2
    <2>2. CASE k # c
      <3>1. ChunksAfter(r)[k] = C[k]
        BY <1>10, <1>11, <2>2
      <3>2. D(r, k) <= t <=> D(r, k) <= t + 1
        BY <1>2, <1>4, <1>13, <1>14, <2>2
      <3>. QED  BY <1>9, <3>1, <3>2
    <2>. QED  BY <2>1, <2>2
  <1>16. ChunksAfter(r) = [k \in World |-> ChunksAfter(r)[k]]
    BY <1>10, <1>11
  <1>. QED  BY <1>15, <1>16

LEMMA ShareAfter ==
  ASSUME StagesInv, Held, TakenInPhase, SumsInv, NEW r \in World, status[r] = "run", Complete(r),
         Stages[pc[r]].kind = "share"
  PROVE  /\ \A k \in World :
                Dist(setting, r, k) = setting.world - 1 \/ Dist(setting, r, k) < Stages[pc[r]].step + 1 =>
                    ChunksAfter(r)[k] = World
         /\ ChunksAfter(r) = [k \in World |-> ChunksAfter(r)[k]]
  <1>. DEFINE t == Stages[pc[r]].step
              W == setting.world
              D(x, k) == Dist(setting, x, k)
              C == chunks[r]
              c == (Position(setting, r) - t + 0) % W
  <1>1. PICK m : got[r] = {m} /\ m.at = pc[r] /\ Contents(m)
    BY OneMessage DEF RingKinds
  <1>2. /\ ValidTopology(setting) /\ World = Ranks(setting) /\ t \in 0 .. W - 2
    <2>1. pc[r] \in 1 .. Len(Stages)
      BY Positions DEF StagesInv
    <2>. QED  BY <2>1, RingStages DEF StagesInv, InTurn, RingKinds
  <1>3. m.value = World
    BY <1>1 DEF Contents
  <1>4. W \in Nat /\ W > 1
    BY <1>2 DEF ValidTopology
  <1>5. c \in World /\ D(r, c) = t
    <2>. DEFINE z == 0
    <2>1. z \in {-1, 0, 1} /\ t - z = t /\ ~(t - z < 0)
      BY <1>2, <1>4
    <2>. HIDE DEF z, t, W
    <2>2. /\ (Position(setting, r) - t + z) % W \in World
          /\ Dist(setting, r, (Position(setting, r) - t + z) % W) = IF t - z < 0 THEN W - 1 ELSE t - z
      BY <1>2, <2>1, ChunkDistance DEF W
    <2>3. c = (Position(setting, r) - t + z) % W
      BY DEF z
    <2>. HIDE DEF c
    <2>. QED  BY <2>1, <2>2, <2>3
  <1>6. Chunk(r, 0) = c
    BY DEF Chunk, Here, Stages
  <1>. HIDE DEF c
  <1>7. \A k \in World : D(r, k) = W - 1 \/ D(r, k) < t => C[k] = World
    BY DEF SumsInv, Summed
  <1>8. C = [k \in World |-> C[k]]
    BY DEF SumsInv
  <1>9. ChunksAfter(r) = [C EXCEPT ![c] = m.value]
    <2>1. (CHOOSE y \in got[r] : TRUE) = m
      BY <1>1
    <2>2. Chunks(r) = C
      BY DEF Chunks, Here, Stages
    <2>. HIDE DEF C
    <2>. QED  BY <1>6, <2>1, <2>2 DEF ChunksAfter, Here, Stages
  <1>. HIDE DEF C
  <1>10. \A k \in World : k # c => D(r, k) # t
    BY <1>2, <1>5, DistanceTells
  <1>11. \A k \in World : D(r, k) \in Int
    BY <1>2, Distances
  <1>12. ASSUME NEW k \in World, D(r, k) = W - 1 \/ D(r, k) < t + 1
         PROVE  ChunksAfter(r)[k] = World
    <2>1. CASE k = c
      BY <1>3, <1>5, <1>8, <1>9, <2>1
    <2>2. CASE k # c
      <3>1. ChunksAfter(r)[k] = C[k]
        BY <1>8, <1>9, <2>2
      <3>2. D(r, k) = W - 1 \/ D(r, k) < t
        BY <1>2, <1>4, <1>10, <1>11, <1>12, <2>2
      <3>. QED  BY <1>7, <3>1, <3>2
    <2>. QED  BY <2>1, <2>2
  <1>13. ChunksAfter(r) = [k \in World |-> ChunksAfter(r)[k]]
    BY <1>8, <1>9
  <1>. QED  BY <1>12, <1>13

LEMMA PassAfter ==
  ASSUME StagesInv, Held, TakenInPhase, SumsInv, NEW r \in World, status[r] = "run", Complete(r),
         Stages[pc[r]].kind = "pass"
  PROVE  /\ UNION {m.value : m \in got[r]} = Behind(setting, r, Stages[pc[r]].step + 1)
         /\ GatheredAfter(r) = Within(setting, r, Stages[pc[r]].step + 1)
  <1>. DEFINE t == Stages[pc[r]].step
  <1>1. PICK m : /\ got[r] = {m} /\ m.at = pc[r] /\ m.src \in World /\ Contents(m)
                 /\ <<m.src, r>> \in Around(setting, World)
    BY OneMessage DEF RingKinds
  <1>2. /\ ValidTopology(setting) /\ World = Ranks(setting) /\ t \in 0 .. setting.world - 2
    <2>1. pc[r] \in 1 .. Len(Stages)
      BY Positions DEF StagesInv
    <2>. QED  BY <2>1, RingStages DEF StagesInv, InTurn, RingKinds
  <1>3. m.value = Behind(setting, m.src, t)
    BY <1>1 DEF Contents
  <1>4. UNION {n.value : n \in got[r]} = m.value
    BY <1>1
  <1>5. Gathered(r) = Within(setting, r, t)
    BY DEF SumsInv, Summed
  <1>. HIDE DEF t
  <1>6. /\ Behind(setting, m.src, t) = Behind(setting, r, t + 1)
        /\ Within(setting, r, t) \cup Behind(setting, r, t + 1) = Within(setting, r, t + 1)
    BY <1>1, <1>2, Gathering
  <1>7. UNION {n.value : n \in got[r]} = Behind(setting, r, t + 1)
    BY <1>3, <1>4, <1>6
  <1>8. GatheredAfter(r) = Within(setting, r, t + 1)
    BY <1>5, <1>6, <1>7 DEF GatheredAfter
  <1>. QED  BY <1>7, <1>8 DEF t

LEMMA StepSums ==
  ASSUME StagesInv, Held, TakenInPhase, SumsInv, NEW r \in World, status[r] = "run", Complete(r)
  PROVE  SummedAfter(r)
  BY ReduceAfter, ShareAfter, PassAfter DEF SummedAfter

\* What the first step of a reduction and of an allgather begins with.
LEMMA FirstSums ==
  ASSUME NEW s, ValidTopology(s), NEW r \in Ranks(s)
  PROVE  /\ \A k \in Ranks(s) : Dist(s, r, k) <= 0 => Upto(s, k, Dist(s, r, k)) = {r}
         /\ Behind(s, r, 0) = {r} /\ Within(s, r, 0) = {r}
  <1>1. 0 \in 0 .. s.world - 2
    BY DEF ValidTopology
  <1>2. \A k \in Ranks(s) : Dist(s, r, k) <= 0 => Dist(s, r, k) = 0
    <2>1. \A k \in Ranks(s) : Dist(s, r, k) \in 0 .. s.world - 1 /\ s.world \in Nat
      BY Distances
    <2>. QED  BY <2>1
  <1>3. PICK x \in Ranks(s) : <<x, r>> \in Around(s, Ranks(s))
    BY Predecessor
  <1>4. Behind(s, r, 0) = {r} /\ Within(s, r, 0) = {r}
    BY <1>1, <1>3, Gathering
  <1>5. \A k \in Ranks(s) : Dist(s, r, k) = 0 => Upto(s, k, Dist(s, r, k)) = {r}
    BY <1>1, Summing
  <1>. QED  BY <1>2, <1>4, <1>5

\* A message holds what its sender has.
LEMMA SentContents ==
  ASSUME PlaceInv, SumsInv, NEW r \in World, NEW y, NEW n
  PROVE  Contents(Message(r, y, n))
  <1>. DEFINE m == Message(r, y, n)
              t == Stages[pc[r]].step
              W == setting.world
  <1>1. m.src = r /\ m.at = pc[r] /\ m.size = Stages[pc[r]].size /\ m.value = Value(r)
    BY DEF Message, Here, Stages
  <1>. HIDE DEF m
  <1>2. /\ ValidTopology(setting) /\ World = Ranks(setting) /\ W \in Nat /\ W > 1
        /\ Stages[pc[r]].kind \in RingKinds => t \in 0 .. W - 2
    BY RingStages, Positions DEF InTurn, ValidTopology
  <1>3. CASE Stages[pc[r]].kind = "reduce"
    <2>. DEFINE z == 0
                c == (Position(setting, r) - t + z) % W
    <2>1. t \in 0 .. W - 2 /\ z \in {-1, 0, 1} /\ t - z = t /\ ~(t - z < 0)
      BY <1>2, <1>3 DEF RingKinds
    <2>2. Value(r) = Chunks(r)[c]
      BY <1>3 DEF Value, ChunkToSend, Chunk, Here, Stages
    <2>3. c \in World /\ Dist(setting, r, c) = t
      <3>. HIDE DEF z, t, W
      <3>1. /\ (Position(setting, r) - t + z) % W \in World
            /\ Dist(setting, r, (Position(setting, r) - t + z) % W) = IF t - z < 0 THEN W - 1 ELSE t - z
        BY <1>2, <2>1, ChunkDistance DEF W
      <3>. HIDE DEF c
      <3>. QED  BY <2>1, <3>1 DEF c
    <2>. HIDE DEF c
    <2>4. Chunks(r)[c] = Upto(setting, c, t)
      <3>1. \A k \in World : Chunks(r)[k] = IF Dist(setting, r, k) <= t
                                            THEN Upto(setting, k, Dist(setting, r, k)) ELSE {r}
        BY <1>3 DEF SumsInv, Summed
      <3>. HIDE DEF t
      <3>2. t <= t
        BY <1>2, <2>1
      <3>. QED  BY <2>3, <3>1, <3>2
    <2>. QED  BY <1>1, <1>3, <2>2, <2>4 DEF Contents, c, m
  <1>4. CASE Stages[pc[r]].kind = "share"
    <2>. DEFINE z == 1
                c == (Position(setting, r) - t + z) % W
    <2>1. t \in 0 .. W - 2 /\ z \in {-1, 0, 1} /\ (t - z < 0 <=> t = 0) /\ t - z = t - 1
      BY <1>2, <1>4 DEF RingKinds
    <2>2. Value(r) = chunks[r][c]
      BY <1>4 DEF Value, ChunkToSend, Chunk, Chunks, Here, Stages
    <2>3. c \in World /\ Dist(setting, r, c) = IF t = 0 THEN W - 1 ELSE t - 1
      <3>. HIDE DEF z, t, W
      <3>1. /\ (Position(setting, r) - t + z) % W \in World
            /\ Dist(setting, r, (Position(setting, r) - t + z) % W) = IF t - z < 0 THEN W - 1 ELSE t - z
        BY <1>2, <2>1, ChunkDistance DEF W
      <3>. HIDE DEF c
      <3>. QED  BY <2>1, <3>1 DEF c
    <2>. HIDE DEF c
    <2>4. Dist(setting, r, c) = W - 1 \/ Dist(setting, r, c) < t
      BY <1>2, <2>1, <2>3
    <2>5. chunks[r][c] = World
      BY <1>4, <2>3, <2>4 DEF SumsInv, Summed
    <2>. QED  BY <1>1, <1>4, <2>2, <2>5 DEF Contents, m
  <1>5. CASE Stages[pc[r]].kind = "pass"
    <2>1. Value(r) = Carried(r)
      BY <1>5 DEF Value, Here, Stages
    <2>2. Carried(r) = Behind(setting, r, t)
      BY <1>5 DEF SumsInv, Summed
    <2>. QED  BY <1>1, <1>5, <2>1, <2>2 DEF Contents, m
  <1>6. CASE Stages[pc[r]].kind \notin RingKinds
    BY <1>1, <1>6 DEF Contents, RingKinds, m
  <1>. QED  BY <1>3, <1>4, <1>5, <1>6 DEF RingKinds

LEMMA ContentsSame ==
  ASSUME setting' = setting, NEW m, Contents(m)
  PROVE  Contents(m)'
  <1>1. World' = World /\ Stages' = Stages
    BY DEF World, Stages
  <1>. QED  BY <1>1 DEF Contents

LEMMA SummedSame ==
  ASSUME setting' = setting, NEW r, pc'[r] = pc[r], Summed(r),
         chunks'[r] = chunks[r], carried'[r] = carried[r], gathered'[r] = gathered[r]
  PROVE  Summed(r)'
  <1>1. World' = World /\ Stages' = Stages /\ Here(r)' = Here(r)
    BY DEF World, Stages, Here
  <1>2. Chunks(r)' = Chunks(r) /\ Carried(r)' = Carried(r) /\ Gathered(r)' = Gathered(r)
    BY <1>1 DEF Chunks, Carried, Gathered
  <1>. QED  BY <1>1, <1>2 DEF Summed

\* A rank that goes on has what the next step begins with.
LEMMA NextSums ==
  ASSUME StagesInv, PlaceInv', Held, TakenInPhase, SumsInv, NEW r \in World, Proceed(r)
  PROVE  Summed(r)'
  <1>1. status[r] = "run" /\ Complete(r) /\ setting' = setting /\ World' = World /\ Stages' = Stages
    BY DEF Proceed, World, Stages
  <1>2. SummedAfter(r)
    BY <1>1, StepSums
  <1>. DEFINE i == pc[r]
              W == setting.world
              D(k) == Dist(setting, r, k)
  <1>3. /\ ValidTopology(setting) /\ World = Ranks(setting) /\ i \in 1 .. Len(Stages) /\ Len(Stages) \in Nat
        /\ \A k \in 1 .. Len(Stages) : InTurn(setting, Stages, k)
        /\ W \in Nat /\ W > 1
    BY RingStages, Positions DEF StagesInv, ValidTopology
  <1>4. /\ chunks = [x \in World |-> chunks[x]] /\ carried = [x \in World |-> carried[x]]
        /\ gathered = [x \in World |-> gathered[x]]
    BY DEF SumsInv
  <1>5. /\ Stages[i].kind \in {"reduce", "share"} => chunks'[r] = ChunksAfter(r)
        /\ Stages[i].kind = "pass" => /\ carried'[r] = UNION {m.value : m \in got[r]}
                                      /\ gathered'[r] = GatheredAfter(r)
    BY <1>4 DEF Proceed, Here, Stages
  <1>6. CASE AtEnd(r)
    <2>1. pc' = pc /\ Stages[i].kind = "results"
      <3>1. Shape(setting, Stages) /\ i = Len(Stages)
        BY <1>6, Shaped DEF StagesInv, PlaceInv, AtEnd, Stages
      <3>. QED  BY <1>3, <1>6, <3>1 DEF Proceed, Shape
    <2>2. Stages'[pc'[r]].kind = "results"
      BY <1>1, <2>1
    <2>. QED  BY <2>2 DEF Summed
  <1>7. CASE ~AtEnd(r)
    <2>. DEFINE j == i + 1
                t == Stages[j].step
                u == Stages[i].step
    <2>1. pc'[r] = j /\ j \in 1 .. Len(Stages) /\ j - 1 = i
      <3>1. pc' = [pc EXCEPT ![r] = @ + 1] /\ pc \in [World -> 1 .. Len(Stages)]
        BY <1>7 DEF Proceed, StagesInv, PlaceInv
      <3>2. i # Len(Stages)
        BY <1>7 DEF AtEnd, Stages
      <3>. QED  BY <1>3, <3>1, <3>2
    <2>2. Here(r)' = Stages[j] /\ Stages'[pc'[r]] = Stages[j]
      BY <1>1, <2>1 DEF Here, Stages
    <2>3. InTurn(setting, Stages, j)
      BY <1>3, <2>1
    <2>. HIDE DEF j
    <2>4. Stages[j].kind \in RingKinds =>
            /\ t \in 0 .. W - 2 /\ (t > 0 => Stages[i].kind = Stages[j].kind /\ u = t - 1)
            /\ Stages[j].kind = "share" /\ t = 0 => Stages[i].kind = "reduce" /\ u = W - 2
      BY <2>1, <2>3 DEF InTurn
    <2>. HIDE DEF t, u, i, W
    <2>5. CASE Stages[j].kind \notin RingKinds
      BY <2>2, <2>5 DEF Summed, RingKinds
    <2>6. CASE Stages[j].kind \in {"reduce", "pass"} /\ t = 0
      <3>1. /\ \A k \in World : D(k) <= 0 => Upto(setting, k, D(k)) = {r}
            /\ Behind(setting, r, 0) = {r} /\ Within(setting, r, 0) = {r}
        BY <1>3, FirstSums
      <3>2. CASE Stages[j].kind = "reduce"
        <4>1. Chunks(r)' = [k \in World |-> {r}]
          BY <1>1, <2>2, <2>6, <3>2 DEF Chunks, t
        <4>2. \A k \in World : Chunks(r)'[k] = IF D(k) <= 0 THEN Upto(setting, k, D(k)) ELSE {r}
          BY <3>1, <4>1
        <4>. QED  BY <1>1, <2>2, <2>6, <3>2, <4>2 DEF Summed, t
      <3>3. CASE Stages[j].kind = "pass"
        <4>1. Carried(r)' = {r} /\ Gathered(r)' = {r}
          BY <2>2, <2>6 DEF Carried, Gathered, t
        <4>. QED  BY <1>1, <2>2, <2>6, <3>1, <3>3, <4>1 DEF Summed, t
      <3>. QED  BY <2>6, <3>2, <3>3
    <2>7. CASE Stages[j].kind = "reduce" /\ t # 0
      <3>1. t > 0 /\ u + 1 = t /\ Stages[i].kind = "reduce" /\ W \in Nat
        BY <1>3, <2>4, <2>7 DEF RingKinds
      <3>2. Chunks(r)' = ChunksAfter(r)
        BY <1>5, <2>2, <2>7, <3>1 DEF Chunks, t
      <3>3. \A k \in World : ChunksAfter(r)[k] = IF D(k) <= t THEN Upto(setting, k, D(k)) ELSE {r}
        BY <1>2, <3>1 DEF SummedAfter, i, u
      <3>. QED  BY <1>1, <2>2, <2>7, <3>2, <3>3 DEF Summed, t
    <2>8. CASE Stages[j].kind = "share" /\ t = 0
      <3>1. u + 1 = W - 1 /\ Stages[i].kind = "reduce" /\ W \in Nat
        BY <1>3, <2>4, <2>8 DEF RingKinds
      <3>2. chunks'[r] = ChunksAfter(r)
        BY <1>5, <3>1
      <3>3. \A k \in World : ChunksAfter(r)[k] = IF D(k) <= W - 1 THEN Upto(setting, k, D(k)) ELSE {r}
        BY <1>2, <3>1 DEF SummedAfter, i, u
      <3>4. \A k \in World : D(k) \in 0 .. W - 1 /\ (D(k) = W - 1 => Upto(setting, k, D(k)) = World)
        <4>1. 0 \in 0 .. W - 2
          BY <1>3
        <4>. QED  BY <1>3, <4>1, Distances, Summing DEF W
      <3>5. \A k \in World : D(k) = W - 1 \/ D(k) < 0 => ChunksAfter(r)[k] = World
        BY <1>3, <3>3, <3>4
      <3>. QED  BY <1>1, <2>2, <2>8, <3>2, <3>5 DEF Summed, t, W
    <2>9. CASE Stages[j].kind = "share" /\ t # 0
      <3>1. t > 0 /\ u + 1 = t /\ Stages[i].kind = "share" /\ W \in Nat
        BY <1>3, <2>4, <2>9 DEF RingKinds
      <3>2. chunks'[r] = ChunksAfter(r)
        BY <1>5, <3>1
      <3>3. \A k \in World : D(k) = W - 1 \/ D(k) < t => ChunksAfter(r)[k] = World
        BY <1>2, <3>1 DEF SummedAfter, i, u, W
      <3>. QED  BY <1>1, <2>2, <2>9, <3>2, <3>3 DEF Summed, t, W
    <2>10. CASE Stages[j].kind = "pass" /\ t # 0
      <3>1. t > 0 /\ u + 1 = t /\ Stages[i].kind = "pass" /\ W \in Nat
        BY <1>3, <2>4, <2>10 DEF RingKinds
      <3>2. Carried(r)' = UNION {m.value : m \in got[r]} /\ Gathered(r)' = GatheredAfter(r)
        BY <1>5, <2>2, <2>10, <3>1 DEF Carried, Gathered, t
      <3>3. UNION {m.value : m \in got[r]} = Behind(setting, r, t) /\ GatheredAfter(r) = Within(setting, r, t)
        BY <1>2, <3>1 DEF SummedAfter, i, u
      <3>. QED  BY <1>1, <2>2, <2>10, <3>2, <3>3 DEF Summed, t
    <2>. QED  BY <2>5, <2>6, <2>7, <2>8, <2>9, <2>10 DEF RingKinds
  <1>. QED  BY <1>6, <1>7

\* What a step must establish when it leaves the setting alone.
LEMMA SumsNext ==
  ASSUME setting' = setting, \A m \in net' : Contents(m), \A r \in World : \A m \in got'[r] : Contents(m),
         chunks' = [r \in World |-> chunks'[r]], carried' = [r \in World |-> carried'[r]],
         gathered' = [r \in World |-> gathered'[r]],
         \A r \in World : chunks'[r] = [k \in World |-> chunks'[r][k]],
         \A r \in World : Summed(r)'
  PROVE  SumsInv'
  <1>1. World' = World
    BY DEF World
  <1>2. \A m : Contents(m) => Contents(m)'
    BY ContentsSame
  <1>3. (\A m \in net : Contents(m))' /\ (\A r \in World : \A m \in got[r] : Contents(m))'
    BY <1>1, <1>2
  <1>. QED  BY <1>1, <1>3 DEF SumsInv

\* A step that neither moves a rank nor changes its data.
LEMMA SumsSame ==
  ASSUME SumsInv, UNCHANGED <<setting, pc, chunks, carried, gathered>>,
         \A m \in net' : Contents(m), \A r \in World : \A m \in got'[r] : Contents(m)
  PROVE  SumsInv'
  <1>1. \A r \in World : Summed(r)'
    <2>1. ASSUME NEW r \in World PROVE Summed(r)'
      <3>1. Summed(r)
        BY DEF SumsInv
      <3>. QED  BY <3>1, SummedSame
    <2>. QED  BY <2>1
  <1>2. /\ chunks = [r \in World |-> chunks[r]] /\ carried = [r \in World |-> carried[r]]
        /\ gathered = [r \in World |-> gathered[r]]
        /\ \A r \in World : chunks[r] = [k \in World |-> chunks[r][k]]
    BY DEF SumsInv
  <1>. QED  BY <1>1, <1>2, SumsNext

LEMMA ProceedSums ==
  ASSUME StagesInv, PlaceInv', Held, TakenInPhase, SumsInv, NEW r \in World, Proceed(r)
  PROVE  SumsInv'
  <1>1. /\ chunks = [x \in World |-> chunks[x]] /\ carried = [x \in World |-> carried[x]]
        /\ gathered = [x \in World |-> gathered[x]]
        /\ \A x \in World : chunks[x] = [k \in World |-> chunks[x][k]]
    BY DEF SumsInv
  <1>2. /\ setting' = setting /\ net' = net
        /\ chunks' = IF Here(r).kind \in {"reduce", "share"} THEN [chunks EXCEPT ![r] = ChunksAfter(r)] ELSE chunks
        /\ carried' = IF Here(r).kind = "pass" THEN [carried EXCEPT ![r] = UNION {m.value : m \in got[r]}] ELSE carried
        /\ gathered' = IF Here(r).kind = "pass" THEN [gathered EXCEPT ![r] = GatheredAfter(r)] ELSE gathered
    BY DEF Proceed
  <1>3. \A x \in World \ {r} : chunks'[x] = chunks[x] /\ carried'[x] = carried[x] /\ gathered'[x] = gathered[x]
    BY <1>1, <1>2
  <1>4. chunks' = [x \in World |-> chunks'[x]]
    BY <1>1, <1>2
  <1>5. carried' = [x \in World |-> carried'[x]] /\ gathered' = [x \in World |-> gathered'[x]]
    BY <1>1, <1>2
  <1>6. \A x \in World : chunks'[x] = [k \in World |-> chunks'[x][k]]
    <2>1. ASSUME NEW x \in World, x # r PROVE chunks'[x] = [k \in World |-> chunks'[x][k]]
      BY <1>1, <1>3, <2>1
    <2>2. CASE Here(r).kind \in {"reduce", "share"}
      <3>1. chunks'[r] = ChunksAfter(r)
        BY <1>1, <1>2, <2>2
      <3>2. SummedAfter(r)
        BY StepSums DEF Proceed
      <3>3. ChunksAfter(r) = [k \in World |-> ChunksAfter(r)[k]]
        BY <2>2, <3>2 DEF SummedAfter, Here, Stages
      <3>. QED  BY <2>1, <3>1, <3>3
    <2>3. CASE Here(r).kind \notin {"reduce", "share"}
      BY <1>1, <1>2, <2>3
    <2>. QED  BY <2>2, <2>3
  <1>7. pc \in [World -> 1 .. Len(Stages)] /\ got = [x \in World |-> got[x]]
    BY DEF StagesInv, PlaceInv
  <1>8. \A x \in World \ {r} : pc'[x] = pc[x]
    BY <1>7, ProceedEffect DEF Advances, Ends
  <1>9. \A x \in World : Summed(x)'
    <2>1. ASSUME NEW x \in World, x # r PROVE Summed(x)'
      <3>1. Summed(x)
        BY DEF SumsInv
      <3>. QED  BY <1>2, <1>3, <1>8, <2>1, <3>1, SummedSame
    <2>. QED  BY <2>1, NextSums
  <1>10. \A x \in World : \A m \in got'[x] : Contents(m)
    <2>1. \A x \in World : got'[x] \subseteq got[x]
      BY <1>7, ProceedEffect
    <2>. QED  BY <2>1 DEF SumsInv
  <1>11. \A m \in net' : Contents(m)
    BY <1>2 DEF SumsInv
  <1>. QED  BY <1>2, <1>4, <1>5, <1>6, <1>9, <1>10, <1>11, SumsNext

LEMMA SumsStep ==
  ASSUME StagesInv, PlaceInv', Held, TakenInPhase, SumsInv, [Next]_vars
  PROVE  SumsInv'
  <1>1. /\ \A m \in net : Contents(m)
        /\ \A r \in World : \A m \in got[r] : Contents(m)
    BY DEF SumsInv
  <1>2. CASE UNCHANGED vars
    BY <1>1, <1>2, SumsSame DEF vars, opVars, dataVars
  <1>3. ASSUME NEW r \in World, Send(r) \/ SendTimesOut(r)
        PROVE  SumsInv'
    <2>1. UNCHANGED <<setting, pc, chunks, carried, gathered>> /\ got' = got
      BY <1>3 DEF Send, SendTimesOut, dataVars
    <2>2. \E y, n : net' = net \cup {Message(r, y, n)}
      BY <1>3 DEF Send, SendTimesOut
    <2>3. \A m \in net' : Contents(m)
      BY <1>1, <2>2, SentContents DEF StagesInv
    <2>. QED  BY <1>1, <2>1, <2>3, SumsSame
  <1>4. ASSUME NEW r \in World, Receive(r)
        PROVE  SumsInv'
    <2>1. UNCHANGED <<setting, pc, chunks, carried, gathered>>
      BY <1>4 DEF Receive, dataVars
    <2>2. PICK x \in awaited[r], m \in net : Incoming(r, x, m)
      BY <1>4, ReceiveEffect
    <2>3. net' \subseteq net /\ \A z \in World : got'[z] \subseteq got[z] \cup {m}
      BY <2>2 DEF Incoming, StagesInv, PlaceInv
    <2>. QED  BY <1>1, <2>1, <2>2, <2>3, SumsSame
  <1>5. ASSUME NEW r \in World, Reject(r) \/ Break(r) \/ DraggedAlong(r)
        PROVE  SumsInv'
    <2>1. UNCHANGED <<setting, pc, chunks, carried, gathered>> /\ net' = net /\ got' = got
      BY <1>5 DEF Reject, Break, DraggedAlong, Fail, opVars, dataVars
    <2>. QED  BY <1>1, <2>1, SumsSame
  <1>. QED  BY <1>2, <1>3, <1>4, <1>5, ProceedSums DEF Next, Step

LEMMA SumsInit ==
  ASSUME Init
  PROVE  SumsInv
  <1>1. StagesInv
    BY Initially
  <1>2. /\ setting \in Settings /\ Valid(setting)
        /\ pc = [r \in World |-> 1] /\ net = {} /\ got = [r \in World |-> {}]
    BY ClusterAssumption DEF Init
  <1>3. PlanParts(setting, Stages)
    BY <1>2, PlanHasParts DEF Stages, Plan
  <1>4. Stages[1].kind \in ControlKinds
    BY <1>3 DEF PlanParts
  <1>5. \A r \in World : Summed(r)
    BY <1>2, <1>4 DEF Summed, ControlKinds
  <1>. QED  BY <1>2, <1>5 DEF SumsInv, Init

LEMMA AllRight ==
  ASSUME StagesInv, Held, TakenInPhase, SumsInv, ControlApart(setting, Stages)
  PROVE  ResultsRight
  <1>. SUFFICES ASSUME NEW r \in World, Complete(r), status[r] = "run"
                PROVE  /\ Here(r).tag # Control \/ retries = 0 => Accepted(r)
                       /\ Here(r).tag # Control /\ Here(r).step = setting.world - 2 =>
                            /\ Here(r).kind = "share" => \A k \in World : ChunksAfter(r)[k] = World
                            /\ Here(r).kind = "pass" => GatheredAfter(r) = World
    BY DEF ResultsRight
  <1>. DEFINE st == Stages[pc[r]]
  <1>1. /\ Here(r) = st /\ pc[r] \in 1 .. Len(Stages) /\ Len(Stages) \in Nat
        /\ ValidTopology(setting) /\ World = Ranks(setting)
    BY Positions, RingStages DEF StagesInv, Here, Stages
  <1>2. st.kind \in ControlKinds <=> st.tag = Control
    BY <1>1, Placed DEF StagesInv
  <1>3. \A m \in got[r] : /\ m.tag = st.tag /\ Contents(m) /\ (m.kind \in Exact => m.at = pc[r])
                          /\ m.at \in 1 .. Len(Stages) /\ m.kind = Stages[m.at].kind /\ m.tag = Stages[m.at].tag
    <2>1. ASSUME NEW m \in got[r]
          PROVE  m.at \in 1 .. Len(Stages) /\ m.kind = Stages[m.at].kind /\ m.tag = Stages[m.at].tag
      <3>1. m.src \in World /\ m.at \in 1 .. pc[m.src] /\ m.kind = Stages[m.at].kind /\ m.tag = Stages[m.at].tag
        BY DEF StagesInv, MessagesInv, Genuine
      <3>2. pc[m.src] \in 1 .. Len(Stages)
        BY <3>1, Positions DEF StagesInv
      <3>. QED  BY <1>1, <3>1, <3>2
    <2>. QED  BY <2>1 DEF Held, SumsInv
  <1>4. st.tag # Control => \A m \in got[r] : m.at = pc[r] /\ m.size = st.size
    BY <1>1, <1>3 DEF TakenInPhase, Contents
  <1>5. retries = 0 => ControlAccepted(r)
    <2>. SUFFICES ASSUME retries = 0, st.tag = Control, NEW m \in got[r]
                  PROVE  m.kind = st.kind
      BY <1>1 DEF ControlAccepted
    <2>1. m.kind \in ControlKinds
      BY <1>3, Placed DEF StagesInv
    <2>2. m.at = pc[r]
      BY <1>3, <2>1 DEF Exact
    <2>. QED  BY <1>3, <2>2
  <1>6. LengthAccepted(r)
    BY <1>1, <1>2, <1>4 DEF LengthAccepted, ControlKinds
  <1>7. SummedAfter(r)
    BY StepSums
  <1>8. setting.world \in Nat /\ setting.world > 1 /\ (setting.world - 2) + 1 = setting.world - 1
    BY <1>1 DEF ValidTopology
  <1>9. \A k \in World : Dist(setting, r, k) \in 0 .. setting.world - 1
    BY <1>1, Distances
  <1>10. ASSUME st.kind = "share", st.step = setting.world - 2
         PROVE  \A k \in World : ChunksAfter(r)[k] = World
    <2>1. \A k \in World : Dist(setting, r, k) = setting.world - 1 \/ Dist(setting, r, k) < setting.world - 1 =>
                ChunksAfter(r)[k] = World
      BY <1>7, <1>8, <1>10 DEF SummedAfter
    <2>2. \A k \in World : Dist(setting, r, k) = setting.world - 1 \/ Dist(setting, r, k) < setting.world - 1
      BY <1>8, <1>9
    <2>. QED  BY <2>1, <2>2
  <1>11. ASSUME st.kind = "pass", st.step = setting.world - 2
         PROVE  GatheredAfter(r) = World
    <2>1. GatheredAfter(r) = Within(setting, r, setting.world - 1)
      BY <1>7, <1>8, <1>11 DEF SummedAfter
    <2>2. Within(setting, r, setting.world - 1) = World
      <3>1. 0 \in 0 .. setting.world - 2
        BY <1>8
      <3>2. PICK x \in World : <<x, r>> \in Around(setting, World)
        BY <1>1, Predecessor
      <3>. QED  BY <1>1, <3>1, <3>2, Gathering
    <2>. QED  BY <2>1, <2>2
  <1>12. ChunksAccepted(r)
    BY <1>1, <1>10 DEF ChunksAccepted
  <1>13. ControlAccepted(r) \/ st.tag = Control
    BY <1>1 DEF ControlAccepted
  <1>. QED  BY <1>1, <1>5, <1>6, <1>10, <1>11, <1>12, <1>13 DEF Accepted

\* Whatever settings the tags keep apart: a rank that has all messages of a step
\* finds nothing to object to, unless a repeated "ready" was taken for something
\* else; an allgather ends with the item of every rank, and a block of an
\* allreduce with the part of every rank, once, in every chunk.
THEOREM CollectivesAreRight ==
  ASSUME \A s \in Settings : SizesApart(s) /\ AnswersApart(s)
  PROVE  Spec => []ResultsRight
  <1>1. StagesInv => ControlApart(setting, Stages)
    <2>1. ASSUME StagesInv PROVE ControlApart(setting, Stages)
      <3>1. setting \in Settings
        BY <2>1 DEF StagesInv, PlaceInv
      <3>. QED  BY <3>1, AllApart DEF Stages
    <2>. QED  BY <2>1
  <1>2. StagesInv /\ Held => TakenInPhase
    BY <1>1, TakenThere DEF ControlApart
  <1>3. StagesInv /\ Held /\ SumsInv => ResultsRight
    BY <1>1, <1>2, AllRight
  <1>4. Init => SumsInv
    BY SumsInit
  <1>5. StagesInv /\ Held /\ SumsInv /\ StagesInv' /\ [Next]_vars => SumsInv'
    <2>1. StagesInv' => PlaceInv'
      BY DEF StagesInv
    <2>. QED  BY <1>2, <2>1, SumsStep
  <1>. QED  BY <1>3, <1>4, <1>5, HeldKept, PTL DEF Spec

---------------------------------------------------------------------------
(* Nobody waits for what will not come                                     *)

\* A rank that runs can take a step: send, receive, go on or give up.
Moves(r) ==
    \/ unsent[r] # {}
    \/ \E x \in awaited[r] : For(r, x) # {} \/ NodeClosed(x)
    \/ NodeClosed(r)
    \/ Complete(r) /\ NodeReady(r)

SomeoneMoves == (\E r \in World : status[r] = "run") => \E r \in World : status[r] = "run" /\ Moves(r)

\* What was sent and not received is under way.
Underway ==
    \A i \in 1 .. Len(Stages) : \A x, y \in World :
        <<x, y>> \in Stages[i].links /\ Told(x, y, i) /\ ~Heard(y, x, i) =>
            \E m \in net : /\ m.src = x /\ m.dst = y /\ m.tag = Stages[i].tag
                           /\ Stages[i].kind \in Exact => m.at = i

\* Only the opening of a cluster repeats a message, and a worker that has heard
\* "go" heard it from a controller that had all "ready".
Openings ==
    IF setting.cluster
    THEN \A w \in Workers(setting) :
            Heard(w, 0, 2) \/ (\E m \in net : m.src = 0 /\ m.dst = w /\ m.tag = Control) => pc[0] > 1
    ELSE retries = 0

DoneHaveSent == \A x \in World : status[x] = "done" => pc[x] = Len(Stages) /\ unsent[x] = {}

LEMMA ControlStages ==
  ASSUME PlaceInv
  PROVE  /\ \A k \in 1 .. Len(Stages) : Stages[k].tag = Control <=> (k = 1 \/ k = 2 \/ k = Len(Stages))
         /\ \A k \in 1 .. Len(Stages) : Stages[k].kind \in ControlKinds <=> Stages[k].tag = Control
         /\ 1 \in 1 .. Len(Stages) /\ 2 \in 1 .. Len(Stages) /\ Len(Stages) \in 1 .. Len(Stages)
         /\ Len(Stages) \in Nat /\ Len(Stages) > 3
         /\ setting.cluster => /\ Stages[1].links = ToController(setting)
                               /\ Stages[2].links = FromController(setting)
         /\ ~setting.cluster => \A k \in 1 .. Len(Stages) : Stages[k].kind # "ready"
         /\ Stages[Len(Stages)].links = ToController(setting)
         /\ 0 \notin Workers(setting) /\ Workers(setting) \subseteq World
  <1>1. setting \in Settings /\ Valid(setting)
    BY ClusterAssumption DEF PlaceInv
  <1>2. PlanParts(setting, Stages)
    BY <1>1, PlanHasParts DEF Stages, Plan
  <1>3. Len(RoundStages(setting)) >= 1
    <2>1. setting.collectives \in Seq(Collectives) /\ setting.collectives # <<>>
      BY <1>1 DEF Valid, ValidRounds
    <2>2. 1 \in 1 .. Len(setting.collectives)
      <3>1. Len(setting.collectives) # 0
        BY <2>1, EmptySeq
      <3>. QED  BY <2>1, <3>1
    <2>. DEFINE c == setting.collectives[1]
    <2>3. PICK z \in Nat : \E d : /\ c = "ring_allreduce" => z >= setting.world
                                  /\ Inside(CollectiveStages(setting, c, z, 0), RoundStages(setting), d)
      BY <1>1, <2>2, RoundsContain
    <2>4. c \in Collectives /\ 0 \in Nat
      BY <1>1, <2>2, RoundsContain
    <2>. DEFINE p == CollectiveStages(setting, c, z, 0)
    <2>. HIDE DEF c
    <2>5. \E k : k \in 1 .. Len(p)
      <3>1. CASE c = "broadcast"
        <4>1. p = BroadcastStages(setting, z, 0)
          BY <3>1 DEF CollectiveStages
        <4>2. Len(p) = 1
          BY <4>1 DEF BroadcastStages
        <4>. QED  BY <4>2
      <3>2. CASE c # "broadcast"
        <4>1. Relays(setting, p)
          BY <1>1, <2>3, <2>4, <3>2, CollectiveRelays
        <4>. HIDE DEF p
        <4>. QED  BY <4>1 DEF Relays, Mix
      <3>. QED  BY <3>1, <3>2
    <2>. HIDE DEF p
    <2>6. PICK d : Inside(p, RoundStages(setting), d)
      BY <2>3 DEF p
    <2>7. PICK k \in 1 .. Len(p) : d + k \in 1 .. Len(RoundStages(setting))
      BY <2>5, <2>6 DEF Inside
    <2>8. Len(RoundStages(setting)) \in Nat /\ d + k \in Int
      BY <2>6, <2>7 DEF Inside
    <2>. QED  BY <2>7, <2>8
  <1>4. Len(Stages) \in Nat /\ Len(Stages) > 3
    BY <1>2, <1>3 DEF PlanParts
  <1>5. \A k \in 1 .. Len(Stages) : Stages[k].kind \in ControlKinds <=> Stages[k].tag = Control
    BY Placed
  <1>6. \A k \in 1 .. Len(Stages) : Stages[k].kind \in ControlKinds <=> (k = 1 \/ k = 2 \/ k = Len(Stages))
    BY <1>2 DEF PlanParts
  <1>7. 1 \in 1 .. Len(Stages) /\ 2 \in 1 .. Len(Stages) /\ Len(Stages) \in 1 .. Len(Stages)
    BY <1>4
  <1>8. Stages[Len(Stages)].kind = "results"
    BY <1>7, Placed
  <1>9. ~setting.cluster => \A k \in 1 .. Len(Stages) : Stages[k].kind # "ready"
    BY <1>2, <1>6, <1>8 DEF PlanParts, ControlKinds
  <1>10. 0 \notin Workers(setting) /\ Workers(setting) \subseteq World
    BY DEF Workers, Coordinators, World
  <1>. QED  BY <1>2, <1>4, <1>5, <1>6, <1>7, <1>9, <1>10 DEF PlanParts

LEMMA DoneStep ==
  ASSUME StagesInv, DoneHaveSent, [Next]_vars
  PROVE  DoneHaveSent'
  <1>. USE DEF StagesInv
  <1>1. World' = World /\ Stages' = Stages
    BY PlaceStep DEF World, Stages
  <1>2. /\ pc \in [World -> 1 .. Len(Stages)] /\ unsent \in [World -> SUBSET World]
        /\ status \in [World -> {"run", "done", "failed"}]
    BY DEF PlaceInv
  <1>. SUFFICES ASSUME NEW x \in World, status'[x] = "done"
                PROVE  pc'[x] = Len(Stages) /\ unsent'[x] = {}
    BY <1>1 DEF DoneHaveSent
  <1>3. CASE UNCHANGED vars
    BY <1>3 DEF vars, opVars, DoneHaveSent
  <1>4. ASSUME NEW r \in World, Send(r) \/ SendTimesOut(r)
        PROVE  pc'[x] = Len(Stages) /\ unsent'[x] = {}
    <2>1. pc' = pc /\ status' = status
      BY <1>4, SendEffect
    <2>2. unsent'[x] \subseteq unsent[x]
      BY <1>2, <1>4, SendEffect DEF Outgoing
    <2>. QED  BY <2>1, <2>2 DEF DoneHaveSent
  <1>5. ASSUME NEW r \in World, Receive(r)
        PROVE  pc'[x] = Len(Stages) /\ unsent'[x] = {}
    BY <1>5, ReceiveEffect DEF DoneHaveSent
  <1>6. ASSUME NEW r \in World, Proceed(r)
        PROVE  pc'[x] = Len(Stages) /\ unsent'[x] = {}
    <2>1. CASE Advances(r)
      <3>1. x # r
        BY <1>6, <2>1, ProceedEffect DEF Advances
      <3>. QED  BY <1>2, <2>1, <3>1 DEF Advances, DoneHaveSent
    <2>2. CASE Ends(r)
      <3>1. CASE x = r
        BY <1>2, <1>6, <2>2, <3>1, ProceedEffect DEF Ends, AtEnd, Stages
      <3>2. CASE x # r
        BY <1>2, <2>2, <3>2 DEF Ends, DoneHaveSent
      <3>. QED  BY <3>1, <3>2
    <2>. QED  BY <1>6, <2>1, <2>2, ProceedEffect
  <1>7. ASSUME NEW r \in World, Fails(r)
        PROVE  pc'[x] = Len(Stages) /\ unsent'[x] = {}
    <2>1. status[x] = "done"
      BY <1>2, <1>7 DEF Fails
    <2>. QED  BY <1>7, <2>1 DEF Fails, DoneHaveSent
  <1>. QED  BY <1>3, <1>4, <1>5, <1>6, <1>7, StepCases

LEMMA OpeningsStep ==
  ASSUME StagesInv, Openings, [Next]_vars
  PROVE  Openings'
  <1>. USE DEF StagesInv
  <1>1. setting' = setting /\ World' = World /\ Stages' = Stages /\ \A x \in World : pc[x] <= pc'[x]
    BY PlaceStep DEF World, Stages
  <1>2. /\ pc \in [World -> 1 .. Len(Stages)] /\ awaited \in [World -> SUBSET World]
        /\ unsent \in [World -> SUBSET World] /\ status \in [World -> {"run", "done", "failed"}]
    BY DEF PlaceInv
  <1>3. Len(Stages) \in Nat /\ 0 \in World /\ \A x \in World : pc[x] \in Int /\ pc[x] \in 1 .. Len(Stages)
    BY Positions
  <1>4. CASE ~setting.cluster
    <2>1. retries = 0
      BY <1>4 DEF Openings
    <2>2. retries' = retries
      <3>1. CASE UNCHANGED vars
        BY <3>1 DEF vars
      <3>2. ASSUME NEW r \in World, SendTimesOut(r) PROVE FALSE
        <4>1. Stages[pc[r]].kind = "ready"
          BY <3>2 DEF SendTimesOut, Here, Stages
        <4>. QED  BY <1>3, <1>4, <4>1, ControlStages
      <3>3. ASSUME NEW r \in World, Send(r) \/ Receive(r) \/ Proceed(r) \/ Fails(r) PROVE retries' = retries
        BY <3>3 DEF Send, Receive, Proceed, Fails
      <3>. QED  BY <3>1, <3>2, <3>3, StepCases
    <2>. QED  BY <1>1, <1>4, <2>1, <2>2 DEF Openings
  <1>5. CASE setting.cluster
    <2>1. \A w \in Workers(setting) :
            Heard(w, 0, 2) \/ (\E m \in net : m.src = 0 /\ m.dst = w /\ m.tag = Control) => pc[0] > 1
      BY <1>5 DEF Openings
    <2>. SUFFICES ASSUME NEW w \in Workers(setting),
                         (pc'[w] > 2 \/ (pc'[w] = 2 /\ 0 \notin awaited'[w]))
                            \/ (\E m \in net' : m.src = 0 /\ m.dst = w /\ m.tag = Control)
                  PROVE  pc'[0] > 1
      BY <1>1, <1>5 DEF Openings, Heard
    <2>2. w \in World /\ pc'[0] \in Int /\ pc[0] <= pc'[0]
      <3>1. PlaceInv'
        BY PlaceStep
      <3>. QED  BY <1>1, <1>3, <3>1, ControlStages DEF PlaceInv
    <2>3. SUFFICES pc[0] > 1
      BY <1>3, <2>2
    <2>4. ASSUME pc' = pc, awaited'[w] = awaited[w], net' \subseteq net
          PROVE  pc[0] > 1
      BY <2>1, <2>4 DEF Heard
    <2>5. CASE UNCHANGED vars
      BY <2>4, <2>5 DEF vars, opVars
    <2>6. ASSUME NEW r \in World, Send(r) \/ SendTimesOut(r)
          PROVE  pc[0] > 1
      <3>0. PICK y \in unsent[r] : \E m : Outgoing(r, y, m)
        BY <2>6, SendEffect
      <3>1. PICK m : Outgoing(r, y, m)
        BY <3>0
      <3>2. pc' = pc /\ awaited' = awaited /\ net' = net \cup {m}
        BY <2>6, <3>1, SendEffect DEF Outgoing
      <3>3. CASE m.src = 0 /\ m.dst = w /\ m.tag = Control
        <4>1. r = 0 /\ y = w /\ Stages[pc[0]].tag = Control /\ <<0, w>> \in Stages[pc[0]].links
          BY <3>1, <3>3 DEF Outgoing, PlaceInv, Destinations, Stages
        <4>2. pc[0] = 1 \/ pc[0] = 2 \/ pc[0] = Len(Stages)
          BY <1>3, <4>1, ControlStages
        <4>3. pc[0] # 1
          BY <1>5, <4>1, ControlStages DEF ToController
        <4>. QED  BY <4>2, <4>3, ControlStages
      <3>4. CASE ~(m.src = 0 /\ m.dst = w /\ m.tag = Control)
        BY <2>1, <3>2, <3>4 DEF Heard
      <3>. QED  BY <3>3, <3>4
    <2>7. ASSUME NEW r \in World, Receive(r)
          PROVE  pc[0] > 1
      <3>1. PICK x \in awaited[r], m \in net : Incoming(r, x, m)
        BY <2>7, ReceiveEffect
      <3>2. pc' = pc /\ net' \subseteq net /\ awaited' = [awaited EXCEPT ![r] = @ \ {x}]
        BY <2>7, <3>1, ReceiveEffect DEF Incoming
      <3>3. CASE r = w /\ x = 0 /\ pc[w] = 2
        <4>1. m.src = 0 /\ m.dst = w /\ m.tag = Stages[2].tag
          BY <3>1, <3>3 DEF Incoming
        <4>2. Stages[2].tag = Control
          BY ControlStages
        <4>. QED  BY <2>1, <4>1, <4>2
      <3>4. CASE ~(r = w /\ x = 0 /\ pc[w] = 2)
        <4>1. pc[w] = 2 /\ 0 \notin awaited'[w] => 0 \notin awaited[w]
          BY <1>2, <2>2, <3>2, <3>4
        <4>. QED  BY <2>1, <3>2, <4>1 DEF Heard
      <3>. QED  BY <3>3, <3>4
    <2>8. ASSUME NEW r \in World, Proceed(r)
          PROVE  pc[0] > 1
      <3>1. net' = net /\ awaited[r] = {} /\ setting' = setting
        BY <2>8, ProceedEffect
      <3>2. CASE Ends(r) \/ r # w
        <4>1. CASE Ends(r)
          BY <2>4, <3>1, <4>1 DEF Ends
        <4>2. CASE Advances(r) /\ r # w
          <5>1. pc'[w] = pc[w] /\ awaited'[w] = awaited[w]
            BY <1>2, <2>2, <4>2 DEF Advances
          <5>. QED  BY <2>1, <3>1, <5>1 DEF Heard
        <4>. QED  BY <2>8, <3>2, <4>1, <4>2, ProceedEffect
      <3>3. CASE Advances(r) /\ r = w
        <4>1. pc'[w] = pc[w] + 1 /\ awaited'[w] = Sources(setting, w, pc[w] + 1)
          BY <1>2, <2>2, <3>3 DEF Advances
        <4>2. CASE pc[w] = 1
          <5>1. 0 \in Sources(setting, w, 2)
            <6>1. <<0, w>> \in Stages[2].links
              BY <1>5, ControlStages DEF FromController
            <6>. QED  BY <1>3, <6>1 DEF Sources, World, Stages
          <5>2. pc'[w] = 2 /\ 0 \in awaited'[w]
            BY <4>1, <4>2, <5>1
          <5>. QED  BY <2>1, <3>1, <5>2
        <4>3. CASE pc[w] # 1
          <5>1. pc[w] > 2 \/ pc[w] = 2
            BY <1>3, <2>2, <4>3
          <5>. QED  BY <2>1, <3>1, <3>3, <5>1 DEF Heard
        <4>. QED  BY <4>2, <4>3
      <3>. QED  BY <2>8, <3>2, <3>3, ProceedEffect
    <2>9. ASSUME NEW r \in World, Fails(r)
          PROVE  pc[0] > 1
      BY <2>4, <2>9 DEF Fails
    <2>. QED  BY <2>5, <2>6, <2>7, <2>8, <2>9, StepCases
  <1>. QED  BY <1>4, <1>5

\* A message of the opening or of the results is not taken for another one by
\* somebody who is still waiting for the other one.
LEMMA ControlInTurn ==
  ASSUME StagesInv, Openings, ControlApart(setting, Stages),
         NEW r \in World, NEW x \in awaited[r], NEW i \in 1 .. Len(Stages), pc[r] < i,
         Stages[pc[r]].tag = Stages[i].tag, <<x, r>> \in Stages[i].links, Told(x, r, i)
  PROVE  Stages[i].kind \in Exact
  <1>. USE DEF StagesInv
  <1>. SUFFICES ASSUME Stages[i].kind \notin Exact PROVE FALSE
    OBVIOUS
  <1>1. Stages[i].kind \in Kinds
    BY StageKinds
  <1>2. Stages[i].kind \in ControlKinds /\ retries # 0
    BY <1>1 DEF Exact, ControlApart, Kinds, Guarded, DataKinds, ControlKinds
  <1>3. setting.cluster
    BY <1>2 DEF Openings
  <1>4. Len(Stages) \in Nat /\ x \in World /\ \A z \in World : pc[z] \in Int /\ pc[z] \in 1 .. Len(Stages)
    BY Positions DEF PlaceInv
  <1>5. Stages[i].tag = Control /\ Stages[pc[r]].tag = Control
    BY <1>2, ControlStages
  <1>6. (pc[r] = 1 \/ pc[r] = 2 \/ pc[r] = Len(Stages)) /\ (i = 1 \/ i = 2 \/ i = Len(Stages))
    BY <1>4, <1>5, ControlStages
  <1>7. (pc[r] = 1 \/ pc[r] = 2) /\ (i = 2 \/ i = Len(Stages))
    BY <1>4, <1>6
  <1>8. <<x, r>> \in Stages[pc[r]].links
    BY DEF PlaceInv, Sources, Stages
  <1>9. CASE pc[r] = 2
    <2>1. x = 0 /\ i = Len(Stages)
      BY <1>3, <1>4, <1>7, <1>8, <1>9, ControlStages DEF FromController
    <2>. QED  BY <2>1, ControlStages DEF ToController
  <1>10. CASE pc[r] = 1
    <2>1. r = 0 /\ x \in Workers(setting)
      BY <1>3, <1>8, <1>10, ControlStages DEF ToController
    <2>2. i = Len(Stages)
      BY <1>3, <1>7, <2>1, ControlStages DEF FromController
    <2>3. pc[x] > 2
      BY <1>4, <2>2, ControlStages DEF Told
    <2>4. pc[0] > 1
      BY <1>3, <2>1, <2>3 DEF Openings, Heard
    <2>. QED  BY <1>10, <2>1, <2>4
  <1>. QED  BY <1>7, <1>9, <1>10

LEMMA UnderwayStep ==
  ASSUME StagesInv, Openings, Underway, ControlApart(setting, Stages), [Next]_vars
  PROVE  Underway'
  <1>. USE DEF StagesInv
  <1>1. setting' = setting /\ World' = World /\ Stages' = Stages
    BY PlaceStep DEF World, Stages
  <1>2. /\ pc \in [World -> 1 .. Len(Stages)] /\ awaited \in [World -> SUBSET World]
        /\ unsent \in [World -> SUBSET World]
    BY DEF PlaceInv
  <1>3. Len(Stages) \in Nat /\ \A x \in World : pc[x] \in Int /\ pc[x] \in 1 .. Len(Stages)
    BY Positions
  <1>4. Exact' \subseteq Exact
    <2>1. retries' = retries \/ retries' = retries + 1
      BY StepCases, SendEffect, ReceiveEffect, ProceedEffect DEF Fails, vars, Outgoing
    <2>. QED  BY <1>1, <2>1, ExactLater
  <1>. SUFFICES ASSUME NEW i \in 1 .. Len(Stages), NEW x \in World, NEW y \in World, <<x, y>> \in Stages[i].links,
                       pc'[x] > i \/ (pc'[x] = i /\ y \notin unsent'[x]),
                       ~(pc'[y] > i \/ (pc'[y] = i /\ x \notin awaited'[y]))
                PROVE  \E m \in net' : /\ m.src = x /\ m.dst = y /\ m.tag = Stages[i].tag
                                       /\ Stages[i].kind \in Exact => m.at = i
    <2>1. ASSUME \A i \in 1 .. Len(Stages) : \A x, y \in World :
                    <<x, y>> \in Stages[i].links /\ (pc'[x] > i \/ (pc'[x] = i /\ y \notin unsent'[x]))
                        /\ ~(pc'[y] > i \/ (pc'[y] = i /\ x \notin awaited'[y])) =>
                        \E m \in net' : /\ m.src = x /\ m.dst = y /\ m.tag = Stages[i].tag
                                        /\ Stages[i].kind \in Exact => m.at = i
          PROVE  Underway'
      <3>1. \A i \in 1 .. Len(Stages) : \A x, y \in World :
                    <<x, y>> \in Stages[i].links /\ (pc'[x] > i \/ (pc'[x] = i /\ y \notin unsent'[x]))
                        /\ ~(pc'[y] > i \/ (pc'[y] = i /\ x \notin awaited'[y])) =>
                        \E m \in net' : /\ m.src = x /\ m.dst = y /\ m.tag = Stages[i].tag
                                        /\ Stages[i].kind \in Exact' => m.at = i
        BY <1>4, <2>1
      <3>. QED  BY <1>1, <3>1 DEF Underway, Told, Heard
    <2>. QED  BY <2>1
  <1>5. ASSUME Told(x, y, i), ~Heard(y, x, i)
        PROVE  \E n \in net : /\ n.src = x /\ n.dst = y /\ n.tag = Stages[i].tag
                              /\ Stages[i].kind \in Exact => n.at = i
    BY <1>5 DEF Underway
  <1>6. ASSUME pc' = pc, unsent' = unsent, awaited' = awaited, net' = net
        PROVE  \E m \in net' : /\ m.src = x /\ m.dst = y /\ m.tag = Stages[i].tag
                               /\ Stages[i].kind \in Exact => m.at = i
    BY <1>5, <1>6 DEF Told, Heard
  <1>7. CASE UNCHANGED vars
    BY <1>6, <1>7 DEF vars, opVars
  <1>8. ASSUME NEW r \in World, Send(r) \/ SendTimesOut(r)
        PROVE  \E m \in net' : /\ m.src = x /\ m.dst = y /\ m.tag = Stages[i].tag
                               /\ Stages[i].kind \in Exact => m.at = i
    <2>0. PICK z \in unsent[r] : \E m : Outgoing(r, z, m)
      BY <1>8, SendEffect
    <2>1. PICK m : Outgoing(r, z, m)
      BY <2>0
    <2>2. /\ pc' = pc /\ awaited' = awaited /\ net' = net \cup {m}
          /\ unsent' = unsent \/ unsent' = [unsent EXCEPT ![r] = @ \ {z}]
      BY <1>8, <2>1, SendEffect DEF Outgoing
    <2>3. ~Heard(y, x, i)
      BY <2>2 DEF Heard
    <2>4. CASE Told(x, y, i)
      BY <1>5, <2>2, <2>3, <2>4
    <2>5. CASE ~Told(x, y, i)
      <3>1. pc[x] = i /\ y \in unsent[x] /\ y \notin unsent'[x]
        BY <2>2, <2>5 DEF Told
      <3>2. x = r /\ y = z
        BY <1>2, <2>2, <3>1
      <3>. QED  BY <2>1, <2>2, <3>1, <3>2 DEF Outgoing
    <2>. QED  BY <2>4, <2>5
  <1>9. ASSUME NEW r \in World, Receive(r)
        PROVE  \E m \in net' : /\ m.src = x /\ m.dst = y /\ m.tag = Stages[i].tag
                               /\ Stages[i].kind \in Exact => m.at = i
    <2>1. PICK z \in awaited[r], m \in net : Incoming(r, z, m)
      BY <1>9, ReceiveEffect
    <2>2. /\ pc' = pc /\ unsent' = unsent /\ net' = net \ {m}
          /\ \A w \in World : awaited'[w] = IF w = r THEN awaited[r] \ {z} ELSE awaited[w]
      BY <1>2, <1>9, <2>1, ReceiveEffect DEF Incoming
    <2>3. Told(x, y, i) /\ ~Heard(y, x, i)
      BY <2>2 DEF Told, Heard
    <2>4. PICK n \in net : /\ n.src = x /\ n.dst = y /\ n.tag = Stages[i].tag
                           /\ Stages[i].kind \in Exact => n.at = i
      BY <1>5, <2>3
    <2>5. CASE n # m
      BY <2>2, <2>4, <2>5
    <2>6. CASE n = m
      <3>1. x = z /\ y = r /\ m.tag = Stages[pc[r]].tag /\ Stages[pc[r]].tag = Stages[i].tag
        BY <2>1, <2>4, <2>6 DEF Incoming
      <3>2. pc[r] < i
        BY <1>3, <2>2, <3>1
      <3>3. Stages[i].kind \in Exact
        BY <2>3, <3>1, <3>2, ControlInTurn
      <3>4. m.at = i /\ m.kind \in Exact
        BY <2>4, <2>6, <3>3 DEF MessagesInv, Genuine
      <3>5. m.at = pc[r]
        BY <2>1, <3>4, InPhase DEF Incoming
      <3>. QED  BY <1>3, <3>2, <3>4, <3>5
    <2>. QED  BY <2>5, <2>6
  <1>10. ASSUME NEW r \in World, Proceed(r)
         PROVE  \E m \in net' : /\ m.src = x /\ m.dst = y /\ m.tag = Stages[i].tag
                                /\ Stages[i].kind \in Exact => m.at = i
    <2>1. net' = net /\ unsent[r] = {} /\ awaited[r] = {}
      BY <1>10, ProceedEffect
    <2>2. CASE Ends(r)
      BY <1>6, <2>1, <2>2 DEF Ends
    <2>3. CASE Advances(r)
      <3>1. /\ \A z \in World : pc'[z] = IF z = r THEN pc[r] + 1 ELSE pc[z]
            /\ \A z \in World : unsent'[z] = IF z = r THEN Destinations(setting, r, pc[r] + 1) ELSE unsent[z]
            /\ \A z \in World : awaited'[z] = IF z = r THEN Sources(setting, r, pc[r] + 1) ELSE awaited[z]
        BY <1>2, <2>3 DEF Advances
      <3>2. Told(x, y, i)
        <4>1. CASE x = r
          <5>1. y \in Destinations(setting, r, i)
            BY <4>1 DEF Destinations, World, Stages
          <5>2. pc[r] + 1 > i
            BY <3>1, <4>1, <5>1
          <5>3. pc[r] > i \/ pc[r] = i
            BY <1>3, <5>2
          <5>. QED  BY <2>1, <4>1, <5>3 DEF Told
        <4>2. CASE x # r
          BY <3>1, <4>2 DEF Told
        <4>. QED  BY <4>1, <4>2
      <3>3. ~Heard(y, x, i)
        <4>1. CASE y = r
          <5>1. ~(pc[r] + 1 > i)
            BY <3>1, <4>1
          <5>2. pc[r] < i
            BY <1>3, <5>1
          <5>. QED  BY <1>3, <4>1, <5>2 DEF Heard
        <4>2. CASE y # r
          BY <3>1, <4>2 DEF Heard
        <4>. QED  BY <4>1, <4>2
      <3>. QED  BY <1>5, <2>1, <3>2, <3>3
    <2>. QED  BY <1>10, <2>2, <2>3, ProceedEffect
  <1>11. ASSUME NEW r \in World, Fails(r)
         PROVE  \E m \in net' : /\ m.src = x /\ m.dst = y /\ m.tag = Stages[i].tag
                                /\ Stages[i].kind \in Exact => m.at = i
    BY <1>6, <1>11 DEF Fails
  <1>. QED  BY <1>7, <1>8, <1>9, <1>10, <1>11, StepCases

\* Of the ranks that run, those that are least far have what they wait for.
LEMMA LeastMoves ==
  ASSUME StagesInv, Underway, DoneHaveSent, NEW r \in World, status[r] = "run", ~Complete(r),
         \A x \in World : status[x] = "run" => pc[r] <= pc[x]
  PROVE  SomeoneMoves
  <1>. USE DEF StagesInv
  <1>1. CASE unsent[r] # {}
    BY <1>1 DEF SomeoneMoves, Moves
  <1>2. CASE unsent[r] = {}
    <2>1. PICK x \in awaited[r] : TRUE
      BY <1>2 DEF Complete
    <2>2. /\ x \in World /\ <<x, r>> \in Stages[pc[r]].links
          /\ Len(Stages) \in Nat /\ \A z \in World : pc[z] \in Int /\ pc[z] \in 1 .. Len(Stages)
      BY Positions DEF PlaceInv, Sources, Stages
    <2>3. CASE status[x] = "failed"
      <3>1. x \in Local(setting, x)
        BY <2>2 DEF Local, World
      <3>. QED  BY <2>3, <3>1 DEF SomeoneMoves, Moves, NodeClosed
    <2>4. CASE status[x] # "failed"
      <3>1. status[x] = "run" \/ status[x] = "done"
        BY <2>2, <2>4 DEF PlaceInv
      <3>2. pc[r] <= pc[x] /\ (status[x] = "done" => unsent[x] = {})
        BY <2>2, <3>1 DEF DoneHaveSent
      <3>3. CASE Told(x, r, pc[r])
        <4>1. ~Heard(r, x, pc[r])
          BY <2>2 DEF Heard
        <4>2. PICK m \in net : m.src = x /\ m.dst = r /\ m.tag = Stages[pc[r]].tag
          BY <2>2, <3>3, <4>1 DEF Underway
        <4>3. m \in For(r, x)
          BY <4>2 DEF For, Here, Stages
        <4>. QED  BY <4>3 DEF SomeoneMoves, Moves
      <3>4. CASE ~Told(x, r, pc[r])
        <4>1. r \in unsent[x]
          BY <2>2, <3>2, <3>4 DEF Told
        <4>. QED  BY <2>2, <3>1, <3>2, <4>1 DEF SomeoneMoves, Moves
      <3>. QED  BY <3>3, <3>4
    <2>. QED  BY <2>3, <2>4
  <1>. QED  BY <1>1, <1>2

LEMMA AlwaysMoves ==
  ASSUME StagesInv, Underway, DoneHaveSent
  PROVE  SomeoneMoves
  <1>. USE DEF StagesInv
  <1>. SUFFICES ASSUME NEW q \in World, status[q] = "run"
                PROVE  SomeoneMoves
    BY DEF SomeoneMoves
  <1>1. /\ Len(Stages) \in Nat /\ Len(Stages) > 3
        /\ \A x \in World : pc[x] \in Int /\ pc[x] \in 1 .. Len(Stages)
        /\ \A x \in World : x \in Int
    BY Positions, ControlStages, Shaped DEF PlaceInv
  <1>. DEFINE Least(z) == z \in World /\ status[z] = "run" /\ \A x \in World : status[x] = "run" => pc[z] <= pc[x]
  <1>2. PICK r : Least(r)
    <2>. DEFINE P == {pc[x] : x \in {y \in World : status[y] = "run"}}
    <2>1. P \in SUBSET Nat /\ pc[q] \in P
      BY <1>1
    <2>2. PICK n \in P : \A m \in P : n <= m
      <3>. HIDE DEF P
      <3>. QED  BY <2>1, HasLeast
    <2>3. PICK z \in World : status[z] = "run" /\ pc[z] = n
      BY <2>2
    <2>4. Least(z)
      BY <2>2, <2>3
    <2>. QED  BY <2>4
  <1>3. ASSUME NEW z, Least(z), ~Complete(z) \/ NodeReady(z)
        PROVE  SomeoneMoves
    <2>1. CASE ~Complete(z)
      BY <1>3, <2>1, LeastMoves
    <2>2. CASE Complete(z)
      BY <1>3, <2>2 DEF SomeoneMoves, Moves
    <2>. QED  BY <2>1, <2>2
  <1>4. ASSUME NEW x \in Local(setting, r), ~AtEnd(x), pc[x] <= pc[r]
        PROVE  Least(x) \/ SomeoneMoves
    <2>1. x \in World
      BY DEF Local, World
    <2>2. CASE status[x] = "failed"
      BY <1>2, <2>2 DEF SomeoneMoves, Moves, NodeClosed
    <2>3. CASE status[x] = "done"
      BY <1>4, <2>1, <2>3 DEF DoneHaveSent, AtEnd, Stages
    <2>4. CASE status[x] = "run"
      BY <1>1, <1>2, <1>4, <2>1, <2>4
    <2>. QED  BY <2>1, <2>2, <2>3, <2>4 DEF PlaceInv
  <1>5. CASE NodeReady(r)
    BY <1>2, <1>3, <1>5
  \* A rank that waits for the coordinator of its node to be told to start.
  <1>6. ASSUME Starts(r), r \notin Coordinators(setting),
               NEW c \in Local(setting, r) \cap Coordinators(setting), ~(pc[c] > 2)
        PROVE  SomeoneMoves
    <2>1. c \in World /\ pc[r] = 2 /\ pc[c] <= pc[r] /\ pc[c] + 1 # Len(Stages) /\ pc[c] # Len(Stages)
      BY <1>1, <1>6 DEF Local, World, Starts
    <2>2. NodeReady(c)
      BY <2>1, <1>6 DEF NodeReady, Stages
    <2>. QED  BY <1>3, <1>4, <2>1, <2>2 DEF AtEnd, Stages
  \* A coordinator that waits for a rank of its node to end.
  <1>7. ASSUME pc[r] + 1 = Len(Stages), r \in Coordinators(setting),
               NEW x \in Local(setting, r) \ {r}, ~AtEnd(x)
        PROVE  SomeoneMoves
    <2>1. x \in World /\ r \in World /\ pc[x] # Len(Stages)
      BY <1>2, <1>7 DEF Local, World, AtEnd, Stages
    <2>2. pc[x] <= pc[r] /\ (pc[x] = pc[r] => pc[x] # 2)
      BY <1>1, <1>7, <2>1
    <2>3. x \notin Coordinators(setting)
      <3>1. setting.node[x] = setting.node[r]
        BY DEF Local
      <3>2. x \in Local(setting, r) /\ r \in Local(setting, x)
        BY <2>1, <3>1 DEF Local, World
      <3>3. x \in Coordinators(setting) => r <= x /\ x <= r
        BY <1>7, <3>2 DEF Coordinators
      <3>. QED  BY <1>1, <2>1, <3>3
    <2>4. ASSUME Least(x) PROVE NodeReady(x)
      <3>1. pc[x] = pc[r]
        BY <1>1, <1>2, <2>1, <2>2, <2>4
      <3>. QED  BY <2>2, <2>3, <3>1 DEF NodeReady, Starts
    <2>. QED  BY <1>3, <1>4, <1>7, <2>2, <2>4
  <1>. QED  BY <1>5, <1>6, <1>7 DEF NodeReady, Stages

LEMMA LiveInit ==
  ASSUME Init
  PROVE  Underway /\ Openings /\ DoneHaveSent
  <1>1. StagesInv
    BY Initially
  <1>2. /\ pc = [r \in World |-> 1] /\ net = {} /\ retries = 0
        /\ unsent = [r \in World |-> Destinations(setting, r, 1)]
        /\ awaited = [r \in World |-> Sources(setting, r, 1)]
        /\ status = [r \in World |-> "run"]
    BY DEF Init
  <1>3. DoneHaveSent
    BY <1>2 DEF DoneHaveSent
  <1>4. Openings
    BY <1>1, <1>2, ControlStages DEF StagesInv, Openings, Heard
  <1>5. Underway
    <2>. SUFFICES ASSUME NEW i \in 1 .. Len(Stages), NEW x \in World, NEW y \in World,
                         <<x, y>> \in Stages[i].links, Told(x, y, i)
                  PROVE  FALSE
      BY DEF Underway
    <2>1. ~(pc[x] > i) /\ (pc[x] = i => i = 1 /\ y \in unsent[x])
      BY <1>2 DEF Destinations, World, Stages
    <2>. QED  BY <2>1 DEF Told
  <1>. QED  BY <1>3, <1>4, <1>5

\* As long as a rank runs, some rank that runs can take a step: it has something
\* to send, or something it waits for has come or will not come because a node is
\* closed, or it has all it waited for and its node lets it go on.  However ranks
\* run ahead of each other, messages overtake, a "ready" is repeated and ranks
\* fail, no ranks ever wait for each other in a circle.
THEOREM NobodyWaitsInACircle ==
  ASSUME \A s \in Settings : SizesApart(s) /\ AnswersApart(s)
  PROVE  Spec => []SomeoneMoves
  <1>1. StagesInv => ControlApart(setting, Stages)
    <2>1. ASSUME StagesInv PROVE ControlApart(setting, Stages)
      <3>1. setting \in Settings
        BY <2>1 DEF StagesInv, PlaceInv
      <3>. QED  BY <3>1, AllApart DEF Stages
    <2>. QED  BY <2>1
  <1>2. Init => StagesInv /\ Underway /\ Openings /\ DoneHaveSent
    BY Initially, LiveInit
  <1>3. StagesInv /\ Underway /\ Openings /\ DoneHaveSent /\ [Next]_vars
            => StagesInv' /\ Underway' /\ Openings' /\ DoneHaveSent'
    BY <1>1, StagesStep, UnderwayStep, OpeningsStep, DoneStep
  <1>4. StagesInv /\ Underway /\ DoneHaveSent => SomeoneMoves
    BY AlwaysMoves
  <1>. QED  BY <1>2, <1>3, <1>4, PTL DEF Spec
=============================================================================
