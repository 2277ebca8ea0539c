--------------------------- MODULE CollectivePlan ---------------------------
(***************************************************************************)
(* What the ranks of a benchmark do, in which order, and with which tags   *)
(* (multirank.py).  Every collective is a sequence of stages: in a stage   *)
(* each rank awaits a gather() of sends and receives, and the stage is     *)
(* known by its links, the pairs of ranks between which a message goes.    *)
(* A plan is computed from the settings, which all ranks share.            *)
(***************************************************************************)
EXTENDS Integers, Sequences, FiniteSets, SequencesExt

Ranks(s) == 0 .. s.world - 1

\* ring.index(rank)
Position(s, r) == CHOOSE p \in Ranks(s) : s.ring[p + 1] = r

Neighbour(s, r, d) == s.ring[((Position(s, r) + d) % s.world) + 1]

TaggedOnce(collective, iteration, step) == <<collective, 256 * iteration>>

\* The tag of one step; the bases of the collectives are far apart.
Tagged(collective, iteration, step) == <<collective, 256 * iteration + step>>

Control == <<"control", 0>>

---------------------------------------------------------------------------
(* Stages                                                                  *)

Stage(kind, tag, size, step, links) ==
    [kind |-> kind, tag |-> tag, size |-> size, step |-> step, links |-> links]

Others(s, r) == Ranks(s) \ {r}

FromRank(s, r) == {<<r, x>> : x \in Others(s, r)}

ToRank(s, r) == {<<x, r>> : x \in Others(s, r)}

Around(s, senders) == {<<r, Neighbour(s, r, 1)>> : r \in senders}

ReleaseOnly(s, tag) == <<Stage("release", tag, 0, 0, FromRank(s, 0))>>

BarrierStages(s, tag) ==
    <<Stage("arrive", tag, 0, 0, ToRank(s, 0)), Stage("release", tag, 0, 0, FromRank(s, 0))>>

BroadcastStages(s, size, i) ==
    <<Stage("broadcast", Tagged("broadcast", i, 0), size, 0, FromRank(s, s.root))>>

ActiveAndNext(s, p) ==
    {s.ring[k] : k \in (s.concurrency * p + 1 .. s.concurrency * (p + 1) + 1) \cap 1 .. s.world}

\* Phase p of a ring exchange: the senders whose turn it is.
Active(s, p) == {s.ring[k] : k \in (s.concurrency * p + 1 .. s.concurrency * (p + 1)) \cap 1 .. s.world}

RingExchangeStages(s, size, i) ==
    LET Phase(p) == <<Stage("exchange", Tagged("ring_exchange", i, 2 * p), size, 0, Around(s, Active(s, p)))>>
                    \o BarrierStages(s, Tagged("ring_exchange", i, 2 * p + 1))
        phases == (s.world + s.concurrency - 1) \div s.concurrency
    IN  FlattenSeq([n \in 1 .. phases |-> Phase(n - 1)])

AllToAllStages(s, size, i) ==
    <<Stage("alltoall", Tagged("all_to_all_exchange", i, 0), size, 0,
            UNION {FromRank(s, r) : r \in Ranks(s)})>>

AllgatherStages(s, size, i) ==
    [n \in 1 .. s.world - 1 |->
        Stage("pass", Tagged("allgather", i, n - 1), size, n - 1, Around(s, Ranks(s)))]

\* One block of a shard: each rank adds its part to a chunk on its way around,
\* then the sums go around once more.
BlockStages(s, size, i, first) ==
    LET steps == s.world - 1
        Half(kind, from) == [n \in 1 .. steps |->
            Stage(kind, Tagged("ring_allreduce", i, from + n - 1), size, n - 1, Around(s, Ranks(s)))]
    IN  Half("reduce", first) \o Half("share", first + steps)

LeastOf(a, b) == IF a < b THEN a ELSE b

AllreduceStages(s, size, i) ==
    LET shard == size \div s.world
        block == IF s.block = 0 THEN shard ELSE LeastOf(s.block, shard)
        blocks == (shard + block - 1) \div block
    IN  FlattenSeq([b \in 1 .. blocks |->
            BlockStages(s, LeastOf(block, shard - (b - 1) * block), i, (b - 1) * 2 * (s.world - 1))])

Collectives == {"barrier", "broadcast", "allgather", "ring_allreduce", "ring_exchange", "all_to_all_exchange"}

CollectiveStages(s, collective, size, i) ==
    CASE collective = "barrier"             -> BarrierStages(s, Tagged("barrier", i, 0))
      [] collective = "broadcast"           -> BroadcastStages(s, size, i)
      [] collective = "allgather"           -> AllgatherStages(s, size, i)
      [] collective = "ring_allreduce"      -> AllreduceStages(s, size, i)
      [] collective = "ring_exchange"       -> RingExchangeStages(s, size, i)
      [] collective = "all_to_all_exchange" -> AllToAllStages(s, size, i)

---------------------------------------------------------------------------
(* The plan of a run                                                       *)

Local(s, r) == {x \in Ranks(s) : s.node[x] = s.node[r]}

Coordinators(s) == {r \in Ranks(s) : \A x \in Local(s, r) : r <= x}

Workers(s) == Coordinators(s) \ {0}

FromController(s) == {<<0, w>> : w \in Workers(s)}

ToController(s) == {<<w, 0>> : w \in Workers(s)}

\* The workers of a cluster announce themselves to the controller.
ClusterOpening(s) ==
    <<Stage("ready", Control, 0, 0, ToController(s)), Stage("go", Control, 0, 0, FromController(s))>>

\* A two-sided run is started by rank 0.
TwoSidedOpening(s) ==
    <<Stage("start", Control, 0, 0, FromController(s)), Stage("answer", Control, 0, 0, ToController(s))>>

\* The three loops of _run_rank.
RoundStages(s) ==
    LET Sizes(c) == IF c = "barrier" THEN <<0>> ELSE s.sizes
        Rounds(c, z) == FlattenSeq([i \in 1 .. s.rounds |-> CollectiveStages(s, c, z, i - 1)])
        ForSizes(c) == FlattenSeq([k \in 1 .. Len(Sizes(c)) |-> Rounds(c, Sizes(c)[k])])
    IN  FlattenSeq([k \in 1 .. Len(s.collectives) |-> ForSizes(s.collectives[k])])

ResultStages(s) == <<Stage("results", Control, 0, 0, ToController(s))>>

PlanOf(s) ==
    (IF s.cluster THEN ClusterOpening(s) ELSE TwoSidedOpening(s)) \o RoundStages(s) \o ResultStages(s)

ValidTopology(s) ==
    /\ s.world \in Nat /\ s.world >= 2
    /\ s.ring \in [1 .. s.world -> Ranks(s)] /\ ToSet(s.ring) = Ranks(s)
    /\ Workers(s) # {} /\ (~s.cluster => Cardinality(Workers(s)) = 1)

ValidRounds(s) ==
    /\ s.collectives \in Seq(Collectives) /\ s.collectives # <<>>
    /\ s.rounds \in Nat \ {0} /\ s.sizes \in Seq(Nat \ {0}) /\ s.sizes # <<>> /\ s.block \in Nat

\* _validate_settings_for_world
Valid(s) ==
    /\ ValidTopology(s) /\ ValidRounds(s)
    /\ s.root \in Ranks(s) /\ s.concurrency \in 1 .. s.world
    /\ Contains(s.collectives, "ring_allreduce") =>
        \A k \in 1 .. Len(s.sizes) :
            LET shard == s.sizes[k] \div s.world
            IN  /\ s.sizes[k] % s.world = 0
                /\ s.block # 0 => ((shard + s.block - 1) \div s.block) * 2 * (s.world - 1) <= 256
=============================================================================
