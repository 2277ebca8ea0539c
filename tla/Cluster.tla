------------------------------ MODULE Cluster ------------------------------
(***************************************************************************)
(* A benchmark over several nodes (cluster_benchmark.py, and run_side of   *)
(* multirank.py): ranks that walk the stages of a common plan, each at its *)
(* own speed, nodes that close their Comms when a rank of theirs fails,    *)
(* and messages that may overtake each other, because two connections may  *)
(* lead from one rank to another.                                          *)
(***************************************************************************)
EXTENDS CollectivePlan, FiniteSetsExt

CONSTANTS
    Settings,    \* the settings a run may have
    MayFail,     \* ranks whose sends and receives may time out or fail
    MaxRetries   \* bound: sends that time out although the frame is out

ASSUME ClusterAssumption == \A s \in Settings : Valid(s)

VARIABLES
    setting,    \* the settings of this run
    pc,         \* the stage of each rank
    unsent,     \* ranks it has still to send to in this stage
    awaited,    \* ranks it has still to receive from
    got,        \* messages it received in this stage
    net,        \* messages that were sent and not received
    chunks,     \* ring_allreduce: which ranks' parts are in each chunk
    carried,    \* allgather: the origin of the item to pass on
    gathered,   \* allgather: the origins of the items it has
    status,     \* whether the rank runs, has ended, or failed
    retries     \* sends repeated so far

opVars == <<unsent, awaited, got, net>>
dataVars == <<chunks, carried, gathered>>
vars == <<setting, pc, opVars, dataVars, status, retries>>

Plan == [s \in Settings |-> PlanOf(s)]

World == Ranks(setting)

AllRanks == UNION {Ranks(s) : s \in Settings}

Destinations(s, r, i) == {y \in Ranks(s) : <<r, y>> \in Plan[s][i].links}

Sources(s, r, i) == {x \in Ranks(s) : <<x, r>> \in Plan[s][i].links}

Init ==
    /\ setting \in Settings
    /\ pc = [r \in World |-> 1]
    /\ unsent = [r \in World |-> Destinations(setting, r, 1)]
    /\ awaited = [r \in World |-> Sources(setting, r, 1)]
    /\ got = [r \in World |-> {}]
    /\ net = {}
    /\ chunks = [r \in World |-> [k \in World |-> {}]]
    /\ carried = [r \in World |-> {}]
    /\ gathered = [r \in World |-> {}]
    /\ status = [r \in World |-> "run"]
    /\ retries = 0

---------------------------------------------------------------------------
(* What a rank sends and makes of what it receives                         *)

Here(r) == Plan[setting][pc[r]]

AtEnd(r) == pc[r] = Len(Plan[setting])

Chunk(r, d) == (Position(setting, r) - Here(r).step + d) % setting.world

\* The data of a rank in this stage; the first step starts afresh.
Chunks(r) == IF Here(r).kind = "reduce" /\ Here(r).step = 0 THEN [k \in World |-> {r}] ELSE chunks[r]

Carried(r) == IF Here(r).step = 0 THEN {r} ELSE carried[r]

Gathered(r) == IF Here(r).step = 0 THEN {r} ELSE gathered[r]

SameChunk(r) == Chunk(r, 0)

ChunkToSend(r) == IF Here(r).kind = "reduce" THEN Chunk(r, 0) ELSE Chunk(r, 1)

Value(r) ==
    CASE Here(r).kind \in {"reduce", "share"} -> Chunks(r)[ChunkToSend(r)]
      [] Here(r).kind = "pass"                -> Carried(r)
      [] OTHER                                -> {}

\* Parts are combined with XOR: a part that is added twice is gone.
ChunksAfter(r) ==
    LET m == CHOOSE x \in got[r] : TRUE
    IN  IF Here(r).kind = "reduce" THEN [Chunks(r) EXCEPT ![Chunk(r, -1)] = SymDiff(@, m.value)]
                                   ELSE [Chunks(r) EXCEPT ![Chunk(r, 0)] = m.value]

GatheredAfter(r) == Gathered(r) \cup UNION {m.value : m \in got[r]}

\* The byte that the parts of these ranks make: its bits.
ByteOf(S) == {b \in 0 .. 7 : Cardinality({r \in S : (r \div 2^b) % 2 = 1}) % 2 = 1}

\* The tests the code makes of what arrived: of control messages,
ControlAccepted(r) == Here(r).tag = Control => \A m \in got[r] : m.kind = Here(r).kind

\* of the length of payloads, where a collective looks at it,
LengthAccepted(r) ==
    Here(r).kind \in {"broadcast", "exchange", "alltoall", "reduce"} =>
        \A m \in got[r] : m.size = Here(r).size

\* and of the chunks at the end of a block of an allreduce.
ChunksAccepted(r) ==
    Here(r).kind = "share" /\ Here(r).step = setting.world - 2 =>
        \A k \in World : ByteOf(ChunksAfter(r)[k]) = ByteOf(World)

Accepted(r) == ControlAccepted(r) /\ LengthAccepted(r) /\ ChunksAccepted(r)

---------------------------------------------------------------------------
(* Sends and receives of a stage, in any order                             *)

Message(r, y, n) ==
    [src |-> r, dst |-> y, at |-> pc[r], tag |-> Here(r).tag, kind |-> Here(r).kind,
     size |-> Here(r).size, value |-> Value(r), copy |-> n]

\* A gather() that raises does not stop the sends it started.
Send(r) ==
    /\ \E y \in unsent[r] :
        /\ net' = net \cup {Message(r, y, 0)}
        /\ unsent' = [unsent EXCEPT ![r] = @ \ {y}]
    /\ UNCHANGED <<setting, pc, awaited, got, dataVars, status, retries>>

\* _send_with_retry: the send times out when its frame is already written.
SendTimesOut(r) ==
    /\ status[r] = "run" /\ Here(r).kind = "ready" /\ retries < MaxRetries
    /\ \E y \in unsent[r] : net' = net \cup {Message(r, y, retries + 1)}
    /\ retries' = retries + 1
    /\ UNCHANGED <<setting, pc, unsent, awaited, got, dataVars, status>>

For(r, x) == {m \in net : m.src = x /\ m.dst = r /\ m.tag = Here(r).tag}

Receive(r) ==
    /\ status[r] = "run"
    /\ \E x \in awaited[r] : \E m \in For(r, x) :
        /\ net' = net \ {m}
        /\ got' = [got EXCEPT ![r] = @ \cup {m}]
        /\ awaited' = [awaited EXCEPT ![r] = @ \ {x}]
    /\ UNCHANGED <<setting, pc, unsent, dataVars, status, retries>>

---------------------------------------------------------------------------
(* From stage to stage                                                     *)

Complete(r) == unsent[r] = {} /\ awaited[r] = {}

Starts(r) == pc[r] = 2

NodeNeverWaits(r) == TRUE

\* The ranks of a node start when its coordinator was told to, and the
\* coordinator sends the results of all of them.
NodeReady(r) ==
    /\ Starts(r) /\ r \notin Coordinators(setting) =>
        \A c \in Local(setting, r) \cap Coordinators(setting) : pc[c] > 2
    /\ pc[r] + 1 = Len(Plan[setting]) /\ r \in Coordinators(setting) =>
        \A x \in Local(setting, r) \ {r} : AtEnd(x)

\* The messages of a stage are the results of its gather().
ForgetReceived(r) == [got EXCEPT ![r] = {}]

Proceed(r) ==
    /\ status[r] = "run" /\ Complete(r) /\ Accepted(r) /\ NodeReady(r)
    /\ chunks' = IF Here(r).kind \in {"reduce", "share"} THEN [chunks EXCEPT ![r] = ChunksAfter(r)] ELSE chunks
    /\ carried' = IF Here(r).kind = "pass" THEN [carried EXCEPT ![r] = UNION {m.value : m \in got[r]}] ELSE carried
    /\ gathered' = IF Here(r).kind = "pass" THEN [gathered EXCEPT ![r] = GatheredAfter(r)] ELSE gathered
    /\ got' = ForgetReceived(r)
    /\ IF AtEnd(r)
       THEN status' = [status EXCEPT ![r] = "done"] /\ UNCHANGED <<pc, unsent, awaited>>
       ELSE /\ pc' = [pc EXCEPT ![r] = @ + 1]
            /\ unsent' = [unsent EXCEPT ![r] = Destinations(setting, r, pc[r] + 1)]
            /\ awaited' = [awaited EXCEPT ![r] = Sources(setting, r, pc[r] + 1)]
            /\ UNCHANGED status
    /\ UNCHANGED <<setting, net, retries>>

Fail(r) ==
    /\ status' = [status EXCEPT ![r] = "failed"]
    /\ UNCHANGED <<setting, pc, opVars, dataVars, retries>>

Reject(r) == status[r] = "run" /\ Complete(r) /\ ~Accepted(r) /\ Fail(r)

Break(r) == status[r] = "run" /\ r \in MayFail /\ ~Complete(r) /\ Fail(r)

NeverClosed(x) == FALSE

\* A node whose rank failed closes every Comm it has.
NodeClosed(x) == \E y \in Local(setting, x) : status[y] = "failed"

DraggedAlong(r) ==
    /\ status[r] = "run"
    /\ \/ NodeClosed(r)
       \/ \E x \in unsent[r] : NodeClosed(x)
       \/ \E x \in awaited[r] : NodeClosed(x) /\ For(r, x) = {}
    /\ Fail(r)

---------------------------------------------------------------------------
Step(r) == Send(r) \/ Receive(r) \/ Proceed(r) \/ Reject(r) \/ DraggedAlong(r)

Next == \E r \in World : Step(r) \/ SendTimesOut(r) \/ Break(r)

Spec == Init /\ [][Next]_vars

\* The event loop of every node runs, and TCP delivers what was sent.
FairSpec == Spec /\ \A r \in AllRanks : WF_vars(r \in World /\ Step(r))

---------------------------------------------------------------------------
(* Properties                                                              *)

\* Tags keep the phases apart (_tagged): although ranks run ahead of each other
\* and messages overtake, a rank never takes a message of another step, round
\* or collective for the one it waits for.  Only payload sizes are not told
\* apart by tags; the collectives must keep their ranks close enough for that.
TakenInPhase ==
    \A r \in World : \A m \in got[r] : Here(r).tag # Control => m.at = pc[r]

\* Settings with which that is so: sizes share the tags of a collective, and
\* ranks that are a whole size apart are kept from each other's messages by an
\* iteration in between (allgather, all_to_all_exchange), by the other half of a
\* block (ring_allreduce, whose steps fit between the tags of two iterations
\* up to 129 ranks) or by nothing at all (broadcast, whose root hears nobody).
UsedOnce(s) == Len(s.sizes) = 1 /\ IsInjective(s.collectives)

Uses(s, collective) == Contains(s.collectives, collective)

SizesApart(s) ==
    /\ s.world <= 129
    /\ \/ UsedOnce(s)
       \/ /\ ~Uses(s, "broadcast")
          /\ s.rounds > 1 \/ (~Uses(s, "allgather") /\ ~Uses(s, "all_to_all_exchange"))

\* Control messages carry no number at all.  In a run of two sides "answer" and
\* "results" both come from the other side, which hears rank 0 in between if
\* some collective makes rank 0 send to it; in a cluster, "go" does that.
AnswersApart(s) ==
    s.cluster \/ s.root = 0 \/ \E k \in 1 .. Len(s.collectives) : s.collectives[k] # "broadcast"

\* A rank that has all messages of a step finds nothing to object to, unless a
\* repeated "ready" was taken for something else (_send_with_retry); after the
\* last step of an allgather it has the item of every rank, after the last step
\* of a block of an allreduce every chunk holds the part of every rank once.
ResultsRight ==
    \A r \in World : Complete(r) /\ status[r] = "run" =>
        /\ Here(r).tag # Control \/ retries = 0 => Accepted(r)
        /\ Here(r).tag # Control /\ Here(r).step = setting.world - 2 =>
            /\ Here(r).kind = "share" => \A k \in World : ChunksAfter(r)[k] = World
            /\ Here(r).kind = "pass" => GatheredAfter(r) = World

\* Nobody leaves a barrier before everybody has arrived, in every round and
\* whatever the tags of the rounds before and after.
BarrierHolds ==
    LET Arrived(q, i) == pc[q] >= i \/ (pc[q] = i - 1 /\ unsent[q] = {}) IN
    \A r, q \in World : \A i \in 1 .. pc[r] - 1 :
        Plan[setting][i].kind = "release" => Arrived(q, i)

\* ring_exchange_concurrency: no more flows than that are under way at a time,
\* from the start of a send until the message is received.
ExchangeLimit ==
    LET sending == {f \in World \X World :
                        Here(f[1]).kind = "exchange" /\ f[2] \in unsent[f[1]]}
        flying == {<<m.src, m.dst>> : m \in {x \in net : x.kind = "exchange"}}
    IN  Cardinality(sending \cup flying) <= setting.concurrency

\* A report of the controller covers every rank: none is in an earlier stage.
ReportComplete ==
    status[0] = "done" => \A r \in World : pc[r] = Len(Plan[setting])

\* Whatever fails, and wherever the others are then, every rank ends.
EveryoneEnds == <>(\A r \in World : status[r] # "run")
=============================================================================
