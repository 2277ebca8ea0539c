--------------------------- MODULE ByteScheduler ---------------------------
(***************************************************************************)
(* wireless_comm/scheduler.py: the round-robin byte scheduler that the     *)
(* writer tasks of all peers share, and its token bucket.  A client is a   *)
(* writer task that asks for grants on behalf of its peer.  Every action   *)
(* is what one task does between two suspension points.                    *)
(*                                                                         *)
(* The token bucket counts bytes.  Time is the number of bytes the rate    *)
(* has earned: credit is what it earned since updated_at, so elapsed *     *)
(* rate in the code, and stops where min(capacity, ...) would cut it.      *)
(***************************************************************************)
EXTENDS Integers, Sequences, FiniteSets, SequencesExt

CONSTANTS
    Clients,        \* writer tasks
    NoClient,       \* no pending request
    Peers,
    PeerOf,         \* the peer a client writes to
    Amounts,        \* values of requested_bytes
    Quantum,        \* quantum_bytes
    Paced,          \* TRUE when rate_bytes_per_second is not None
    Burst,          \* burst_bytes
    Cancellable,    \* clients whose task may be cancelled
    MayClose        \* TRUE when close() may be called

ASSUME ByteSchedulerAssumption ==
    /\ NoClient \notin Clients
    /\ PeerOf \in [Clients -> Peers]
    /\ Amounts \subseteq Nat \ {0}
    /\ Quantum \in Nat \ {0}
    /\ Burst \in Nat /\ Burst >= Quantum
    /\ Cancellable \subseteq Clients
    /\ Paced \in BOOLEAN /\ MayClose \in BOOLEAN

VARIABLES
    cpc,          \* where each client is
    ask,          \* requested_bytes of its request
    completion,   \* future of its request
    requests,     \* _requests, each request named by its client
    pending,      \* _pending_by_peer
    rpc,          \* where the runner task is
    rcancel,      \* the runner has a cancellation to be delivered
    wakeup,       \* _wakeup
    paceWakeup,   \* _pace_wakeup
    timer,        \* credit at which the pacing timer fires, 0 when not armed
    tokens,       \* _bucket.tokens at updated_at
    credit,       \* bytes earned since updated_at
    spc,          \* where close() is
    allowance,    \* history: the bytes an ideal bucket would still allow
    overtaken     \* history: grants to each peer since a request was queued

clientVars == <<cpc, ask>>
queueVars  == <<requests, pending>>
runnerVars == <<rpc, rcancel, wakeup>>
paceVars   == <<paceWakeup, timer>>
bucketVars == <<tokens, credit>>
ghostVars  == <<allowance, overtaken>>
vars == <<clientVars, completion, queueVars, runnerVars, paceVars, bucketVars, spc, ghostVars>>

Init ==
    /\ cpc = [c \in Clients |-> "idle"]
    /\ ask = [c \in Clients |-> 0]
    /\ completion = [c \in Clients |-> "none"]
    /\ requests = <<>>
    /\ pending = [p \in Peers |-> NoClient]
    /\ rpc = "none"
    /\ rcancel = FALSE
    /\ wakeup = FALSE
    /\ paceWakeup = FALSE
    /\ timer = 0
    /\ tokens = Burst
    /\ credit = 0
    /\ spc = "open"
    /\ allowance = Burst
    /\ overtaken = [c \in Clients |-> [p \in Peers |-> 0]]

closed == spc # "open"

Least(a, b) == IF a <= b THEN a ELSE b

\* _release_peer
Released(pend, c) == [pend EXCEPT ![PeerOf[c]] = IF @ = c THEN NoClient ELSE @]

---------------------------------------------------------------------------
(* Clients                                                                 *)

QueueFirst(c) == requests' = <<c>> \o requests

QueueRequest(c) == requests' = Append(requests, c)

Acquire(c, n) ==
    /\ cpc[c] = "idle" /\ ~closed /\ pending[PeerOf[c]] = NoClient
    /\ cpc' = [cpc EXCEPT ![c] = "waiting"]
    /\ ask' = [ask EXCEPT ![c] = n]
    /\ completion' = [completion EXCEPT ![c] = "pending"]
    /\ QueueRequest(c)
    /\ pending' = [pending EXCEPT ![PeerOf[c]] = c]
    /\ wakeup' = TRUE
    /\ paceWakeup' = TRUE
    /\ rpc' = IF rpc = "none" THEN "start" ELSE rpc
    /\ overtaken' = [overtaken EXCEPT ![c] = [p \in Peers |-> 0]]
    /\ UNCHANGED <<rcancel, timer, bucketVars, spc, allowance>>

\* The scheduler is closed, or this peer already has a pending request.
AcquireRaises(c) ==
    /\ cpc[c] = "idle"
    /\ closed \/ pending[PeerOf[c]] # NoClient
    /\ cpc' = [cpc EXCEPT ![c] = "over"]
    /\ UNCHANGED <<ask, completion, queueVars, runnerVars, paceVars, bucketVars, spc, ghostVars>>

AcquireReturns(c) ==
    /\ cpc[c] = "waiting" /\ completion[c] \in {"granted", "failed"}
    /\ cpc' = [cpc EXCEPT ![c] = IF completion[c] = "granted" THEN "idle" ELSE "over"]
    /\ UNCHANGED <<ask, completion, queueVars, runnerVars, paceVars, bucketVars, spc, ghostVars>>

\* Task.cancel() cancels the future the client waits for, unless it is done.
Cancel(c) ==
    /\ cpc[c] = "waiting" /\ c \in Cancellable
    /\ cpc' = [cpc EXCEPT ![c] = "cancelling"]
    /\ completion' = [completion EXCEPT ![c] = IF @ = "pending" THEN "cancelled" ELSE @]
    /\ UNCHANGED <<ask, queueVars, runnerVars, paceVars, bucketVars, spc, ghostVars>>

\* The cancelled client runs: its request leaves the queue if it is still there.
AcquireCancelled(c) ==
    /\ cpc[c] = "cancelling"
    /\ cpc' = [cpc EXCEPT ![c] = "idle"]
    /\ \/ ~Contains(requests, c) /\ UNCHANGED queueVars
       \/ \E i \in 1 .. Len(requests) :
            /\ requests[i] = c
            /\ requests' = RemoveAt(requests, i)
            /\ pending' = Released(pending, c)
    /\ paceWakeup' = TRUE
    /\ UNCHANGED <<ask, completion, runnerVars, timer, bucketVars, spc, ghostVars>>

---------------------------------------------------------------------------
(* The runner task                                                         *)

SleepAnyway(reqs) ==
    /\ rpc' = "empty"
    /\ wakeup' = FALSE
    /\ UNCHANGED rcancel

\* The top of _run with queue reqs: wait on the event, or yield once.
Loop(reqs) ==
    /\ rpc' = IF reqs = <<>> THEN "empty" ELSE "yield"
    /\ wakeup' = IF reqs = <<>> THEN FALSE ELSE wakeup
    /\ UNCHANGED rcancel

RunnerWakes ==
    /\ ~rcancel
    /\ \/ rpc = "start" /\ UNCHANGED paceVars
       \/ rpc = "empty" /\ wakeup /\ UNCHANGED paceVars
       \/ rpc = "pace" /\ paceWakeup /\ timer' = 0 /\ UNCHANGED paceWakeup
    /\ Loop(requests)
    /\ UNCHANGED <<clientVars, completion, queueVars, bucketVars, spc, ghostVars>>

YieldedToNone ==
    /\ rpc = "yield" /\ ~rcancel /\ requests = <<>>
    /\ Loop(requests)
    /\ UNCHANGED <<clientVars, completion, queueVars, paceVars, bucketVars, spc, ghostVars>>

SkipCancelled ==
    /\ rpc = "yield" /\ ~rcancel /\ requests # <<>>
    /\ completion[Head(requests)] = "cancelled"
    /\ requests' = Tail(requests)
    /\ pending' = Released(pending, Head(requests))
    /\ Loop(Tail(requests))
    /\ UNCHANGED <<clientVars, completion, paceVars, bucketVars, spc, ghostVars>>

HeadReady ==
    /\ rpc = "yield" /\ ~rcancel /\ requests # <<>>
    /\ completion[Head(requests)] # "cancelled"

Granted == Least(ask[Head(requests)], Quantum)

RefilledTwice == Least(Burst, tokens + credit + credit)

\* _TokenBucket.delay first adds what was earned since updated_at.
Refilled == Least(Burst, tokens + credit)

GrantHead ==
    LET c == Head(requests) IN
    /\ HeadReady
    /\ IF Paced THEN Refilled >= Granted /\ tokens' = Refilled - Granted /\ credit' = 0
                ELSE UNCHANGED bucketVars
    /\ requests' = Tail(requests)
    /\ completion' = [completion EXCEPT ![c] = "granted"]
    /\ pending' = Released(pending, c)
    /\ Loop(Tail(requests))
    /\ allowance' = IF Paced THEN allowance - Granted ELSE allowance
    /\ overtaken' = [d \in Clients |-> [p \in Peers |->
                       IF ~Contains(Tail(requests), d) THEN 0
                       ELSE Least(2, overtaken[d][p] + IF p = PeerOf[c] THEN 1 ELSE 0)]]
    /\ UNCHANGED <<clientVars, paceVars, spc>>

\* Not enough tokens: to the back of the queue, and wait for the timer or for
\* the next acquire or cancellation.
DelayHead ==
    /\ HeadReady /\ Paced
    /\ Refilled < Granted
    /\ tokens' = Refilled
    /\ credit' = 0
    /\ requests' = Append(Tail(requests), Head(requests))
    /\ rpc' = "pace"
    /\ paceWakeup' = FALSE
    /\ timer' = Granted - Refilled
    /\ UNCHANGED <<clientVars, completion, pending, rcancel, wakeup, spc, ghostVars>>

DropQueued ==
    /\ requests' = <<>>
    /\ pending' = [p \in Peers |-> IF Contains(requests, pending[p]) THEN NoClient ELSE pending[p]]
    /\ UNCHANGED completion

\* finally: _fail_queued_requests
FailQueued ==
    /\ requests' = <<>>
    /\ pending' = [p \in Peers |-> IF Contains(requests, pending[p]) THEN NoClient ELSE pending[p]]
    /\ completion' = [c \in Clients |->
                        IF Contains(requests, c) /\ completion[c] = "pending" THEN "failed"
                        ELSE completion[c]]

RunnerCancelled ==
    /\ rcancel
    /\ rpc' = "done"
    /\ rcancel' = FALSE
    /\ timer' = 0
    /\ IF rpc = "start" THEN UNCHANGED <<queueVars, completion>> ELSE FailQueued
    /\ UNCHANGED <<clientVars, wakeup, paceWakeup, bucketVars, spc, ghostVars>>

---------------------------------------------------------------------------
(* Time and close()                                                        *)

Tick ==
    /\ Paced /\ credit < Burst
    /\ credit' = credit + 1
    /\ allowance' = Least(Burst, allowance + 1)
    /\ UNCHANGED <<clientVars, completion, queueVars, runnerVars, paceVars, tokens, spc, overtaken>>

TimerFires ==
    /\ timer > 0 /\ credit >= timer
    /\ paceWakeup' = TRUE
    /\ timer' = 0
    /\ UNCHANGED <<clientVars, completion, queueVars, runnerVars, bucketVars, spc, ghostVars>>

CloseStart ==
    /\ MayClose /\ spc = "open"
    /\ spc' = "closing"
    /\ rcancel' = (rpc # "none")
    /\ UNCHANGED <<clientVars, completion, queueVars, rpc, wakeup, paceVars, bucketVars, ghostVars>>

CloseEnds ==
    /\ spc = "closing" /\ rpc \in {"none", "done"}
    /\ spc' = "closed"
    /\ rpc' = "none"
    /\ FailQueued
    /\ UNCHANGED <<clientVars, rcancel, wakeup, paceVars, bucketVars, ghostVars>>

---------------------------------------------------------------------------
Client(c) ==
    \/ \E n \in Amounts : Acquire(c, n)
    \/ AcquireRaises(c) \/ AcquireReturns(c) \/ Cancel(c) \/ AcquireCancelled(c)

Runner ==
    \/ RunnerWakes \/ YieldedToNone \/ SkipCancelled \/ GrantHead \/ DelayHead \/ RunnerCancelled

Next ==
    \/ \E c \in Clients : Client(c)
    \/ Runner
    \/ Tick \/ TimerFires
    \/ CloseStart \/ CloseEnds

Spec == Init /\ [][Next]_vars

\* The event loop resumes every task that is ready; time passes.
FairSpec ==
    /\ Spec
    /\ WF_vars(Runner) /\ WF_vars(Tick) /\ WF_vars(TimerFires) /\ WF_vars(CloseEnds)
    /\ \A c \in Clients : WF_vars(AcquireReturns(c)) /\ WF_vars(AcquireCancelled(c))

---------------------------------------------------------------------------
(* Properties                                                              *)

TypeOK ==
    /\ cpc \in [Clients -> {"idle", "waiting", "cancelling", "over"}]
    /\ ask \in [Clients -> Amounts \cup {0}]
    /\ completion \in [Clients -> {"none", "pending", "granted", "cancelled", "failed"}]
    /\ requests \in Seq(Clients)
    /\ pending \in [Peers -> Clients \cup {NoClient}]
    /\ rpc \in {"none", "start", "empty", "yield", "pace", "done"}
    /\ rcancel \in BOOLEAN /\ wakeup \in BOOLEAN /\ paceWakeup \in BOOLEAN
    /\ timer \in 0 .. Burst
    /\ tokens \in 0 .. Burst
    /\ credit \in 0 .. Burst
    /\ spc \in {"open", "closing", "closed"}
    /\ allowance \in Int
    /\ overtaken \in [Clients -> [Peers -> 0 .. 2]]

\* _pending_by_peer and _requests agree: a peer is marked exactly while one
\* request of it is queued, so a peer is never locked out by a request that
\* was cancelled, granted or failed.
PendingMatchesQueue ==
    /\ \A p \in Peers : pending[p] # NoClient =>
         PeerOf[pending[p]] = p /\ Contains(requests, pending[p])
    /\ \A i \in 1 .. Len(requests) : pending[PeerOf[requests[i]]] = requests[i]
    /\ IsInjective(requests)

\* A request whose client waits is answered or will be found by the runner.
NoRequestLost ==
    \A c \in Clients : cpc[c] = "waiting" /\ completion[c] = "pending" => Contains(requests, c)

\* The runner sleeps only on an empty queue, or while a timer is armed.
RunnerSleepsSafely ==
    /\ rpc = "empty" /\ ~wakeup => requests = <<>>
    /\ rpc = "pace" /\ ~paceWakeup => timer > 0

\* Pacing: in no window of time are more bytes granted than burst + rate * time.
PacingHolds == allowance >= 0

\* Round robin: while a request is queued no other peer is served twice
\* (scheduler.py: "Grant one byte quantum to each active peer in round-robin
\* order").
RoundRobin ==
    \A i \in 1 .. Len(requests) : \A p \in Peers \ {PeerOf[requests[i]]} :
        overtaken[requests[i]][p] <= 1

\* Every request is answered, however often the other clients ask again.
EveryRequestAnswered == \A c \in Clients : cpc[c] = "waiting" ~> cpc[c] # "waiting"
=============================================================================
