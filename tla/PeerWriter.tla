---------------------------- MODULE PeerWriter ----------------------------
(***************************************************************************)
(* The sending half of one peer of a Comm (wireless_comm/comm.py): the     *)
(* coroutines that call send(), the bounded queue they share, the writer   *)
(* task that empties it onto a TCP connection, cancellation, and close().  *)
(*                                                                         *)
(* Everything runs on one asyncio event loop, so a step here is what one   *)
(* task does between two suspension points.  Where such a step is long it  *)
(* is cut into several actions and Free keeps every other task out until   *)
(* the running one suspends.  queue_condition is never held across a       *)
(* suspension, so its lock is not modelled; its waiters are ("capacity"    *)
(* and "idle" sleep, "recheck" and "awake" have been notified).            *)
(***************************************************************************)
EXTENDS Integers, Sequences, FiniteSets, FiniteSetsExt

CONSTANTS
    Msgs,               \* messages, one send() call each
    NoMsg,              \* what a writer with no message holds
    Size,               \* wire_bytes of each message
    MaxMessages,        \* config.max_peer_queued_messages
    MaxBytes,           \* config.max_peer_queued_bytes
    FailFast,           \* messages sent with wait_for_capacity=False
    Cancellable,        \* messages whose send may be cancelled or time out
    CancellableTwice,   \* messages whose cancelled send may be cancelled again
    Parts,              \* byte grants (or writes) that one frame takes
    Paced,              \* TRUE when the Comm has a byte scheduler
    MayFail,            \* TRUE when connections may be lost
    MayClose,           \* TRUE when close() may be called
    PeerDials,          \* TRUE when the peer may open connections too
    MaxConns,           \* bound on the connections of a behaviour
    MaxWriters          \* bound on the writer tasks of a behaviour

ASSUME PeerWriterAssumption ==
    /\ NoMsg \notin Msgs
    /\ Size \in [Msgs -> Nat \ {0}]
    /\ MaxMessages \in Nat \ {0}
    /\ MaxBytes \in Nat \ {0}
    /\ FailFast \subseteq Msgs
    /\ Cancellable \subseteq Msgs
    /\ CancellableTwice \subseteq Msgs
    /\ Parts \in Nat \ {0}
    /\ Paced \in BOOLEAN /\ MayFail \in BOOLEAN
    /\ MayClose \in BOOLEAN /\ PeerDials \in BOOLEAN
    /\ MaxConns \in Nat /\ MaxWriters \in Nat

Conns == 1 .. MaxConns
Writers == 1 .. MaxWriters

VARIABLES
    spc,               \* where each send() is
    target,            \* the writer task a cancelled send waits for
    completion,        \* the future of each message
    queue,             \* _PeerState.queue
    pendingMessages,   \* _PeerState.pending_messages
    pendingBytes,      \* _PeerState.pending_bytes
    writerTask,        \* _PeerState.writer_task, 0 for None
    spawned,           \* number of writer tasks created so far
    wpc,               \* where each writer task is
    wcancel,           \* writers with a cancellation to be delivered
    wmsg,              \* message a writer has taken from the queue
    wconn,             \* connection it uses, 0 for None
    written,           \* parts of each message given to a transport
    registered,        \* keys of _PeerState.connections
    cstate,            \* transport of each connection
    cpc,               \* where close() is
    closeList,         \* connections close() waits for
    log,               \* history: parts the transports accepted, in order
    accepted           \* history: messages in the order they were queued

senderVars == <<spc, target, completion>>
queueVars  == <<queue, pendingMessages, pendingBytes, accepted>>
taskVars   == <<writerTask, spawned>>
writerVars == <<wpc, wcancel, wmsg, wconn>>
wireVars   == <<written, log>>
connVars   == <<registered, cstate>>
closeVars  == <<cpc, closeList>>
vars == <<senderVars, queueVars, taskVars, writerVars, wireVars, connVars, closeVars>>

SenderStates == {"new", "capacity", "recheck", "shield", "gather", "regather",
                 "settle", "ok", "error", "cancelled"}
Ended        == {"ok", "error", "cancelled"}
WriterStates == {"none", "start", "idle", "awake", "top", "connect", "connlock", "dial",
                 "lock", "locked", "grant", "granted", "drain", "drop", "done"}
CloseStates  == {"open", "drain", "gather", "conns", "wait", "done"}
ConnStates   == {"none", "open", "flushing", "flushed", "lost"}
Outcomes     == {"pending", "sent", "failed", "cancelled"}

Init ==
    /\ spc = [m \in Msgs |-> "new"]
    /\ target = [m \in Msgs |-> 0]
    /\ completion = [m \in Msgs |-> "pending"]
    /\ queue = <<>>
    /\ pendingMessages = 0
    /\ pendingBytes = 0
    /\ writerTask = 0
    /\ spawned = 0
    /\ wpc = [w \in Writers |-> "none"]
    /\ wcancel = [w \in Writers |-> FALSE]
    /\ wmsg = [w \in Writers |-> NoMsg]
    /\ wconn = [w \in Writers |-> 0]
    /\ written = [m \in Msgs |-> 0]
    /\ registered = {}
    /\ cstate = [c \in Conns |-> "none"]
    /\ cpc = "open"
    /\ closeList = {}
    /\ log = <<>>
    /\ accepted = <<>>

---------------------------------------------------------------------------
(* Helpers                                                                 *)

closed      == cpc # "open"
schedClosed == cpc \in {"conns", "wait", "done"}

\* A writer in one of these states has not reached a suspension point yet.
MidStep == {"top", "connect", "locked"}

\* No task is between two suspension points: the event loop may run another.
Free ==
    /\ \A w \in Writers : wpc[w] \notin MidStep
    /\ cpc # "drain"
    /\ cpc = "conns" => Paced

\* The event loop resumes writer w, which was suspended in state s.  A task with
\* a cancellation to deliver resumes with CancelledError instead.
Resumes(w, s) == Free /\ wpc[w] = s /\ ~wcancel[w]

FullForgetsMessage(m) == pendingMessages >= MaxMessages \/ pendingBytes > MaxBytes

Full(m) ==
    \/ pendingMessages >= MaxMessages
    \/ pendingBytes + Size[m] > MaxBytes

Queued(m) == \E i \in 1 .. Len(queue) : queue[i] = m
Active(m) == \E w \in Writers : wmsg[w] = m

NotifyNobody(pc) == pc

\* queue_condition.notify_all()
NotifySenders(pc) == [m \in Msgs |-> IF pc[m] = "capacity" THEN "recheck" ELSE pc[m]]
NotifyWriters(pc) == [w \in Writers |-> IF pc[w] = "idle" THEN "awake" ELSE pc[w]]

\* The counters when message m leaves the peer's backlog.
UncountMessageOnly(m) == pendingMessages' = pendingMessages - 1 /\ UNCHANGED pendingBytes

UncountBytesOnly(m) == pendingBytes' = pendingBytes - Size[m] /\ UNCHANGED pendingMessages

Uncount(m) ==
    /\ pendingMessages' = pendingMessages - 1
    /\ pendingBytes' = pendingBytes - Size[m]

NeedsWriter == IF writerTask = 0 THEN TRUE ELSE wpc[writerTask] = "done"

NoSpawn(pc) == wpc' = pc /\ UNCHANGED taskVars

\* create_task(self._writer_loop(state)), given the other writers' states pc.
SpawnWriter(pc) ==
    /\ spawned < MaxWriters
    /\ spawned' = spawned + 1
    /\ writerTask' = spawned + 1
    /\ wpc' = [pc EXCEPT ![spawned + 1] = "start"]

Preferred == Min(registered)

LockFree(c) ==
    \A w \in Writers : wconn[w] = c => wpc[w] \notin {"locked", "grant", "granted", "drain"}

\* What writer.close() makes of an open transport: it is lost at once when its
\* buffer is empty and flushes it first when it is not.
AfterClose(c) == IF cstate[c] = "open" THEN {"flushing", "lost"} ELSE {cstate[c]}

---------------------------------------------------------------------------
(* The coroutines in send()                                                *)

Enqueue(m) ==
    /\ queue' = Append(queue, m)
    /\ accepted' = Append(accepted, m)
    /\ pendingMessages' = pendingMessages + 1
    /\ pendingBytes' = pendingBytes + Size[m]
    /\ spc' = [NotifySenders(spc) EXCEPT ![m] = "shield"]
    /\ IF NeedsWriter
         THEN SpawnWriter(NotifyWriters(wpc))
         ELSE wpc' = NotifyWriters(wpc) /\ UNCHANGED taskVars
    /\ UNCHANGED <<target, completion, wcancel, wmsg, wconn, wireVars, connVars, closeVars>>

SenderMoves(m, s) ==
    /\ spc' = [spc EXCEPT ![m] = s]
    /\ UNCHANGED <<target, completion, queueVars, taskVars, writerVars, wireVars, connVars, closeVars>>

\* Comm closed, a message above the byte limit, or a full queue and fail-fast.
SendRefused(m) ==
    /\ Free /\ spc[m] = "new"
    /\ closed \/ Size[m] > MaxBytes \/ (Full(m) /\ m \in FailFast)
    /\ SenderMoves(m, "error")

SendWaits(m) ==
    /\ Free /\ spc[m] = "new" /\ ~closed /\ Size[m] <= MaxBytes
    /\ Full(m) /\ m \notin FailFast
    /\ SenderMoves(m, "capacity")

SendAccepted(m) ==
    /\ Free /\ spc[m] = "new" /\ ~closed /\ Size[m] <= MaxBytes
    /\ ~Full(m)
    /\ Enqueue(m)

\* A sender notified while it waited for capacity runs the loop once more.
CapacityClosed(m) ==
    /\ Free /\ spc[m] = "recheck" /\ closed
    /\ SenderMoves(m, "error")

CapacityStillFull(m) ==
    /\ Free /\ spc[m] = "recheck" /\ ~closed /\ Full(m)
    /\ SenderMoves(m, "capacity")

CapacityFound(m) ==
    /\ Free /\ spc[m] = "recheck" /\ ~closed /\ ~Full(m)
    /\ Enqueue(m)

CapacityCancelled(m) ==
    /\ Free /\ spc[m] \in {"capacity", "recheck"} /\ m \in Cancellable
    /\ SenderMoves(m, "cancelled")

SendReturns(m) ==
    /\ Free /\ spc[m] = "shield" /\ completion[m] # "pending"
    /\ SenderMoves(m, IF completion[m] = "sent" THEN "ok" ELSE "error")

\* The send is cancelled, or its timeout expires, with its message still queued.
CancelQueued(m) ==
    /\ Free /\ spc[m] = "shield" /\ m \in Cancellable
    /\ \E i \in 1 .. Len(queue) :
         /\ queue[i] = m
         /\ queue' = SubSeq(queue, 1, i - 1) \o SubSeq(queue, i + 1, Len(queue))
    /\ Uncount(m)
    /\ completion' = [completion EXCEPT ![m] = "cancelled"]
    /\ spc' = [NotifySenders(spc) EXCEPT ![m] = "cancelled"]
    /\ wpc' = NotifyWriters(wpc)
    /\ UNCHANGED <<target, accepted, taskVars, wcancel, wmsg, wconn, wireVars, connVars, closeVars>>

CancelWithoutWaiting(m) ==
    /\ Free /\ spc[m] = "shield" /\ m \in Cancellable
    /\ ~Queued(m) /\ Active(m)
    /\ SenderMoves(m, "cancelled")

\* The same, but a writer has taken the message: cancel state.writer_task.
CancelActive(m) ==
    /\ Free /\ spc[m] = "shield" /\ m \in Cancellable
    /\ ~Queued(m) /\ Active(m)
    /\ spc' = [spc EXCEPT ![m] = "gather"]
    /\ target' = [target EXCEPT ![m] = writerTask]
    /\ wcancel' = [wcancel EXCEPT ![writerTask] = wpc[writerTask] # "done"]
    /\ UNCHANGED <<completion, queueVars, taskVars, wpc, wmsg, wconn, wireVars, connVars, closeVars>>

\* The same, but the writer is finished with the message.
CancelFinished(m) ==
    /\ Free /\ spc[m] = "shield" /\ m \in Cancellable
    /\ ~Queued(m) /\ ~Active(m)
    /\ SenderMoves(m, "cancelled")

\* A second cancellation reaches gather(), which cancels the writer once more.
CancelAgain(m) ==
    /\ Free /\ spc[m] = "gather" /\ m \in CancellableTwice
    /\ spc' = [spc EXCEPT ![m] = "regather"]
    /\ wcancel' = [wcancel EXCEPT ![target[m]] = wpc[target[m]] # "done"]
    /\ UNCHANGED <<target, completion, queueVars, taskVars, wpc, wmsg, wconn, wireVars, connVars, closeVars>>

NoRestart(m) == SenderMoves(m, "cancelled")

\* End of _cancel_active_send: a new writer for what is still queued.
Restart(m) ==
    /\ spc' = [spc EXCEPT ![m] = "cancelled"]
    /\ IF queue # <<>> /\ ~closed
         THEN SpawnWriter(wpc)
         ELSE UNCHANGED <<wpc, taskVars>>
    /\ UNCHANGED <<target, completion, queueVars, wcancel, wmsg, wconn, wireVars, connVars, closeVars>>

GatherDone(m) ==
    /\ Free /\ spc[m] = "gather" /\ wpc[target[m]] = "done"
    /\ IF completion[m] = "pending" THEN SenderMoves(m, "settle") ELSE Restart(m)

RegatherDone(m) ==
    /\ Free /\ spc[m] = "regather" /\ wpc[target[m]] = "done"
    /\ SenderMoves(m, "cancelled")

SettleDone(m) ==
    /\ Free /\ spc[m] = "settle" /\ completion[m] # "pending"
    /\ Restart(m)

SettleCancelled(m) ==
    /\ Free /\ spc[m] = "settle" /\ m \in CancellableTwice
    /\ SenderMoves(m, "cancelled")

---------------------------------------------------------------------------
(* The writer task                                                         *)

\* The finally block of _writer_loop, after the completion got its outcome
\* ("pending" when the exception that left the try block set none).
Release(w, outcome, next) ==
    LET m == wmsg[w] IN
    /\ completion' = IF completion[m] = "pending"
                       THEN [completion EXCEPT ![m] = outcome] ELSE completion
    /\ wmsg' = [wmsg EXCEPT ![w] = NoMsg]
    /\ wconn' = [wconn EXCEPT ![w] = 0]
    /\ Uncount(m)
    /\ spc' = NotifySenders(spc)
    /\ wpc' = [NotifyWriters(wpc) EXCEPT ![w] = next]
    /\ UNCHANGED <<target, queue, accepted, taskVars, closeVars>>

WriterMoves(w, s) ==
    /\ wpc' = [wpc EXCEPT ![w] = s]
    /\ UNCHANGED <<senderVars, queueVars, taskVars, wcancel, wmsg, closeVars>>

AtTop(w) == wpc[w] = "top" \/ Resumes(w, "start") \/ Resumes(w, "awake")

FindEmpty(w) ==
    /\ AtTop(w) /\ queue = <<>>
    /\ WriterMoves(w, IF closed THEN "done" ELSE "idle")
    /\ UNCHANGED <<wconn, wireVars, connVars>>

TakeLast(w) ==
    /\ AtTop(w) /\ queue # <<>>
    /\ queue' = SubSeq(queue, 1, Len(queue) - 1)
    /\ wmsg' = [wmsg EXCEPT ![w] = queue[Len(queue)]]
    /\ wpc' = [wpc EXCEPT ![w] = "connect"]
    /\ UNCHANGED <<senderVars, pendingMessages, pendingBytes, accepted, taskVars, wcancel, wconn,
                   wireVars, connVars, closeVars>>

TakeNext(w) ==
    /\ AtTop(w) /\ queue # <<>>
    /\ queue' = Tail(queue)
    /\ wmsg' = [wmsg EXCEPT ![w] = Head(queue)]
    /\ wpc' = [wpc EXCEPT ![w] = "connect"]
    /\ UNCHANGED <<senderVars, pendingMessages, pendingBytes, accepted, taskVars, wcancel, wconn,
                   wireVars, connVars, closeVars>>

\* _connection_for: the preferred connection, else connect_lock and a dial.
UsePreferred(w) ==
    /\ wpc[w] = "connect" /\ registered # {}
    /\ wconn' = [wconn EXCEPT ![w] = Preferred]
    /\ WriterMoves(w, IF LockFree(Preferred) THEN "locked" ELSE "lock")
    /\ UNCHANGED <<wireVars, connVars>>

NeedDial(w) ==
    /\ wpc[w] = "connect" /\ registered = {}
    /\ WriterMoves(w, IF \E v \in Writers : wpc[v] = "dial" THEN "connlock" ELSE "dial")
    /\ UNCHANGED <<wconn, wireVars, connVars>>

ConnectLock(w) ==
    /\ Resumes(w, "connlock") /\ \A v \in Writers : wpc[v] # "dial"
    /\ WriterMoves(w, "connect")
    /\ UNCHANGED <<wconn, wireVars, connVars>>

DialOk(w) ==
    /\ Resumes(w, "dial")
    /\ \E c \in Conns :
         /\ cstate[c] = "none"
         /\ cstate' = [cstate EXCEPT ![c] = "open"]
         /\ registered' = registered \cup {c}
         /\ wconn' = [wconn EXCEPT ![w] = c]
    /\ WriterMoves(w, "locked")
    /\ UNCHANGED wireVars

DialFails(w) ==
    /\ Resumes(w, "dial") /\ MayFail
    /\ Release(w, "failed", "top")
    /\ UNCHANGED <<wcancel, wireVars, connVars>>

WriteLock(w) ==
    /\ Resumes(w, "lock") /\ LockFree(wconn[w])
    /\ WriterMoves(w, "locked")
    /\ UNCHANGED <<wconn, wireVars, connVars>>

\* writer.write of the next part (of the whole frame when there is no byte
\* scheduler): the transport takes it, discards it once lost, or, when it was
\* closed and has flushed its buffer, raises an error nobody handles.
WritePart(w, last) ==
    LET m == wmsg[w]
        c == wconn[w]
        parts == [i \in 1 .. last - written[m] |-> [conn |-> c, msg |-> m, part |-> written[m] + i]]
    IN \/ /\ cstate[c] # "flushed"
          /\ written' = [written EXCEPT ![m] = last]
          /\ log' = IF cstate[c] = "lost" THEN log ELSE log \o parts
          /\ WriterMoves(w, "drain")
          /\ UNCHANGED <<wconn, connVars>>
       \/ /\ cstate[c] = "flushed"
          /\ Release(w, "pending", "done")
          /\ UNCHANGED <<wcancel, wireVars, connVars>>

WriteFrame(w) ==
    /\ wpc[w] = "locked" /\ ~Paced
    /\ WritePart(w, Parts)

\* ByteScheduler.acquire: refused once closed; a RuntimeError nobody handles
\* when a request of this peer is already pending.
Acquire(w) ==
    /\ wpc[w] = "locked" /\ Paced /\ ~schedClosed
    /\ \A v \in Writers : wpc[v] # "grant"
    /\ WriterMoves(w, "grant")
    /\ UNCHANGED <<wconn, wireVars, connVars>>

AcquireRaises(w) ==
    /\ wpc[w] = "locked" /\ Paced /\ ~schedClosed
    /\ \E v \in Writers : wpc[v] = "grant"
    /\ Release(w, "pending", "done")
    /\ UNCHANGED <<wcancel, wireVars, connVars>>

AcquireRefused(w) ==
    /\ Paced /\ schedClosed
    /\ wpc[w] = "locked" \/ Resumes(w, "grant")
    /\ Release(w, "failed", "top")
    /\ UNCHANGED <<wcancel, wireVars, connVars>>

\* The scheduler grants the bytes of one part.
Grant(w) ==
    /\ Free /\ wpc[w] = "grant" /\ ~wcancel[w] /\ ~schedClosed
    /\ WriterMoves(w, "granted")
    /\ UNCHANGED <<wconn, wireVars, connVars>>

WriteGranted(w) ==
    /\ Resumes(w, "granted")
    /\ WritePart(w, written[wmsg[w]] + 1)

\* drain() returned: the next grant, or the frame is complete.
DrainedPart(w) ==
    /\ Resumes(w, "drain") /\ cstate[wconn[w]] \in {"open", "flushing"}
    /\ written[wmsg[w]] < Parts
    /\ WriterMoves(w, "locked")
    /\ UNCHANGED <<wconn, wireVars, connVars>>

DrainedAny(w) ==
    /\ Resumes(w, "drain") /\ cstate[wconn[w]] \in {"open", "flushing"}
    /\ Release(w, "sent", "top")
    /\ UNCHANGED <<wcancel, wireVars, connVars>>

DrainedFrame(w) ==
    /\ Resumes(w, "drain") /\ cstate[wconn[w]] \in {"open", "flushing"}
    /\ written[wmsg[w]] = Parts
    /\ Release(w, "sent", "top")
    /\ UNCHANGED <<wcancel, wireVars, connVars>>

\* drain() raised ConnectionResetError: the transport is already closed.
DrainFails(w) ==
    /\ Resumes(w, "drain") /\ cstate[wconn[w]] \in {"flushed", "lost"}
    /\ Release(w, "failed", "top")
    /\ registered' = registered \ {wconn[w]}
    /\ UNCHANGED <<wcancel, cstate, wireVars>>

\* CancelledError reaches the writer outside the try block, or before it ran.
CancelledIdle(w) ==
    /\ Free /\ wcancel[w] /\ wpc[w] \in {"start", "idle", "awake"}
    /\ wpc' = [wpc EXCEPT ![w] = "done"]
    /\ wcancel' = [wcancel EXCEPT ![w] = FALSE]
    /\ UNCHANGED <<senderVars, queueVars, taskVars, wmsg, wconn, wireVars, connVars, closeVars>>

\* ... while it has no connection yet, or on one whose transport is closed: no
\* suspension, the message fails and the task ends.
CancelledAtOnce(w) ==
    /\ Free /\ wcancel[w]
    /\ \/ wpc[w] \in {"connlock", "dial"} /\ UNCHANGED registered
       \/ /\ wpc[w] \in {"lock", "grant", "granted", "drain"}
          /\ cstate[wconn[w]] \in {"flushed", "lost"}
          /\ registered' = registered \ {wconn[w]}
    /\ Release(w, "failed", "done")
    /\ wcancel' = [wcancel EXCEPT ![w] = FALSE]
    /\ UNCHANGED <<cstate, wireVars>>

CancelKeepsConnection(w) ==
    /\ Free /\ wcancel[w] /\ wpc[w] \in {"lock", "grant", "granted", "drain"}
    /\ cstate[wconn[w]] \in {"open", "flushing"}
    /\ Release(w, "failed", "done")
    /\ wcancel' = [wcancel EXCEPT ![w] = FALSE]
    /\ UNCHANGED <<wireVars, connVars>>

\* ... while it uses a connection: drop it and wait for its transport to close.
CancelledOnConnection(w) ==
    LET c == wconn[w] IN
    /\ Free /\ wcancel[w] /\ wpc[w] \in {"lock", "grant", "granted", "drain"}
    /\ cstate[c] \in {"open", "flushing"}
    /\ registered' = registered \ {c}
    /\ \E s \in AfterClose(c) : cstate' = [cstate EXCEPT ![c] = s]
    /\ wpc' = [wpc EXCEPT ![w] = "drop"]
    /\ wcancel' = [wcancel EXCEPT ![w] = FALSE]
    /\ UNCHANGED <<senderVars, queueVars, taskVars, wmsg, wconn, wireVars, closeVars>>

Dropped(w) ==
    /\ Resumes(w, "drop") /\ cstate[wconn[w]] \in {"flushed", "lost"}
    /\ Release(w, "failed", "done")
    /\ UNCHANGED <<wcancel, wireVars, connVars>>

\* A second CancelledError, raised in wait_closed, skips set_exception.
CancelledInDrop(w) ==
    /\ Free /\ wcancel[w] /\ wpc[w] = "drop"
    /\ Release(w, "pending", "done")
    /\ wcancel' = [wcancel EXCEPT ![w] = FALSE]
    /\ UNCHANGED <<wireVars, connVars>>

---------------------------------------------------------------------------
(* Connections                                                             *)

ConnMoves(c, s) ==
    /\ cstate' = [cstate EXCEPT ![c] = s]
    /\ UNCHANGED <<senderVars, queueVars, taskVars, writerVars, wireVars, closeVars>>

\* The peer dials us and the handshake registers its connection.
PeerConnects(c) ==
    /\ Free /\ PeerDials /\ cstate[c] = "none"
    /\ registered' = registered \cup {c}
    /\ ConnMoves(c, "open")

\* connection_lost: the network or the peer resets the connection.
ConnectionLost(c) ==
    /\ Free /\ MayFail /\ cstate[c] \in {"open", "flushing"}
    /\ ConnMoves(c, "lost")
    /\ UNCHANGED registered

\* The reader loop saw the end of the stream (or close() ended it).
ReaderDrops(c) ==
    /\ Free /\ c \in registered
    /\ MayFail \/ closed
    /\ registered' = registered \ {c}
    /\ \E s \in AfterClose(c) : ConnMoves(c, s)

FlushDone(c) ==
    /\ Free /\ cstate[c] = "flushing"
    /\ ConnMoves(c, "flushed")
    /\ UNCHANGED registered

---------------------------------------------------------------------------
(* close()                                                                 *)

CloseMoves(s) ==
    /\ cpc' = s
    /\ UNCHANGED <<target, accepted, taskVars, wmsg, wconn, wireVars, registered>>

CloseStart ==
    /\ Free /\ MayClose /\ cpc = "open"
    /\ CloseMoves("drain")
    /\ UNCHANGED <<spc, completion, queue, pendingMessages, pendingBytes, wpc, wcancel, cstate, closeList>>

CloseFailsQueued ==
    /\ cpc = "drain" /\ queue # <<>>
    /\ queue' = Tail(queue)
    /\ Uncount(Head(queue))
    /\ completion' = [completion EXCEPT ![Head(queue)] = "failed"]
    /\ CloseMoves("drain")
    /\ UNCHANGED <<spc, wpc, wcancel, cstate, closeList>>

CloseCancelsWriter ==
    /\ cpc = "drain" /\ queue = <<>>
    /\ spc' = NotifySenders(spc)
    /\ wpc' = NotifyWriters(wpc)
    /\ wcancel' = [w \in Writers |-> wcancel[w] \/ (w = writerTask /\ wpc[w] # "done")]
    /\ CloseMoves("gather")
    /\ UNCHANGED <<completion, queue, pendingMessages, pendingBytes, cstate, closeList>>

CloseScheduler ==
    /\ Free /\ cpc = "gather" /\ NeedsWriter
    /\ CloseMoves("conns")
    /\ UNCHANGED <<spc, completion, queue, pendingMessages, pendingBytes, wpc, wcancel, cstate, closeList>>

CloseConnections ==
    /\ cpc = "conns" /\ \A w \in Writers : wpc[w] \notin MidStep
    /\ closeList' = registered
    /\ \E f \in [registered -> ConnStates] :
         /\ \A c \in registered : f[c] \in AfterClose(c)
         /\ cstate' = [c \in Conns |-> IF c \in registered THEN f[c] ELSE cstate[c]]
    /\ CloseMoves("wait")
    /\ UNCHANGED <<spc, completion, queue, pendingMessages, pendingBytes, wpc, wcancel>>

CloseReturns ==
    /\ Free /\ cpc = "wait"
    /\ \A c \in closeList : cstate[c] \in {"flushed", "lost"}
    /\ CloseMoves("done")
    /\ UNCHANGED <<spc, completion, queue, pendingMessages, pendingBytes, wpc, wcancel, cstate, closeList>>

---------------------------------------------------------------------------
Sender(m) ==
    \/ SendRefused(m) \/ SendWaits(m) \/ SendAccepted(m)
    \/ CapacityClosed(m) \/ CapacityStillFull(m) \/ CapacityFound(m) \/ CapacityCancelled(m)
    \/ SendReturns(m) \/ CancelQueued(m) \/ CancelActive(m) \/ CancelFinished(m) \/ CancelAgain(m)
    \/ GatherDone(m) \/ RegatherDone(m) \/ SettleDone(m) \/ SettleCancelled(m)

Writer(w) ==
    \/ FindEmpty(w) \/ TakeNext(w) \/ UsePreferred(w) \/ NeedDial(w) \/ ConnectLock(w)
    \/ DialOk(w) \/ DialFails(w) \/ WriteLock(w) \/ WriteFrame(w)
    \/ Acquire(w) \/ AcquireRaises(w) \/ AcquireRefused(w) \/ Grant(w) \/ WriteGranted(w)
    \/ DrainedPart(w) \/ DrainedFrame(w) \/ DrainFails(w)
    \/ CancelledIdle(w) \/ CancelledAtOnce(w) \/ CancelledOnConnection(w)
    \/ Dropped(w) \/ CancelledInDrop(w)

Connection(c) == PeerConnects(c) \/ ConnectionLost(c) \/ ReaderDrops(c) \/ FlushDone(c)

Close ==
    \/ CloseStart \/ CloseFailsQueued \/ CloseCancelsWriter
    \/ CloseScheduler \/ CloseConnections \/ CloseReturns

Next ==
    \/ \E m \in Msgs : Sender(m)
    \/ \E w \in Writers : Writer(w)
    \/ \E c \in Conns : Connection(c)
    \/ Close

Spec == Init /\ [][Next]_vars

Live == {w \in Writers : wpc[w] \notin {"none", "done"}}

\* A peer has one writer task at a time: no restart after a cancelled send
\* (comm.py:405) has found another writer at work.
Sole == \A v, w \in Live : v = w

\* Every task the event loop can resume is resumed, a dial and a drain end, and
\* a closed transport flushes (the peer keeps reading) or is lost.  Nothing is
\* assumed of cancellations, of connection losses or of the call to close().
SenderProgress(m) ==
    \/ CapacityClosed(m) \/ CapacityStillFull(m) \/ CapacityFound(m) \/ SendReturns(m)
    \/ GatherDone(m) \/ RegatherDone(m) \/ SettleDone(m)

Fairness ==
    /\ \A m \in Msgs : WF_vars(SenderProgress(m))
    /\ \A w \in Writers : WF_vars(Writer(w))
    /\ \A c \in Conns : WF_vars(FlushDone(c))
    /\ WF_vars(Close /\ closed)

FairSpec == Spec /\ Fairness

---------------------------------------------------------------------------
(* Properties                                                              *)

TypeOK ==
    /\ spc \in [Msgs -> SenderStates]
    /\ target \in [Msgs -> Writers \cup {0}]
    /\ completion \in [Msgs -> Outcomes]
    /\ queue \in Seq(Msgs)
    /\ pendingMessages \in Int
    /\ pendingBytes \in Int
    /\ writerTask \in Writers \cup {0}
    /\ spawned \in Nat
    /\ wpc \in [Writers -> WriterStates]
    /\ wcancel \in [Writers -> BOOLEAN]
    /\ wmsg \in [Writers -> Msgs \cup {NoMsg}]
    /\ wconn \in [Writers -> Conns \cup {0}]
    /\ written \in [Msgs -> Nat]
    /\ registered \subseteq Conns
    /\ cstate \in [Conns -> ConnStates]
    /\ cpc \in CloseStates
    /\ closeList \subseteq Conns
    /\ log \in Seq([conn : Conns, msg : Msgs, part : Nat])
    /\ accepted \in Seq(Msgs)

Holders == {w \in Writers : wmsg[w] # NoMsg}
Held    == {queue[i] : i \in 1 .. Len(queue)} \cup {wmsg[w] : w \in Holders}

\* pending_messages counts exactly the messages that are in the queue or in the
\* hands of a writer, whatever path they leave by (sent, failed, removed,
\* cancelled while active, close).
MessageAccounting == pendingMessages = Len(queue) + Cardinality(Holders)

\* The bytes of the messages in S: <<m, k>> is the k-th byte of m.
BytesOf(S) == UNION {{m} \X (1 .. Size[m]) : m \in S}

\* pending_bytes is the sum of the sizes of the same messages.
ByteAccounting == pendingBytes = Cardinality(BytesOf(Held))

\* The backlog of a peer never exceeds either configured limit (README,
\* "a queue bounded by both messages and bytes"): several senders that were
\* notified at once do not all take the same room.
WithinLimits ==
    /\ Len(queue) + Cardinality(Holders) <= MaxMessages
    /\ pendingBytes <= MaxBytes

\* No wakeup is lost: a sender sleeps on queue_condition only while there is
\* no room for its message, a writer only while there is nothing to send, and
\* neither once close() has notified them.
NoLostWakeup ==
    /\ \A m \in Msgs : spc[m] = "capacity" =>
         /\ cpc \in {"open", "drain"}
         /\ Full(m) \/ cpc = "drain"
    /\ \A w \in Writers : wpc[w] = "idle" =>
         /\ cpc \in {"open", "drain"}
         /\ queue = <<>>

\* Each peer has one FIFO writer (README): while messages are queued, a writer
\* is alive or a cancelled send is about to start one.
QueueServed ==
    queue # <<>> => Live # {} \/ (\E m \in Msgs : spc[m] \in {"gather", "settle"}) \/ closed

\* FIFO: the frames start on the wire in the order the queue accepted them.
Fifo ==
    \A i, j \in 1 .. Len(log) : i < j =>
        \A a, b \in 1 .. Len(accepted) :
            (accepted[a] = log[i].msg /\ accepted[b] = log[j].msg) => a <= b

\* Part j of the log follows part i on their connection, and may follow it there.
NextOn(i, j) ==
    /\ log[i].conn = log[j].conn
    /\ \A k \in i + 1 .. j - 1 : log[k].conn # log[j].conn

Continues(i, j) ==
    IF log[j].part = 1
      THEN log[i].part = Parts
      ELSE log[j].msg = log[i].msg /\ log[j].part = log[i].part + 1

\* What a connection carries is a sequence of whole frames, the last one
\* perhaps unfinished: no frame follows a partial one (comm.py: "TCP cannot
\* safely carry another frame after losing alignment").
WireAligned ==
    \A j \in 1 .. Len(log) :
        /\ (\A i \in 1 .. j - 1 : log[i].conn # log[j].conn) => log[j].part = 1
        /\ \A i \in 1 .. j - 1 : NextOn(i, j) => Continues(i, j)

\* Frames stay whole, whatever is cancelled, as long as the peer has had one
\* writer at a time.  The two that the restart at comm.py:405 can leave break
\* WireAligned: by a second cancellation (comm.py:424, 438), or when the grant of
\* one is refused because the other waits for its own (comm.py:446, scheduler.py:82).
AlignedWhileSole == []Sole => []WireAligned

\* A send that returned successfully had its whole frame taken by the transport
\* of one connection; a send removed from the queue left no byte on any.
CompletionMatchesWire ==
    \A m \in Msgs :
        LET parts == {i \in 1 .. Len(log) : log[i].msg = m} IN
        /\ completion[m] = "sent" =>
              /\ {log[i].part : i \in parts} = 1 .. Parts
              /\ \A i, j \in parts : log[i].conn = log[j].conn
        /\ completion[m] = "cancelled" => parts = {}

\* The borrowed buffer: when send() has ended, by return, error, timeout or
\* cancellation, its message is neither queued nor in a writer's hands.
BufferReleased ==
    \A m \in Msgs : spc[m] \in Ended => ~Queued(m) /\ ~Active(m)

\* Every send() that was called ends.
SendsEnd == \A m \in Msgs : spc[m] # "new" ~> spc[m] \in Ended
=============================================================================
