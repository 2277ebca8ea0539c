------------------------- MODULE PeerWriterProofs -------------------------
(***************************************************************************)
(* Theorems about PeerWriter for every value of its constants: the backlog,*)
(* the wakeups and the buffers; what the writers put on the connections;   *)
(* that the peer implements SendService; the order of the frames while no  *)
(* send is cancelled, and their alignment while it has one writer.         *)
(***************************************************************************)
EXTENDS PeerWriter, PeerWriterRefinement, DataLemmas, FiniteSetTheorems, SequenceTheorems, TLAPS

Busy      == {"connect", "connlock", "dial", "lock", "locked", "grant", "granted", "drain", "drop"}
Connected == {"lock", "locked", "grant", "granted", "drain", "drop"}

\* What the state of a writer says of the message and connection it has.
WriterInv ==
    \A w \in Writers :
        /\ wmsg[w] # NoMsg <=> wpc[w] \in Busy
        /\ wpc[w] \in Connected => wconn[w] \in Conns
        /\ w > spawned => wpc[w] = "none"

TypeInv == TypeOK /\ WriterInv

USE PeerWriterAssumption
USE DEF Uncount

\* The initial state has the types of TypeOK and its writers hold nothing.
LEMMA InitType == Init => TypeInv
  BY DEF Init, TypeInv, TypeOK, WriterInv, Busy, Connected, SenderStates, WriterStates, CloseStates,
         ConnStates, Outcomes, Writers, Conns

\* A step that only moves a sender keeps every type.
LEMMA SenderMovesType ==
  ASSUME TypeInv, NEW m \in Msgs, NEW s \in SenderStates, SenderMoves(m, s)
  PROVE  TypeInv'
  BY DEF TypeInv, TypeOK, WriterInv, SenderMoves, queueVars, taskVars, writerVars, wireVars, connVars, closeVars

\* A step that moves a writer which keeps its message, and perhaps takes
\* a connection or writes, keeps every type.
LEMMA WriterMovesType ==
  ASSUME TypeInv, NEW w \in Writers, NEW s \in WriterStates, WriterMoves(w, s),
         wconn' \in [Writers -> Conns \cup {0}], written' \in [Msgs -> Nat],
         log' \in Seq([conn : Conns, msg : Msgs, part : Nat]),
         registered' \subseteq Conns, cstate' \in [Conns -> ConnStates],
         wpc[w] # "none", wpc[w] \in Busy <=> s \in Busy,
         \A v \in Writers : v # w => wconn'[v] = wconn[v],
         s \in Connected => wconn'[w] \in Conns
  PROVE  TypeInv'
  BY DEF TypeInv, TypeOK, WriterInv, WriterMoves, senderVars, queueVars, taskVars, closeVars

\* notify_all maps program counters to program counters and leaves busy
\* writers where they are.
LEMMA NotifyType ==
  ASSUME TypeOK
  PROVE  /\ NotifySenders(spc) \in [Msgs -> SenderStates]
         /\ NotifyWriters(wpc) \in [Writers -> WriterStates]
         /\ \A w \in Writers : /\ NotifyWriters(wpc)[w] \in Busy <=> wpc[w] \in Busy
                               /\ NotifyWriters(wpc)[w] \in Connected => wpc[w] \in Connected
                               /\ NotifyWriters(wpc)[w] = "none" <=> wpc[w] = "none"
  BY DEF TypeOK, NotifySenders, NotifyWriters, SenderStates, WriterStates, Busy, Connected

\* The finally block of the writer keeps every type.
LEMMA ReleaseType ==
  ASSUME TypeInv, NEW w \in Writers, NEW o \in Outcomes, NEW s \in {"top", "done"},
         wpc[w] \in Busy, Release(w, o, s),
         wcancel' \in [Writers -> BOOLEAN],
         written' \in [Msgs -> Nat], log' \in Seq([conn : Conns, msg : Msgs, part : Nat]),
         registered' \subseteq Conns, cstate' \in [Conns -> ConnStates]
  PROVE  TypeInv'
  <1>. DEFINE m == wmsg[w]
  <1>1. m \in Msgs
    BY DEF TypeInv, TypeOK, WriterInv
  <1>2. /\ pendingMessages' \in Int /\ pendingBytes' \in Int
        /\ completion' \in [Msgs -> Outcomes]
    BY <1>1 DEF TypeInv, TypeOK, Release
  <1>3. /\ spc' \in [Msgs -> SenderStates] /\ wpc' \in [Writers -> WriterStates]
        /\ wmsg' \in [Writers -> Msgs \cup {NoMsg}] /\ wconn' \in [Writers -> Conns \cup {0}]
    BY NotifyType DEF TypeInv, TypeOK, Release, WriterStates
  <1>4. UNCHANGED <<target, queue, accepted, writerTask, spawned, cpc, closeList>>
    BY DEF Release, taskVars, closeVars
  <1>5. TypeOK'
    BY <1>2, <1>3, <1>4 DEF TypeInv, TypeOK
  <1>6. WriterInv'
    BY NotifyType DEF TypeInv, TypeOK, WriterInv, Release, taskVars, closeVars, Busy, Connected
  <1>. QED  BY <1>5, <1>6 DEF TypeInv

\* Creating a writer task keeps the types of the task variables.
LEMMA SpawnType ==
  ASSUME TypeInv, NEW pc \in [Writers -> WriterStates], SpawnWriter(pc),
         \A w \in Writers : /\ pc[w] \in Busy <=> wpc[w] \in Busy
                            /\ pc[w] \in Connected => wpc[w] \in Connected
                            /\ pc[w] = "none" <=> wpc[w] = "none",
         UNCHANGED <<wmsg, wconn>>
  PROVE  /\ WriterInv'
         /\ wpc' \in [Writers -> WriterStates] /\ writerTask' \in Writers /\ spawned' \in Nat
  BY DEF TypeInv, TypeOK, WriterInv, SpawnWriter, WriterStates, Writers, Busy, Connected

\* Queueing a message keeps every type.
LEMMA EnqueueType ==
  ASSUME TypeInv, NEW m \in Msgs, Enqueue(m)
  PROVE  TypeInv'
  <1>1. /\ queue' \in Seq(Msgs) /\ accepted' \in Seq(Msgs)
        /\ pendingMessages' \in Int /\ pendingBytes' \in Int
    BY DEF TypeInv, TypeOK, Enqueue
  <1>2. spc' \in [Msgs -> SenderStates]
    BY NotifyType DEF TypeInv, Enqueue, SenderStates
  <1>3. /\ WriterInv'
        /\ wpc' \in [Writers -> WriterStates] /\ writerTask' \in Writers \cup {0} /\ spawned' \in Nat
    <2>. UNCHANGED <<wmsg, wconn>>
      BY DEF Enqueue
    <2>1. CASE NeedsWriter
      BY <2>1, NotifyType, SpawnType DEF TypeInv, Enqueue
    <2>2. CASE ~NeedsWriter
      BY <2>2, NotifyType DEF TypeInv, TypeOK, WriterInv, Enqueue, taskVars
    <2>. QED  BY <2>1, <2>2
  <1>4. UNCHANGED <<target, completion, wcancel, wmsg, wconn, written, log, registered, cstate, cpc, closeList>>
    BY DEF Enqueue, wireVars, connVars, closeVars
  <1>. QED  BY <1>1, <1>2, <1>3, <1>4 DEF TypeInv, TypeOK

\* The end of a cancelled send, which may start a writer, keeps every type.
LEMMA RestartType ==
  ASSUME TypeInv, NEW m \in Msgs, Restart(m)
  PROVE  TypeInv'
  <1>1. spc' \in [Msgs -> SenderStates]
    BY DEF TypeInv, TypeOK, Restart, SenderStates
  <1>2. /\ WriterInv'
        /\ wpc' \in [Writers -> WriterStates] /\ writerTask' \in Writers \cup {0} /\ spawned' \in Nat
    <2>. UNCHANGED <<wmsg, wconn>>
      BY DEF Restart
    <2>1. CASE queue # <<>> /\ ~closed
      <3>. wpc \in [Writers -> WriterStates]  BY DEF TypeInv, TypeOK
      <3>. QED  BY <2>1, SpawnType DEF Restart
    <2>2. CASE ~(queue # <<>> /\ ~closed)
      BY <2>2 DEF TypeInv, TypeOK, WriterInv, Restart, taskVars
    <2>. QED  BY <2>1, <2>2
  <1>3. UNCHANGED <<target, completion, queue, pendingMessages, pendingBytes, accepted,
                    wcancel, wmsg, wconn, written, log, registered, cstate, cpc, closeList>>
    BY DEF Restart, queueVars, wireVars, connVars, closeVars
  <1>. QED  BY <1>1, <1>2, <1>3 DEF TypeInv, TypeOK

\* The preferred connection is a connection.
LEMMA PreferredType ==
  ASSUME TypeInv, registered # {}
  PROVE  Preferred \in registered
  <1>1. registered \subseteq Nat
    BY DEF TypeInv, TypeOK, Conns
  <1>2. PICK c \in registered : \A d \in registered : c <= d
    BY <1>1, HasLeast
  <1>. QED  BY <1>2 DEF Preferred, Min

\* Every step of a sender keeps every type.
LEMMA SenderType ==
  ASSUME TypeInv, NEW m \in Msgs, Sender(m)
  PROVE  TypeInv'
  <1>1. CASE \/ SendRefused(m) \/ SendWaits(m) \/ CapacityClosed(m) \/ CapacityStillFull(m)
             \/ CapacityCancelled(m) \/ SendReturns(m) \/ CancelFinished(m) \/ RegatherDone(m)
             \/ SettleCancelled(m)
    BY <1>1, SenderMovesType DEF SendRefused, SendWaits, CapacityClosed, CapacityStillFull,
       CapacityCancelled, SendReturns, CancelFinished, RegatherDone, SettleCancelled, SenderStates
  <1>2. CASE SendAccepted(m) \/ CapacityFound(m)
    BY <1>2, EnqueueType DEF SendAccepted, CapacityFound
  <1>3. CASE CancelQueued(m)
    <2>1. queue' \in Seq(Msgs)
      <3>1. PICK i \in 1 .. Len(queue) : queue' = SubSeq(queue, 1, i - 1) \o SubSeq(queue, i + 1, Len(queue))
        BY <1>3 DEF CancelQueued
      <3>. queue \in Seq(Msgs)
        BY DEF TypeInv, TypeOK
      <3>. QED  BY <3>1
    <2>2. /\ spc' \in [Msgs -> SenderStates]
          /\ completion' \in [Msgs -> Outcomes]
          /\ pendingMessages' \in Int /\ pendingBytes' \in Int
      <3>1. spc' \in [Msgs -> SenderStates]
        BY <1>3, NotifyType DEF CancelQueued, TypeInv, SenderStates
      <3>2. completion' \in [Msgs -> Outcomes] /\ pendingMessages' \in Int /\ pendingBytes' \in Int
        BY <1>3 DEF CancelQueued, TypeInv, TypeOK, Outcomes
      <3>. QED  BY <3>1, <3>2
    <2>3. UNCHANGED <<target, accepted, writerTask, spawned, wcancel, wmsg, wconn, written, log,
                      registered, cstate, cpc, closeList>>
      BY <1>3 DEF CancelQueued, taskVars, wireVars, connVars, closeVars
    <2>4. WriterInv' /\ wpc' \in [Writers -> WriterStates]
      BY <1>3, <2>3, NotifyType DEF CancelQueued, TypeInv, TypeOK, WriterInv
    <2>. QED  BY <2>1, <2>2, <2>3, <2>4 DEF TypeInv, TypeOK
  <1>4. CASE CancelActive(m)
    BY <1>4 DEF CancelActive, TypeInv, TypeOK, WriterInv, SenderStates, queueVars, taskVars,
       wireVars, connVars, closeVars
  <1>5. CASE CancelAgain(m)
    BY <1>5 DEF CancelAgain, TypeInv, TypeOK, WriterInv, SenderStates, queueVars, taskVars,
       wireVars, connVars, closeVars
  <1>6. CASE GatherDone(m) \/ SettleDone(m)
    BY <1>6, SenderMovesType, RestartType DEF GatherDone, SettleDone, SenderStates
  <1>. QED  BY <1>1, <1>2, <1>3, <1>4, <1>5, <1>6 DEF Sender

\* Writing a part of a frame keeps every type, whatever the transport does.
LEMMA WritePartType ==
  ASSUME TypeInv, NEW w \in Writers, wpc[w] \in {"locked", "granted"},
         NEW last \in Nat, WritePart(w, last)
  PROVE  TypeInv'
  <1>. DEFINE Part == [conn : Conns, msg : Msgs, part : Nat]
  <1>. DEFINE parts == [i \in 1 .. last - written[wmsg[w]] |->
                         [conn |-> wconn[w], msg |-> wmsg[w], part |-> written[wmsg[w]] + i]]
  <1>1. wmsg[w] \in Msgs /\ wconn[w] \in Conns /\ written[wmsg[w]] \in Nat
    BY DEF TypeInv, TypeOK, WriterInv, Busy, Connected
  <1>2. parts \in Seq(Part)
    <2>1. CASE last - written[wmsg[w]] \in Nat
      <3>1. parts \in [1 .. last - written[wmsg[w]] -> Part]
        BY <1>1, <2>1
      <3>. QED  BY <2>1, <3>1, FunctionIsSeq
    <2>2. CASE last - written[wmsg[w]] \notin Nat
      <3>1. 1 .. last - written[wmsg[w]] = 1 .. 0
        BY <1>1, <2>2
      <3>2. parts \in [1 .. 0 -> Part]
        BY <1>1, <3>1
      <3>. QED  BY <3>2, FunctionIsSeq
    <2>. QED  BY <2>1, <2>2
  <1>3. log \in Seq(Part)
    BY DEF TypeInv, TypeOK
  <1>4. log \o parts \in Seq(Part)
    BY <1>2, <1>3, ConcatProperties
  <1>5. CASE cstate[wconn[w]] # "flushed"
    <2>1. /\ log' = IF cstate[wconn[w]] = "lost" THEN log ELSE log \o parts
          /\ written' = [written EXCEPT ![wmsg[w]] = last]
          /\ WriterMoves(w, "drain")
          /\ UNCHANGED <<wconn, registered, cstate>>
      BY <1>5 DEF WritePart, connVars
    <2>2. log' \in Seq(Part)
      BY <1>3, <1>4, <2>1
    <2>3. written' \in [Msgs -> Nat]
      BY <2>1 DEF TypeInv, TypeOK
    <2>. QED
      BY <1>1, <2>1, <2>2, <2>3, WriterMovesType DEF TypeInv, TypeOK, Busy, Connected, WriterStates
  <1>6. CASE cstate[wconn[w]] = "flushed"
    BY <1>6, ReleaseType DEF WritePart, TypeInv, TypeOK, wireVars, connVars, Busy, Outcomes
  <1>. QED  BY <1>5, <1>6

\* Every step of a writer task keeps every type.
LEMMA WriterType ==
  ASSUME TypeInv, NEW w \in Writers, Writer(w)
  PROVE  TypeInv'
  <1>. USE DEF WriterStates, Busy, Connected
  <1>1. CASE FindEmpty(w) \/ NeedDial(w) \/ ConnectLock(w) \/ Acquire(w) \/ Grant(w) \/ DrainedPart(w)
             \/ WriteLock(w)
    BY <1>1, WriterMovesType DEF FindEmpty, AtTop, Resumes, NeedDial, ConnectLock, Acquire, Grant,
       DrainedPart, WriteLock, TypeInv, TypeOK, WriterInv, wireVars, connVars
  <1>2. CASE TakeNext(w)
    <2>1. queue \in Seq(Msgs) /\ queue # <<>> /\ Head(queue) \in Msgs /\ Tail(queue) \in Seq(Msgs)
      BY <1>2 DEF TakeNext, TypeInv, TypeOK
    <2>2. TypeOK'
      BY <1>2, <2>1 DEF TakeNext, TypeInv, TypeOK, senderVars, taskVars, wireVars, connVars, closeVars
    <2>3. WriterInv'
      BY <1>2, <2>1 DEF TakeNext, AtTop, Resumes, TypeInv, TypeOK, WriterInv, taskVars
    <2>. QED  BY <2>2, <2>3 DEF TypeInv
  <1>3. CASE UsePreferred(w)
    <2>1. Preferred \in Conns
      BY <1>3, PreferredType DEF UsePreferred, TypeInv, TypeOK
    <2>. QED
      BY <1>3, <2>1, WriterMovesType DEF UsePreferred, TypeInv, TypeOK, WriterInv, wireVars, connVars
  <1>4. CASE DialOk(w)
    <2>1. PICK c \in Conns :
            /\ cstate' = [cstate EXCEPT ![c] = "open"]
            /\ registered' = registered \cup {c}
            /\ wconn' = [wconn EXCEPT ![w] = c]
      BY <1>4 DEF DialOk
    <2>. QED
      BY <1>4, <2>1, WriterMovesType DEF DialOk, Resumes, TypeInv, TypeOK, wireVars, ConnStates
  <1>5. CASE DialFails(w) \/ AcquireRaises(w) \/ AcquireRefused(w) \/ DrainedFrame(w) \/ Dropped(w)
    BY <1>5, ReleaseType DEF DialFails, AcquireRaises, AcquireRefused, DrainedFrame, Dropped, Resumes,
       TypeInv, TypeOK, wireVars, connVars, Outcomes
  <1>6. CASE WriteFrame(w)
    BY <1>6, WritePartType DEF WriteFrame
  <1>7. CASE WriteGranted(w)
    <2>1. written[wmsg[w]] + 1 \in Nat
      BY <1>7 DEF WriteGranted, Resumes, TypeInv, TypeOK, WriterInv
    <2>. QED  BY <1>7, <2>1, WritePartType DEF WriteGranted, Resumes
  <1>8. CASE DrainFails(w)
    BY <1>8, ReleaseType DEF DrainFails, Resumes, TypeInv, TypeOK, wireVars, Outcomes
  <1>9. CASE CancelledIdle(w)
    BY <1>9 DEF CancelledIdle, TypeInv, TypeOK, WriterInv, senderVars, queueVars, taskVars, wireVars,
       connVars, closeVars
  <1>10. CASE CancelledAtOnce(w)
    BY <1>10, ReleaseType DEF CancelledAtOnce, TypeInv, TypeOK, wireVars, Outcomes
  <1>11. CASE CancelledOnConnection(w)
    <2>1. cstate' \in [Conns -> ConnStates]
      BY <1>11 DEF CancelledOnConnection, AfterClose, TypeInv, TypeOK, WriterInv, ConnStates
    <2>2. /\ registered' \subseteq Conns
          /\ wpc' \in [Writers -> WriterStates] /\ wcancel' \in [Writers -> BOOLEAN]
          /\ UNCHANGED <<senderVars, queueVars, taskVars, wmsg, wconn, wireVars, closeVars>>
      BY <1>11 DEF CancelledOnConnection, TypeInv, TypeOK
    <2>3. TypeOK'
      BY <2>1, <2>2 DEF TypeInv, TypeOK, senderVars, queueVars, taskVars, wireVars, closeVars
    <2>4. WriterInv'
      BY <1>11, <2>2 DEF CancelledOnConnection, TypeInv, TypeOK, WriterInv, taskVars
    <2>. QED  BY <2>3, <2>4 DEF TypeInv
  <1>12. CASE CancelledInDrop(w)
    BY <1>12, ReleaseType DEF CancelledInDrop, TypeInv, TypeOK, wireVars, connVars, Outcomes
  <1>. QED
    BY <1>1, <1>2, <1>3, <1>4, <1>5, <1>6, <1>7, <1>8, <1>9, <1>10, <1>11, <1>12 DEF Writer

\* Every step of a connection keeps every type.
LEMMA ConnectionType ==
  ASSUME TypeInv, NEW c \in Conns, Connection(c)
  PROVE  TypeInv'
  <1>1. /\ cstate' \in [Conns -> ConnStates] /\ registered' \subseteq Conns
        /\ UNCHANGED <<senderVars, queueVars, taskVars, writerVars, wireVars, closeVars>>
    BY DEF Connection, PeerConnects, ConnectionLost, ReaderDrops, FlushDone, ConnMoves, AfterClose,
       TypeInv, TypeOK, ConnStates
  <1>. QED
    BY <1>1 DEF TypeInv, TypeOK, WriterInv, senderVars, queueVars, taskVars, writerVars, wireVars, closeVars

\* Every step of close() keeps every type.
LEMMA CloseType ==
  ASSUME TypeInv, Close
  PROVE  TypeInv'
  <1>. USE DEF CloseMoves, taskVars, wireVars
  <1>1. CASE CloseStart \/ CloseScheduler \/ CloseReturns
    BY <1>1 DEF CloseStart, CloseScheduler, CloseReturns, TypeInv, TypeOK, WriterInv, CloseStates
  <1>2. CASE CloseFailsQueued
    <2>1. queue \in Seq(Msgs) /\ queue # <<>> /\ Head(queue) \in Msgs /\ Tail(queue) \in Seq(Msgs)
      BY <1>2 DEF CloseFailsQueued, TypeInv, TypeOK
    <2>2. /\ queue' \in Seq(Msgs) /\ pendingMessages' \in Int /\ pendingBytes' \in Int
          /\ completion' \in [Msgs -> Outcomes] /\ cpc' \in CloseStates
      BY <1>2, <2>1 DEF CloseFailsQueued, TypeInv, TypeOK, CloseStates, Outcomes
    <2>3. UNCHANGED <<spc, target, accepted, writerTask, spawned, wpc, wcancel, wmsg, wconn, written,
                      log, registered, cstate, closeList>>
      BY <1>2 DEF CloseFailsQueued
    <2>. QED  BY <2>2, <2>3 DEF TypeInv, TypeOK, WriterInv
  <1>3. CASE CloseCancelsWriter
    <2>1. wcancel' \in [Writers -> BOOLEAN]
      BY <1>3 DEF CloseCancelsWriter, TypeInv, TypeOK
    <2>2. spc' \in [Msgs -> SenderStates] /\ wpc' \in [Writers -> WriterStates]
      BY <1>3, NotifyType DEF CloseCancelsWriter, TypeInv
    <2>3. WriterInv'
      BY <1>3, NotifyType DEF CloseCancelsWriter, TypeInv, TypeOK, WriterInv
    <2>. QED
      BY <1>3, <2>1, <2>2, <2>3 DEF CloseCancelsWriter, TypeInv, TypeOK, CloseStates
  <1>4. CASE CloseConnections
    <2>1. cstate' \in [Conns -> ConnStates]
      BY <1>4 DEF CloseConnections, TypeInv, TypeOK
    <2>. QED
      BY <1>4, <2>1 DEF CloseConnections, TypeInv, TypeOK, WriterInv, CloseStates
  <1>. QED  BY <1>1, <1>2, <1>3, <1>4 DEF Close

\* TypeInv is inductive.
LEMMA TypeStep == TypeInv /\ [Next]_vars => TypeInv'
  <1>. SUFFICES ASSUME TypeInv, [Next]_vars  PROVE TypeInv'
    OBVIOUS
  <1>1. CASE Next
    BY <1>1, SenderType, WriterType, ConnectionType, CloseType DEF Next
  <1>2. CASE UNCHANGED vars
    BY <1>2 DEF vars, TypeInv, TypeOK, WriterInv, senderVars, queueVars, taskVars, writerVars, wireVars,
       connVars, closeVars
  <1>. QED  BY <1>1, <1>2

\* TypeInv holds in every reachable state.
LEMMA TypeInvariance == Spec => []TypeInv
  BY InitType, TypeStep, PTL DEF Spec

\* Every variable keeps its type: no action leaves a counter, a queue or a
\* connection in a state the code could not represent.
THEOREM TypeCorrect == Spec => []TypeOK
  <1>1. TypeInv => TypeOK
    BY DEF TypeInv
  <1>. QED  BY <1>1, TypeInvariance, PTL

---------------------------------------------------------------------------
(* The counters of the queue                                               *)

Releases(w) == wpc[w] \in Busy /\ \E o \in Outcomes \ {"cancelled"}, s \in {"top", "done"} : Release(w, o, s)

\* The six ways in which a step can touch the queue, the counters or a holder.
LEMMA QueueSteps ==
  ASSUME TypeInv, [Next]_vars
  PROVE  \/ UNCHANGED <<queue, pendingMessages, pendingBytes, wmsg>>
         \/ \E m \in Msgs : ~Full(m) /\ spc[m] \in {"new", "recheck"} /\ Enqueue(m)
         \/ \E m \in Msgs : CancelQueued(m)
         \/ \E w \in Writers : TakeNext(w)
         \/ \E w \in Writers : Releases(w)
         \/ CloseFailsQueued
  <1>. USE DEF queueVars, writerVars
  <1>1. ASSUME NEW m \in Msgs, Sender(m)
        PROVE  \/ UNCHANGED <<queue, pendingMessages, pendingBytes, wmsg>>
               \/ ~Full(m) /\ spc[m] \in {"new", "recheck"} /\ Enqueue(m)
               \/ CancelQueued(m)
    BY <1>1 DEF Sender, SendRefused, SendWaits, SendAccepted, CapacityClosed, CapacityStillFull,
       CapacityFound, CapacityCancelled, SendReturns, CancelActive, CancelFinished, CancelAgain,
       GatherDone, RegatherDone, SettleDone, SettleCancelled, SenderMoves, Restart
  <1>2. ASSUME NEW w \in Writers, Writer(w)
        PROVE  \/ UNCHANGED <<queue, pendingMessages, pendingBytes, wmsg>>
               \/ TakeNext(w) \/ Releases(w)
    <2>1. CASE FindEmpty(w) \/ UsePreferred(w) \/ NeedDial(w) \/ ConnectLock(w) \/ DialOk(w)
               \/ WriteLock(w) \/ Acquire(w) \/ Grant(w) \/ DrainedPart(w)
               \/ CancelledIdle(w) \/ CancelledOnConnection(w)
      BY <2>1 DEF FindEmpty, UsePreferred, NeedDial, ConnectLock, DialOk, WriteLock, Acquire, Grant,
         DrainedPart, CancelledIdle, CancelledOnConnection, WriterMoves
    <2>2. CASE DialFails(w) \/ AcquireRaises(w) \/ AcquireRefused(w) \/ DrainedFrame(w)
               \/ DrainFails(w) \/ CancelledAtOnce(w) \/ Dropped(w) \/ CancelledInDrop(w)
      BY <2>2 DEF DialFails, AcquireRaises, AcquireRefused, DrainedFrame, DrainFails,
         CancelledAtOnce, Dropped, CancelledInDrop, Resumes, Releases, Busy, Outcomes
    <2>3. CASE WriteFrame(w) \/ WriteGranted(w)
      BY <2>3 DEF WriteFrame, WriteGranted, WritePart, WriterMoves, Resumes, Releases, Busy, Outcomes
    <2>. QED  BY <1>2, <2>1, <2>2, <2>3 DEF Writer
  <1>3. ASSUME NEW c \in Conns, Connection(c)
        PROVE  UNCHANGED <<queue, pendingMessages, pendingBytes, wmsg>>
    BY <1>3 DEF Connection, PeerConnects, ConnectionLost, ReaderDrops, FlushDone, ConnMoves
  <1>4. ASSUME Close
        PROVE  UNCHANGED <<queue, pendingMessages, pendingBytes, wmsg>> \/ CloseFailsQueued
    BY <1>4 DEF Close, CloseStart, CloseCancelsWriter, CloseScheduler, CloseConnections,
       CloseReturns, CloseMoves
  <1>5. CASE UNCHANGED vars
    BY <1>5 DEF vars
  <1>. QED  BY <1>1, <1>2, <1>3, <1>4, <1>5 DEF Next

\* A set of writers is finite.
LEMMA FiniteHolders ==
  ASSUME NEW S \in SUBSET Writers
  PROVE  IsFiniteSet(S) /\ Cardinality(S) \in Nat
  <1>1. IsFiniteSet(Writers)
    BY FS_Interval DEF Writers
  <1>. QED  BY <1>1, FS_Subset, FS_CardinalityType

\* What is left of a sequence without its i-th element.
LEMMA RemovedAt ==
  ASSUME NEW s \in Seq(Msgs), NEW i \in 1 .. Len(s),
         NEW t, t = SubSeq(s, 1, i - 1) \o SubSeq(s, i + 1, Len(s))
  PROVE  /\ Len(t) = Len(s) - 1
         /\ \A k \in 1 .. Len(t) : t[k] = IF k < i THEN s[k] ELSE s[k + 1]
  <1>. DEFINE a == SubSeq(s, 1, i - 1)
              b == SubSeq(s, i + 1, Len(s))
  <1>1. /\ a \in Seq(Msgs) /\ Len(a) = i - 1
        /\ \A k \in 1 .. i - 1 : a[k] = s[k]
    BY SubSeqProperties
  <1>2. /\ b \in Seq(Msgs) /\ Len(b) = Len(s) - i
        /\ \A k \in 1 .. Len(s) - i : b[k] = s[k + i]
    BY SubSeqProperties
  <1>3. t = a \o b
    OBVIOUS
  <1>4. \A x, y \in Seq(Msgs) :
          /\ Len(x \o y) = Len(x) + Len(y)
          /\ \A k \in 1 .. Len(x) + Len(y) : (x \o y)[k] = IF k <= Len(x) THEN x[k] ELSE y[k - Len(x)]
    BY ConcatProperties
  <1>. HIDE DEF a, b
  <1>a. a \in Seq(Msgs) /\ b \in Seq(Msgs)
    BY <1>1, <1>2, Zenon
  <1>b. /\ Len(a \o b) = Len(a) + Len(b)
        /\ \A k \in 1 .. Len(a) + Len(b) : (a \o b)[k] = IF k <= Len(a) THEN a[k] ELSE b[k - Len(a)]
    BY <1>a, <1>4, Zenon
  <1>5. /\ Len(t) = Len(a) + Len(b)
        /\ \A k \in 1 .. Len(a) + Len(b) : t[k] = IF k <= Len(a) THEN a[k] ELSE b[k - Len(a)]
    BY <1>b, <1>3, Zenon
  <1>6. ASSUME NEW u, Len(u) = Len(a) + Len(b),
               \A k \in 1 .. Len(a) + Len(b) : u[k] = IF k <= Len(a) THEN a[k] ELSE b[k - Len(a)]
        PROVE  /\ Len(u) = Len(s) - 1
               /\ \A k \in 1 .. Len(u) : u[k] = IF k < i THEN s[k] ELSE s[k + 1]
    <2>1. i \in Int /\ Len(s) \in Nat /\ 1 <= i /\ i <= Len(s)
      OBVIOUS
    <2>2. Len(u) = Len(s) - 1
      BY <1>1, <1>2, <1>6, <2>1
    <2>3. ASSUME NEW k \in 1 .. Len(u)  PROVE u[k] = IF k < i THEN s[k] ELSE s[k + 1]
      <3>1. k \in Int /\ k \in 1 .. Len(a) + Len(b)
        BY <1>6, <2>1, <2>2
      <3>2. CASE k < i
        BY <1>1, <1>6, <2>1, <3>1, <3>2
      <3>3. CASE ~(k < i)
        <4>1. ~(k <= Len(a)) /\ k - Len(a) \in 1 .. Len(s) - i /\ (k - Len(a)) + i = k + 1
          BY <1>1, <2>1, <2>2, <3>1, <3>3
        <4>2. u[k] = s[(k - Len(a)) + i]
          BY <1>2, <1>6, <3>1, <4>1
        <4>. QED  BY <3>3, <4>1, <4>2
      <3>. QED  BY <3>2, <3>3
    <2>. QED  BY <2>2, <2>3
  <1>. QED  BY <1>5, <1>6, Zenon

\* Every step moves pending_messages with the queue and the holders.
LEMMA CountStep ==
  ASSUME TypeInv, MessageAccounting, [Next]_vars
  PROVE  MessageAccounting'
  <1>. /\ queue \in Seq(Msgs) /\ wmsg \in [Writers -> Msgs \cup {NoMsg}]
       /\ Len(queue) \in Nat /\ Holders \in SUBSET Writers
    BY DEF TypeInv, TypeOK, Holders
  <1>. IsFiniteSet(Holders) /\ Cardinality(Holders) \in Nat
    BY FiniteHolders
  <1>1. CASE UNCHANGED <<queue, pendingMessages, pendingBytes, wmsg>>
    BY <1>1 DEF MessageAccounting, Holders
  <1>2. ASSUME NEW m \in Msgs, Enqueue(m)  PROVE MessageAccounting'
    <2>1. Len(queue') = Len(queue) + 1
      BY <1>2 DEF Enqueue
    <2>2. Holders' = Holders
      BY <1>2 DEF Enqueue, Holders
    <2>. QED  BY <1>2, <2>1, <2>2 DEF Enqueue, MessageAccounting
  <1>3. ASSUME NEW m \in Msgs, CancelQueued(m)  PROVE MessageAccounting'
    <2>1. PICK i \in 1 .. Len(queue) : queue' = SubSeq(queue, 1, i - 1) \o SubSeq(queue, i + 1, Len(queue))
      BY <1>3 DEF CancelQueued
    <2>2. Len(queue') = Len(queue) - 1
      BY <2>1, RemovedAt
    <2>3. Holders' = Holders
      BY <1>3 DEF CancelQueued, Holders
    <2>4. pendingMessages' = pendingMessages - 1
      BY <1>3 DEF CancelQueued
    <2>. QED  BY <2>2, <2>3, <2>4 DEF MessageAccounting
  <1>4. ASSUME NEW w \in Writers, TakeNext(w)  PROVE MessageAccounting'
    <2>1. Len(queue') = Len(queue) - 1
      BY <1>4 DEF TakeNext
    <2>2. w \notin Holders
      BY <1>4 DEF TakeNext, AtTop, Resumes, Holders, TypeInv, WriterInv, Busy
    <2>3. Head(queue) \in Msgs
      BY <1>4 DEF TakeNext
    <2>4. Holders' = Holders \cup {w}
      BY <1>4, <2>3 DEF TakeNext, Holders
    <2>5. Cardinality(Holders') = Cardinality(Holders) + 1
      BY <2>2, <2>4, FS_AddElement
    <2>6. pendingMessages' = pendingMessages
      BY <1>4 DEF TakeNext
    <2>. QED  BY <2>1, <2>5, <2>6 DEF MessageAccounting
  <1>5. ASSUME NEW w \in Writers, Releases(w)  PROVE MessageAccounting'
    <2>1. w \in Holders
      BY <1>5 DEF Releases, Holders, TypeInv, WriterInv
    <2>2. Holders' = Holders \ {w}
      BY <1>5 DEF Releases, Release, Holders
    <2>3. Cardinality(Holders') = Cardinality(Holders) - 1
      BY <2>1, <2>2, FS_RemoveElement
    <2>4. queue' = queue /\ pendingMessages' = pendingMessages - 1
      BY <1>5 DEF Releases, Release
    <2>. QED  BY <2>3, <2>4 DEF MessageAccounting
  <1>6. CASE CloseFailsQueued
    <2>1. Len(queue') = Len(queue) - 1
      BY <1>6 DEF CloseFailsQueued
    <2>2. Holders' = Holders
      BY <1>6 DEF CloseFailsQueued, CloseMoves, Holders
    <2>. QED  BY <1>6, <2>1, <2>2 DEF CloseFailsQueued, MessageAccounting
  <1>. QED  BY <1>1, <1>2, <1>3, <1>4, <1>5, <1>6, QueueSteps

\* pending_messages is exact in every reachable state: no path by which a
\* message leaves (sent, failed, removed, cancelled, close) forgets it or
\* releases it twice.
THEOREM MessagesCounted == Spec => []MessageAccounting
  <1>1. Init => MessageAccounting
    <2>. SUFFICES ASSUME Init  PROVE MessageAccounting
      OBVIOUS
    <2>1. Holders = {}
      BY DEF Init, Holders
    <2>. QED  BY <2>1, FS_EmptySet DEF Init, MessageAccounting
  <1>2. TypeInv /\ MessageAccounting /\ [Next]_vars => MessageAccounting'
    BY CountStep
  <1>. QED  BY <1>1, <1>2, TypeInvariance, PTL DEF Spec

\* No step takes the counters over their limits.
LEMMA LimitsStep ==
  ASSUME TypeInv, pendingMessages <= MaxMessages, pendingBytes <= MaxBytes, [Next]_vars
  PROVE  pendingMessages' <= MaxMessages /\ pendingBytes' <= MaxBytes
  <1>. /\ pendingMessages \in Int /\ pendingBytes \in Int /\ queue \in Seq(Msgs)
       /\ \A m \in Msgs : Size[m] \in Nat
    BY DEF TypeInv, TypeOK
  <1>1. ASSUME NEW m \in Msgs, ~Full(m), Enqueue(m)
        PROVE  pendingMessages' <= MaxMessages /\ pendingBytes' <= MaxBytes
    BY <1>1 DEF Enqueue, Full
  <1>2. ASSUME NEW m \in Msgs, CancelQueued(m)
        PROVE  pendingMessages' <= MaxMessages /\ pendingBytes' <= MaxBytes
    <2>1. pendingMessages' = pendingMessages - 1 /\ pendingBytes' = pendingBytes - Size[m]
      BY <1>2 DEF CancelQueued
    <2>. QED  BY <2>1
  <1>3. ASSUME NEW w \in Writers, TakeNext(w)
        PROVE  pendingMessages' <= MaxMessages /\ pendingBytes' <= MaxBytes
    BY <1>3 DEF TakeNext
  <1>4. ASSUME NEW w \in Writers, Releases(w)
        PROVE  pendingMessages' <= MaxMessages /\ pendingBytes' <= MaxBytes
    <2>1. wmsg[w] \in Msgs
      BY <1>4 DEF Releases, TypeInv, TypeOK, WriterInv
    <2>. QED  BY <1>4, <2>1 DEF Releases, Release
  <1>5. CASE CloseFailsQueued
    <2>1. Head(queue) \in Msgs
      BY <1>5 DEF CloseFailsQueued
    <2>. QED  BY <1>5, <2>1 DEF CloseFailsQueued
  <1>. QED  BY <1>1, <1>2, <1>3, <1>4, <1>5, QueueSteps

\* The limits of the configuration hold in every reachable state, for any
\* number of senders and any sizes.
THEOREM LimitsHold == Spec => []WithinLimits
  <1>1. Init => pendingMessages <= MaxMessages /\ pendingBytes <= MaxBytes
    BY DEF Init
  <1>2. TypeInv /\ (pendingMessages <= MaxMessages /\ pendingBytes <= MaxBytes) /\ [Next]_vars
          => (pendingMessages <= MaxMessages /\ pendingBytes <= MaxBytes)'
    BY LimitsStep
  <1>3. MessageAccounting /\ (pendingMessages <= MaxMessages /\ pendingBytes <= MaxBytes) => WithinLimits
    BY DEF MessageAccounting, WithinLimits
  <1>. QED  BY <1>1, <1>2, <1>3, TypeInvariance, MessagesCounted, PTL DEF Spec

---------------------------------------------------------------------------
(* Wakeups on queue_condition                                              *)

\* notify_all: nobody sleeps on the condition after the step.
Notifies ==
    /\ \A m \in Msgs : spc'[m] # "capacity"
    /\ \A w \in Writers : wpc'[w] # "idle"

\* The step changes nothing a sleeper waits for, and who falls asleep has a reason.
Quiet ==
    /\ UNCHANGED <<queue, pendingMessages, pendingBytes, cpc>>
    /\ \A m \in Msgs : spc'[m] = "capacity" => spc[m] = "capacity" \/ (cpc = "open" /\ Full(m))
    /\ \A w \in Writers : wpc'[w] = "idle" => wpc[w] = "idle" \/ (cpc = "open" /\ queue = <<>>)

\* The step takes a message out of a queue that is not empty.
Takes ==
    /\ queue # <<>>
    /\ UNCHANGED <<spc, pendingMessages, pendingBytes, cpc>>
    /\ \A w \in Writers : wpc'[w] = "idle" => wpc[w] = "idle"

\* close() before it notifies, and after.
Drains == cpc' = "drain" /\ UNCHANGED <<spc, wpc>> /\ (queue' = queue \/ queue # <<>>)
Ends   == cpc \notin {"open", "drain"} /\ UNCHANGED <<spc, wpc>>

\* No step of a sender changes the condition without notifying its waiters.
LEMMA SenderWakes ==
  ASSUME TypeInv, NEW m \in Msgs, Sender(m)
  PROVE  Notifies \/ Quiet
  <1>. USE DEF Quiet, SenderMoves, queueVars, taskVars, closeVars, TypeInv, TypeOK
  <1>1. ASSUME Enqueue(m)  PROVE Notifies
    <2>1. \A n \in Msgs : spc'[n] # "capacity"
      BY <1>1 DEF Enqueue, NotifySenders
    <2>2. \A w \in Writers : NotifyWriters(wpc)[w] # "idle"
      BY DEF NotifyWriters
    <2>3. \A w \in Writers : wpc'[w] # "idle"
      BY <1>1, <2>2 DEF Enqueue, SpawnWriter, NotifyWriters
    <2>. QED  BY <2>1, <2>3 DEF Notifies
  <1>2. CASE SendWaits(m) \/ CapacityStillFull(m)
    BY <1>2 DEF SendWaits, CapacityStillFull, closed, writerVars
  <1>3. CASE CancelQueued(m)
    BY <1>3 DEF CancelQueued, NotifySenders, NotifyWriters, Notifies
  <1>4. CASE \/ SendRefused(m) \/ CapacityClosed(m) \/ CapacityCancelled(m) \/ SendReturns(m)
             \/ CancelFinished(m) \/ RegatherDone(m) \/ SettleCancelled(m)
    BY <1>4 DEF SendRefused, CapacityClosed, CapacityCancelled, SendReturns, CancelFinished,
       RegatherDone, SettleCancelled, writerVars
  <1>5. CASE CancelActive(m) \/ CancelAgain(m)
    BY <1>5 DEF CancelActive, CancelAgain
  <1>6. ASSUME Restart(m)  PROVE Quiet
    BY <1>6 DEF Restart, SpawnWriter
  <1>7. CASE GatherDone(m) \/ SettleDone(m)
    BY <1>7, <1>6 DEF GatherDone, SettleDone, writerVars
  <1>. QED
    BY <1>1, <1>2, <1>3, <1>4, <1>5, <1>7 DEF Sender, SendAccepted, CapacityFound

\* Nor does a step of a writer, whichever way it gives its message up.
LEMMA WriterWakes ==
  ASSUME TypeInv, NEW w \in Writers, Writer(w)
  PROVE  Notifies \/ Quiet \/ Takes
  <1>. USE DEF TypeInv, TypeOK
  <1>1. ASSUME NEW o, NEW s \in {"top", "done"}, Release(w, o, s)  PROVE Notifies
    BY <1>1 DEF Release, NotifySenders, NotifyWriters, Notifies
  <1>2. CASE FindEmpty(w)
    BY <1>2 DEF FindEmpty, WriterMoves, closed, Quiet, senderVars, queueVars, closeVars
  <1>3. CASE TakeNext(w)
    BY <1>3 DEF TakeNext, Takes, senderVars, closeVars
  <1>4. ASSUME NEW s \in WriterStates \ {"idle"}, WriterMoves(w, s)  PROVE Quiet
    BY <1>4 DEF WriterMoves, Quiet, senderVars, queueVars, closeVars
  <1>5. CASE UsePreferred(w) \/ NeedDial(w) \/ ConnectLock(w) \/ DialOk(w) \/ WriteLock(w)
             \/ Acquire(w) \/ Grant(w) \/ DrainedPart(w)
    BY <1>5, <1>4 DEF UsePreferred, NeedDial, ConnectLock, DialOk, WriteLock, Acquire, Grant,
       DrainedPart, WriterStates
  <1>6. CASE WriteFrame(w) \/ WriteGranted(w)
    BY <1>6, <1>4, <1>1 DEF WriteFrame, WriteGranted, WritePart, WriterStates
  <1>7. CASE DialFails(w) \/ AcquireRaises(w) \/ AcquireRefused(w) \/ DrainedFrame(w)
             \/ DrainFails(w) \/ CancelledAtOnce(w) \/ Dropped(w) \/ CancelledInDrop(w)
    BY <1>7, <1>1 DEF DialFails, AcquireRaises, AcquireRefused, DrainedFrame, DrainFails,
       CancelledAtOnce, Dropped, CancelledInDrop
  <1>8. CASE CancelledIdle(w) \/ CancelledOnConnection(w)
    BY <1>8 DEF CancelledIdle, CancelledOnConnection, Quiet, senderVars, queueVars, closeVars
  <1>. QED
    BY <1>2, <1>3, <1>5, <1>6, <1>7, <1>8 DEF Writer

\* close() empties the queue without notifying, and notifies before anybody runs.
LEMMA CloseWakes ==
  ASSUME TypeInv, Close
  PROVE  Notifies \/ Drains \/ Ends
  <1>1. CASE CloseStart \/ CloseFailsQueued
    BY <1>1 DEF CloseStart, CloseFailsQueued, CloseMoves, Drains
  <1>2. CASE CloseCancelsWriter
    BY <1>2 DEF CloseCancelsWriter, NotifySenders, NotifyWriters, Notifies
  <1>3. CASE CloseScheduler \/ CloseConnections \/ CloseReturns
    BY <1>3 DEF CloseScheduler, CloseConnections, CloseReturns, Ends
  <1>. QED  BY <1>1, <1>2, <1>3 DEF Close

\* Each kind of step keeps every sleeper's reason to sleep.
LEMMA WakeupStep ==
  ASSUME TypeInv, NoLostWakeup, [Next]_vars
  PROVE  NoLostWakeup'
  <1>1. Notifies \/ Quiet \/ Takes \/ Drains \/ Ends
    <2>1. CASE UNCHANGED vars
      BY <2>1 DEF vars, senderVars, queueVars, writerVars, closeVars, Quiet
    <2>2. ASSUME NEW c \in Conns, Connection(c)  PROVE Quiet
      BY <2>2 DEF Connection, PeerConnects, ConnectionLost, ReaderDrops, FlushDone, ConnMoves,
         senderVars, queueVars, writerVars, closeVars, Quiet
    <2>. QED  BY <2>1, <2>2, SenderWakes, WriterWakes, CloseWakes DEF Next
  <1>2. CASE Notifies
    BY <1>2 DEF Notifies, NoLostWakeup
  <1>3. CASE Quiet
    BY <1>3 DEF Quiet, NoLostWakeup, Full
  <1>4. CASE Takes
    BY <1>4 DEF Takes, NoLostWakeup, Full
  <1>5. CASE Drains
    BY <1>5 DEF Drains, NoLostWakeup
  <1>6. CASE Ends
    BY <1>6 DEF Ends, NoLostWakeup
  <1>. QED  BY <1>1, <1>2, <1>3, <1>4, <1>5, <1>6

\* No sender sleeps while there is room for its message and no writer while
\* there is something to send: every step that could give one of them a reason
\* to wake notifies the condition in that same step.
THEOREM WakeupsKept == Spec => []NoLostWakeup
  <1>1. Init => NoLostWakeup
    BY DEF Init, NoLostWakeup
  <1>2. TypeInv /\ NoLostWakeup /\ [Next]_vars => NoLostWakeup'
    BY WakeupStep
  <1>. QED  BY <1>1, <1>2, TypeInvariance, PTL DEF Spec

---------------------------------------------------------------------------
(* Every message is in one place only, so the backlog is counted right to  *)
(* the byte; and when no send is cancelled twice, send() never ends while  *)
(* its message is queued or in the hands of a writer task.                 *)

HIDE PeerWriterAssumption DEF Uncount

Fresh   == {"new", "capacity", "recheck"}
Waiting == {"shield", "gather", "settle"}

Owned(m) == Queued(m) \/ Active(m)

\* A message is in one place only; while it is there its future is pending, and its
\* send() has queued it.
Custody ==
    /\ \A i, j \in 1 .. Len(queue) : queue[i] = queue[j] => i = j
    /\ \A v, w \in Writers : wmsg[v] # NoMsg /\ wmsg[v] = wmsg[w] => v = w
    /\ \A i \in 1 .. Len(queue), w \in Writers : queue[i] # wmsg[w]
    /\ \A m \in Msgs : Owned(m) => completion[m] = "pending" /\ spc[m] \notin Fresh
    /\ \A m \in Msgs : spc[m] \in Fresh => completion[m] = "pending"

\* While a message is queued or held by a writer, its send() waits for it.
Attended == \A m \in Msgs : Owned(m) => spc[m] \in Waiting

\* The step moves tasks only: no message changes hands.
Moves ==
    /\ UNCHANGED <<queue, wmsg, completion>>
    /\ \A m \in Msgs : spc'[m] \in Fresh => spc[m] \in Fresh

\* Nobody whose message is owned stops to wait for it.
Attends ==
    \A m \in Msgs : Owned(m) /\ completion[m] = "pending" /\ spc[m] \in Waiting => spc'[m] \in Waiting

\* What NotifySenders leaves alone.
LEMMA NotifyKeeps ==
  ASSUME TypeInv, NEW m \in Msgs
  PROVE  /\ spc[m] \in Waiting => NotifySenders(spc)[m] = spc[m]
         /\ NotifySenders(spc)[m] \in Fresh => spc[m] \in Fresh
         /\ NotifySenders(spc) \in [Msgs -> SenderStates]
  BY DEF NotifySenders, TypeInv, TypeOK, Waiting, Fresh, SenderStates

\* A step of a sender queues its message, takes it back, or moves the sender.
LEMMA SenderCustody ==
  ASSUME TypeInv, NEW m \in Msgs, Sender(m)
  PROVE  \/ Moves /\ (CancellableTwice = {} => Attends)
         \/ spc[m] \in {"new", "recheck"} /\ Enqueue(m)
         \/ CancelQueued(m)
  <1>. USE DEF queueVars, writerVars, TypeInv, TypeOK
  <1>1. CASE SendAccepted(m) \/ CapacityFound(m)
    BY <1>1 DEF SendAccepted, CapacityFound
  <1>2. CASE CancelQueued(m)
    BY <1>2
  <1>3. ASSUME NEW s \in SenderStates, SenderMoves(m, s),
               s \in Fresh => spc[m] \in Fresh
        PROVE  /\ Moves
               /\ (Owned(m) /\ completion[m] = "pending" /\ spc[m] \in Waiting => s \in Waiting) => Attends
    BY <1>3 DEF SenderMoves, Moves, Attends, Owned
  <1>4. CASE SendRefused(m) \/ SendWaits(m) \/ CapacityClosed(m) \/ CapacityStillFull(m) \/ CapacityCancelled(m)
    BY <1>4, <1>3 DEF SendRefused, SendWaits, CapacityClosed, CapacityStillFull, CapacityCancelled,
       Fresh, Waiting, SenderStates
  <1>5. CASE SendReturns(m) \/ CancelFinished(m) \/ RegatherDone(m)
    BY <1>5, <1>3 DEF SendReturns, CancelFinished, RegatherDone, Fresh, Waiting, SenderStates, Owned
  <1>6. CASE CancelActive(m)
    BY <1>6 DEF CancelActive, Moves, Attends, Fresh, Waiting
  <1>7. ASSUME completion[m] # "pending", Restart(m)  PROVE Moves /\ Attends
    BY <1>7 DEF Restart, Moves, Attends, Fresh, Waiting
  <1>8. CASE GatherDone(m)
    BY <1>8, <1>3, <1>7 DEF GatherDone, Fresh, Waiting, SenderStates
  <1>9. CASE SettleDone(m)
    BY <1>9, <1>7 DEF SettleDone
  <1>10. CASE CancelAgain(m)
    BY <1>10 DEF CancelAgain, Moves, Fresh
  <1>11. CASE SettleCancelled(m)
    BY <1>11, <1>3 DEF SettleCancelled, Fresh, SenderStates
  <1>. QED
    BY <1>1, <1>2, <1>4, <1>5, <1>6, <1>8, <1>9, <1>10, <1>11 DEF Sender

\* The ways in which a step can move a message.
LEMMA CustodySteps ==
  ASSUME TypeInv, [Next]_vars
  PROVE  \/ Moves /\ (CancellableTwice = {} => Attends)
         \/ \E m \in Msgs : spc[m] \in {"new", "recheck"} /\ Enqueue(m)
         \/ \E m \in Msgs : CancelQueued(m)
         \/ \E w \in Writers : TakeNext(w)
         \/ \E w \in Writers : Releases(w)
         \/ CloseFailsQueued
  <1>. USE DEF senderVars, queueVars, writerVars
  <1>1. ASSUME UNCHANGED <<queue, wmsg, completion, spc>>  PROVE Moves /\ Attends
    BY <1>1 DEF Moves, Attends
  <1>2. ASSUME NEW w \in Writers, Writer(w)
        PROVE  (Moves /\ Attends) \/ TakeNext(w) \/ Releases(w)
    <2>1. CASE FindEmpty(w) \/ UsePreferred(w) \/ NeedDial(w) \/ ConnectLock(w) \/ DialOk(w)
               \/ WriteLock(w) \/ Acquire(w) \/ Grant(w) \/ DrainedPart(w)
               \/ CancelledIdle(w) \/ CancelledOnConnection(w)
      BY <2>1, <1>1 DEF FindEmpty, UsePreferred, NeedDial, ConnectLock, DialOk, WriteLock, Acquire, Grant,
         DrainedPart, CancelledIdle, CancelledOnConnection, WriterMoves
    <2>2. CASE DialFails(w) \/ AcquireRaises(w) \/ AcquireRefused(w) \/ DrainedFrame(w)
               \/ DrainFails(w) \/ CancelledAtOnce(w) \/ Dropped(w) \/ CancelledInDrop(w)
      BY <2>2 DEF DialFails, AcquireRaises, AcquireRefused, DrainedFrame, DrainFails,
         CancelledAtOnce, Dropped, CancelledInDrop, Resumes, Releases, Busy, Outcomes
    <2>3. CASE WriteFrame(w) \/ WriteGranted(w)
      BY <2>3, <1>1 DEF WriteFrame, WriteGranted, WritePart, WriterMoves, Resumes, Releases, Busy, Outcomes
    <2>. QED  BY <1>2, <2>1, <2>2, <2>3 DEF Writer
  <1>3. ASSUME NEW c \in Conns, Connection(c)  PROVE Moves /\ Attends
    BY <1>3, <1>1 DEF Connection, PeerConnects, ConnectionLost, ReaderDrops, FlushDone, ConnMoves
  <1>4. ASSUME Close  PROVE (Moves /\ Attends) \/ CloseFailsQueued
    <2>1. CASE CloseCancelsWriter
      BY <2>1, NotifyKeeps DEF CloseCancelsWriter, CloseMoves, Moves, Attends
    <2>. QED
      BY <1>1, <1>4, <2>1 DEF Close, CloseStart, CloseScheduler, CloseConnections, CloseReturns, CloseMoves
  <1>5. CASE UNCHANGED vars
    BY <1>5, <1>1 DEF vars
  <1>. QED  BY SenderCustody, <1>2, <1>3, <1>4, <1>5 DEF Next

---------------------------------------------------------------------------
\* What a cancelled send leaves of the queue.
LEMMA TakenBack ==
  ASSUME TypeInv, NEW m \in Msgs, CancelQueued(m)
  PROVE  \E i \in 1 .. Len(queue) :
            /\ queue[i] = m /\ Len(queue') = Len(queue) - 1
            /\ \A k \in 1 .. Len(queue') : queue'[k] = IF k < i THEN queue[k] ELSE queue[k + 1]
  <1>1. queue \in Seq(Msgs)
    BY DEF TypeInv, TypeOK
  <1>2. PICK i \in 1 .. Len(queue) :
           /\ queue[i] = m
           /\ queue' = SubSeq(queue, 1, i - 1) \o SubSeq(queue, i + 1, Len(queue))
    BY DEF CancelQueued
  <1>3. \A s \in Seq(Msgs) : \A k \in 1 .. Len(s) :
          LET t == SubSeq(s, 1, k - 1) \o SubSeq(s, k + 1, Len(s))
          IN  /\ Len(t) = Len(s) - 1
              /\ \A j \in 1 .. Len(t) : t[j] = IF j < k THEN s[j] ELSE s[j + 1]
    BY RemovedAt, Zenon
  <1>. QED  BY <1>1, <1>2, <1>3, Zenon

\* Each way to move a message keeps it in one place.
LEMMA CustodyStep ==
  ASSUME TypeInv, Custody, [Next]_vars
  PROVE  Custody'
  <1>. USE DEF Owned, Queued, Active
  <1>0. /\ queue \in Seq(Msgs) /\ Len(queue) \in Nat
        /\ wmsg \in [Writers -> Msgs \cup {NoMsg}]
        /\ completion \in [Msgs -> Outcomes] /\ spc \in [Msgs -> SenderStates]
        /\ \A i \in 1 .. Len(queue) : queue[i] \in Msgs
        /\ NoMsg \notin Msgs
    BY PeerWriterAssumption DEF TypeInv, TypeOK
  <1>a. /\ \A i, j \in 1 .. Len(queue) : queue[i] = queue[j] => i = j
        /\ \A v, w \in Writers : wmsg[v] # NoMsg /\ wmsg[v] = wmsg[w] => v = w
        /\ \A i \in 1 .. Len(queue), w \in Writers : queue[i] # wmsg[w]
    BY DEF Custody
  <1>1. CASE Moves
    BY <1>1 DEF Moves, Custody
  <1>2. ASSUME NEW m \in Msgs, spc[m] \in {"new", "recheck"}, Enqueue(m)  PROVE Custody'
    <2>1. ~Owned(m) /\ completion[m] = "pending"
      BY <1>2 DEF Custody, Fresh
    <2>2. /\ Len(queue') = Len(queue) + 1
          /\ \A i \in 1 .. Len(queue) : queue'[i] = queue[i]
          /\ queue'[Len(queue) + 1] = m
          /\ UNCHANGED <<wmsg, completion>>
      BY <1>0, <1>2 DEF Enqueue
    <2>3. /\ spc'[m] = "shield"
          /\ \A n \in Msgs : n # m => spc'[n] = NotifySenders(spc)[n]
      BY <1>2, <1>0 DEF Enqueue, NotifySenders
    <2>4. \A i \in 1 .. Len(queue') : i \in 1 .. Len(queue) \/ i = Len(queue) + 1
      BY <1>0, <2>2
    <2>5. \A n \in Msgs : n # m /\ Owned(n)' => Owned(n)
      BY <1>0, <2>2, <2>4
    <2>6. \A i, j \in 1 .. Len(queue') : queue'[i] = queue'[j] => i = j
      BY <2>1, <2>2, <2>4 DEF Custody
    <2>7. \A i \in 1 .. Len(queue'), w \in Writers : queue'[i] # wmsg'[w]
      BY <2>1, <2>2, <2>4 DEF Custody
    <2>8. \A n \in Msgs : Owned(n)' => completion'[n] = "pending" /\ spc'[n] \notin Fresh
      BY <2>1, <2>2, <2>3, <2>5, NotifyKeeps DEF Custody, Fresh
    <2>9. \A n \in Msgs : spc'[n] \in Fresh => completion'[n] = "pending"
      BY <2>2, <2>3, NotifyKeeps DEF Custody, Fresh
    <2>. QED  BY <2>2, <2>6, <2>7, <2>8, <2>9 DEF Custody
  <1>3. ASSUME NEW m \in Msgs, CancelQueued(m)  PROVE Custody'
    <2>1. PICK i \in 1 .. Len(queue) :
             /\ queue[i] = m /\ Len(queue') = Len(queue) - 1
             /\ \A k \in 1 .. Len(queue') : queue'[k] = IF k < i THEN queue[k] ELSE queue[k + 1]
      BY <1>3, TakenBack
    <2>2. /\ Len(queue') = Len(queue) - 1
          /\ \A k \in 1 .. Len(queue') : queue'[k] = IF k < i THEN queue[k] ELSE queue[k + 1]
      BY <2>1
    <2>3. /\ wmsg' = wmsg /\ completion' = [completion EXCEPT ![m] = "cancelled"]
          /\ spc' = [NotifySenders(spc) EXCEPT ![m] = "cancelled"]
      BY <1>3 DEF CancelQueued
    <2>4. ASSUME NEW k \in 1 .. Len(queue')
          PROVE  \E j \in 1 .. Len(queue) : j # i /\ queue'[k] = queue[j] /\ j = IF k < i THEN k ELSE k + 1
      <3>1. CASE k < i
        BY <1>0, <2>2, <3>1
      <3>2. CASE ~(k < i)
        BY <1>0, <2>2, <3>2
      <3>. QED  BY <3>1, <3>2
    <2>a. queue[i] = m /\ i \in Int
      BY <2>1
    <2>5. \A k \in 1 .. Len(queue') : queue'[k] # m
      <3>1. SUFFICES ASSUME NEW k \in 1 .. Len(queue')  PROVE queue'[k] # m
        OBVIOUS
      <3>2. PICK j \in 1 .. Len(queue) : j # i /\ queue'[k] = queue[j]
        BY <2>4, Zenon
      <3>. QED  BY <1>a, <2>a, <3>2, Zenon
    <2>6. \A n \in Msgs : Owned(n)' => n # m /\ Owned(n)
      <3>1. SUFFICES ASSUME NEW n \in Msgs, Owned(n)'  PROVE n # m /\ Owned(n)
        OBVIOUS
      <3>2. CASE \E k \in 1 .. Len(queue') : queue'[k] = n
        BY <2>4, <2>5, <3>2, Zenon
      <3>3. CASE \E w \in Writers : wmsg[w] = n
        BY <1>a, <2>a, <3>3, Zenon
      <3>. QED  BY <2>3, <3>1, <3>2, <3>3
    <2>7. \A k, j \in 1 .. Len(queue') : queue'[k] = queue'[j] => k = j
      <3>1. SUFFICES ASSUME NEW k \in 1 .. Len(queue'), NEW j \in 1 .. Len(queue'), queue'[k] = queue'[j]
                     PROVE  k = j
        OBVIOUS
      <3>2. PICK x \in 1 .. Len(queue) : queue'[k] = queue[x] /\ x = IF k < i THEN k ELSE k + 1
        BY <2>4, Zenon
      <3>3. PICK y \in 1 .. Len(queue) : queue'[j] = queue[y] /\ y = IF j < i THEN j ELSE j + 1
        BY <2>4, Zenon
      <3>4. x = y
        BY <1>a, <3>1, <3>2, <3>3, Zenon
      <3>. QED  BY <2>a, <3>2, <3>3, <3>4
    <2>8. \A k \in 1 .. Len(queue'), w \in Writers : queue'[k] # wmsg'[w]
      BY <2>3, <2>4 DEF Custody
    <2>9. \A n \in Msgs : n # m => completion'[n] = completion[n] /\ spc'[n] = NotifySenders(spc)[n]
      BY <1>0, <2>3, NotifyKeeps
    <2>10. spc'[m] = "cancelled"
      BY <1>0, <2>3, NotifyKeeps
    <2>11. \A n \in Msgs : Owned(n)' => completion'[n] = "pending" /\ spc'[n] \notin Fresh
      BY <2>6, <2>9, NotifyKeeps DEF Custody
    <2>12. \A n \in Msgs : spc'[n] \in Fresh => completion'[n] = "pending"
      BY <2>9, <2>10, NotifyKeeps DEF Custody, Fresh
    <2>. QED  BY <2>3, <2>7, <2>8, <2>11, <2>12 DEF Custody
  <1>4. ASSUME NEW w \in Writers, TakeNext(w)  PROVE Custody'
    <2>1. /\ queue # <<>> /\ queue' = Tail(queue) /\ wmsg' = [wmsg EXCEPT ![w] = Head(queue)]
          /\ UNCHANGED <<completion, spc>>
      BY <1>4 DEF TakeNext, senderVars
    <2>2. /\ Len(queue') = Len(queue) - 1 /\ 1 \in 1 .. Len(queue)
          /\ \A k \in 1 .. Len(queue') : k + 1 \in 1 .. Len(queue) /\ queue'[k] = queue[k + 1]
          /\ wmsg'[w] = queue[1]
          /\ \A v \in Writers : v # w => wmsg'[v] = wmsg[v]
      BY <1>0, <2>1
    <2>3. wmsg[w] = NoMsg
      BY <1>4 DEF TakeNext, AtTop, Resumes, TypeInv, WriterInv, Busy
    <2>4. \A n \in Msgs : Owned(n)' => Owned(n)
      BY <2>2
    <2>5. \A i, j \in 1 .. Len(queue') : queue'[i] = queue'[j] => i = j
      BY <1>0, <2>2 DEF Custody
    <2>6. \A u, v \in Writers : wmsg'[u] # NoMsg /\ wmsg'[u] = wmsg'[v] => u = v
      BY <2>2 DEF Custody
    <2>7. \A i \in 1 .. Len(queue'), v \in Writers : queue'[i] # wmsg'[v]
      BY <1>0, <2>2 DEF Custody
    <2>. QED  BY <2>1, <2>4, <2>5, <2>6, <2>7 DEF Custody
  <1>5. ASSUME NEW w \in Writers, Releases(w)  PROVE Custody'
    <2>1. /\ queue' = queue /\ wmsg' = [wmsg EXCEPT ![w] = NoMsg] /\ spc' = NotifySenders(spc)
          /\ \A n \in Msgs : n # wmsg[w] => completion'[n] = completion[n]
      BY <1>0, <1>5 DEF Releases, Release
    <2>2. wmsg[w] \in Msgs
      BY <1>0, <1>5 DEF Releases, TypeInv, WriterInv
    <2>3. /\ wmsg'[w] = NoMsg
          /\ \A v \in Writers : v # w => wmsg'[v] = wmsg[v]
      BY <1>0, <2>1
    <2>4. \A n \in Msgs : Owned(n)' => n # wmsg[w] /\ Owned(n)
      <3>1. SUFFICES ASSUME NEW n \in Msgs, Owned(n)'  PROVE n # wmsg[w] /\ Owned(n)
        OBVIOUS
      <3>2. CASE \E i \in 1 .. Len(queue) : queue[i] = n
        BY <1>a, <3>2
      <3>3. CASE \E v \in Writers : wmsg'[v] = n
        BY <1>0, <1>a, <2>2, <2>3, <3>3
      <3>. QED  BY <2>1, <3>1, <3>2, <3>3
    <2>5. spc[wmsg[w]] \notin Fresh
      BY <2>2 DEF Custody
    <2>6. \A n \in Msgs : Owned(n)' => completion'[n] = "pending" /\ spc'[n] \notin Fresh
      BY <2>1, <2>4, NotifyKeeps DEF Custody
    <2>7. \A n \in Msgs : spc'[n] \in Fresh => completion'[n] = "pending"
      BY <2>1, <2>2, <2>5, NotifyKeeps DEF Custody
    <2>8. \A i \in 1 .. Len(queue'), v \in Writers : queue'[i] # wmsg'[v]
      BY <1>0, <1>a, <2>1, <2>3
    <2>. QED  BY <2>1, <2>3, <2>6, <2>7, <2>8 DEF Custody
  <1>6. CASE CloseFailsQueued
    <2>1. /\ queue # <<>> /\ queue' = Tail(queue) /\ UNCHANGED <<wmsg, spc>>
          /\ completion' = [completion EXCEPT ![Head(queue)] = "failed"]
      BY <1>6 DEF CloseFailsQueued, CloseMoves
    <2>2. /\ Len(queue') = Len(queue) - 1 /\ 1 \in 1 .. Len(queue) /\ Head(queue) = queue[1]
          /\ \A k \in 1 .. Len(queue') : k + 1 \in 1 .. Len(queue) /\ queue'[k] = queue[k + 1]
      BY <1>0, <2>1
    <2>3. \A n \in Msgs : n # queue[1] => completion'[n] = completion[n]
      BY <1>0, <2>1, <2>2
    <2>4. \A n \in Msgs : Owned(n)' => n # queue[1] /\ Owned(n)
      BY <1>0, <2>1, <2>2 DEF Custody
    <2>5. \A i, j \in 1 .. Len(queue') : queue'[i] = queue'[j] => i = j
      <3>1. SUFFICES ASSUME NEW i \in 1 .. Len(queue'), NEW j \in 1 .. Len(queue'), queue'[i] = queue'[j]
                     PROVE  i = j
        OBVIOUS
      <3>2. /\ i + 1 \in 1 .. Len(queue) /\ queue'[i] = queue[i + 1]
            /\ j + 1 \in 1 .. Len(queue) /\ queue'[j] = queue[j + 1]
        BY <2>2, Zenon
      <3>3. \A x, y \in 1 .. Len(queue) : queue[x] = queue[y] => x = y
        BY <1>a, Zenon
      <3>4. queue[i + 1] = queue[j + 1]
        BY <3>1, <3>2, Zenon
      <3>5. i + 1 = j + 1
        BY <3>2, <3>3, <3>4, Zenon
      <3>6. i \in Int /\ j \in Int
        BY <1>0, <2>2
      <3>. QED  BY <3>5, <3>6
    <2>6. \A i \in 1 .. Len(queue'), v \in Writers : queue'[i] # wmsg'[v]
      BY <1>0, <2>1, <2>2 DEF Custody
    <2>7. spc[queue[1]] \notin Fresh
      BY <1>0, <2>2 DEF Custody
    <2>8. \A n \in Msgs : spc'[n] \in Fresh => completion'[n] = "pending"
      BY <2>1, <2>3, <2>7 DEF Custody
    <2>. QED  BY <2>1, <2>3, <2>4, <2>5, <2>6, <2>8 DEF Custody
  <1>. QED  BY <1>1, <1>2, <1>3, <1>4, <1>5, <1>6, CustodySteps

\* Custody holds in every reachable state.
LEMMA CustodyKept == Spec => []Custody
  <1>1. Init => Custody
    <2>1. SUFFICES ASSUME Init  PROVE Custody
      OBVIOUS
    <2>2. queue = <<>> /\ 1 .. Len(queue) = {} /\ wmsg = [w \in Writers |-> NoMsg]
      BY <2>1 DEF Init
    <2>3. \A m \in Msgs : ~Owned(m)
      BY <2>2, PeerWriterAssumption DEF Owned, Queued, Active
    <2>4. \A m \in Msgs : completion[m] = "pending"
      BY <2>1 DEF Init
    <2>. QED  BY <2>2, <2>3, <2>4 DEF Custody
  <1>2. TypeInv /\ Custody /\ [Next]_vars => Custody'
    BY CustodyStep
  <1>. QED  BY <1>1, <1>2, TypeInvariance, PTL DEF Spec

\* A message that is queued or held after a step was so before, or was queued by it.
LEMMA OwnedStep ==
  ASSUME TypeInv, Custody, [Next]_vars, NEW m \in Msgs, Owned(m)', ~Owned(m)
  PROVE  Enqueue(m)
  <1>. USE DEF Owned, Queued, Active
  <1>0. queue \in Seq(Msgs) /\ Len(queue) \in Nat /\ wmsg \in [Writers -> Msgs \cup {NoMsg}] /\ NoMsg \notin Msgs
    BY PeerWriterAssumption DEF TypeInv, TypeOK
  <1>1. CASE Moves
    BY <1>1 DEF Moves
  <1>2. ASSUME NEW n \in Msgs, Enqueue(n)  PROVE m = n
    <2>1. queue' = Append(queue, n) /\ wmsg' = wmsg
      BY <1>2 DEF Enqueue
    <2>2. \A i \in 1 .. Len(queue') : queue'[i] = n \/ (i \in 1 .. Len(queue) /\ queue'[i] = queue[i])
      BY <1>0, <2>1
    <2>. QED  BY <2>1, <2>2
  <1>3. ASSUME NEW n \in Msgs, CancelQueued(n)  PROVE FALSE
    <2>1. PICK i \in 1 .. Len(queue) :
             /\ queue[i] = n /\ Len(queue') = Len(queue) - 1
             /\ \A k \in 1 .. Len(queue') : queue'[k] = IF k < i THEN queue[k] ELSE queue[k + 1]
      BY <1>3, TakenBack
    <2>2. /\ Len(queue') = Len(queue) - 1
          /\ \A k \in 1 .. Len(queue') : queue'[k] = IF k < i THEN queue[k] ELSE queue[k + 1]
      BY <2>1
    <2>3. ASSUME NEW k \in 1 .. Len(queue')  PROVE \E j \in 1 .. Len(queue) : queue'[k] = queue[j]
      <3>1. CASE k < i
        BY <1>0, <2>2, <3>1
      <3>2. CASE ~(k < i)
        BY <1>0, <2>2, <3>2
      <3>. QED  BY <3>1, <3>2
    <2>4. wmsg' = wmsg
      BY <1>3 DEF CancelQueued
    <2>. QED  BY <2>3, <2>4
  <1>4. ASSUME NEW w \in Writers, TakeNext(w)  PROVE FALSE
    BY <1>0, <1>4 DEF TakeNext
  <1>5. ASSUME NEW w \in Writers, Releases(w)  PROVE FALSE
    BY <1>0, <1>5 DEF Releases, Release
  <1>6. CASE CloseFailsQueued
    BY <1>0, <1>6 DEF CloseFailsQueued, CloseMoves
  <1>. QED  BY <1>1, <1>2, <1>3, <1>4, <1>5, <1>6, CustodySteps

\* A send() waits for its message as long as somebody has it, unless it is
\* cancelled a second time.
LEMMA AttendedStep ==
  ASSUME TypeInv, CancellableTwice = {}, Custody, Attended, [Next]_vars
  PROVE  Attended'
  <1>. SUFFICES ASSUME NEW m \in Msgs, Owned(m)'
                PROVE  spc'[m] \in Waiting
    BY DEF Attended
  <1>0. spc \in [Msgs -> SenderStates] /\ wmsg \in [Writers -> Msgs \cup {NoMsg}]
    BY DEF TypeInv, TypeOK
  <1>1. CASE ~Owned(m)
    BY <1>0, <1>1, OwnedStep, NotifyKeeps DEF Enqueue, Waiting
  <1>2. CASE Owned(m)
    <2>0. spc[m] \in Waiting /\ completion[m] = "pending"
      BY <1>2 DEF Attended, Custody
    <2>1. CASE Moves /\ Attends
      BY <1>2, <2>0, <2>1 DEF Attends
    <2>2. ASSUME NEW n \in Msgs, Enqueue(n)  PROVE spc'[m] \in Waiting
      BY <2>0, <2>2, NotifyKeeps DEF Enqueue, Waiting
    <2>3. ASSUME NEW n \in Msgs, CancelQueued(n)  PROVE spc'[m] \in Waiting
      <3>1. completion'[m] = "pending"
        BY CustodyStep DEF Custody
      <3>2. completion' = [completion EXCEPT ![n] = "cancelled"] /\ spc' = [NotifySenders(spc) EXCEPT ![n] = "cancelled"]
        BY <2>3 DEF CancelQueued
      <3>3. completion \in [Msgs -> Outcomes]
        BY DEF TypeInv, TypeOK
      <3>4. m # n
        BY <3>1, <3>2, <3>3
      <3>. QED  BY <2>0, <3>2, <3>4, NotifyKeeps
    <2>4. ASSUME NEW w \in Writers, TakeNext(w)  PROVE spc'[m] \in Waiting
      BY <2>0, <2>4 DEF TakeNext, senderVars
    <2>5. ASSUME NEW w \in Writers, Releases(w)  PROVE spc'[m] \in Waiting
      BY <2>0, <2>5, NotifyKeeps DEF Releases, Release
    <2>6. CASE CloseFailsQueued
      BY <2>0, <2>6 DEF CloseFailsQueued, CloseMoves
    <2>. QED  BY <2>1, <2>2, <2>3, <2>4, <2>5, <2>6, CustodySteps
  <1>. QED  BY <1>1, <1>2

LEMMA AttendedKept ==
  ASSUME CancellableTwice = {}
  PROVE  Spec => []Attended
  <1>1. Init => Attended
    BY PeerWriterAssumption DEF Init, Attended, Owned, Queued, Active
  <1>2. TypeInv /\ Custody /\ Attended /\ [Next]_vars => Attended'
    BY AttendedStep
  <1>. QED  BY <1>1, <1>2, TypeInvariance, CustodyKept, PTL DEF Spec

\* README: "its peer writer is cancelled before the borrowed Tensor or buffer
\* is released".  However send() ends, its message is then neither queued nor in
\* the hands of a writer task, unless it is cancelled again while it waits.
THEOREM BuffersReleased ==
  ASSUME CancellableTwice = {}
  PROVE  Spec => []BufferReleased
  <1>1. Attended => BufferReleased
    BY DEF Attended, BufferReleased, Owned, Waiting, Ended
  <1>2. Spec => []Attended
    BY AttendedKept
  <1>. QED  BY <1>1, <1>2, PTL

---------------------------------------------------------------------------
(* The bytes of the backlog                                                *)

LEMMA HeldIsOwned == TypeInv => Held = {m \in Msgs : Owned(m)}
  <1>. SUFFICES ASSUME TypeInv
                PROVE  Held = {m \in Msgs : Owned(m)}
    OBVIOUS
  <1>1. /\ \A i \in 1 .. Len(queue) : queue[i] \in Msgs
        /\ \A w \in Writers : wmsg[w] \in Msgs \cup {NoMsg}
        /\ NoMsg \notin Msgs
    BY PeerWriterAssumption DEF TypeInv, TypeOK
  <1>2. ASSUME NEW m  PROVE m \in Held <=> m \in Msgs /\ Owned(m)
    BY <1>1 DEF Held, Holders, Owned, Queued, Active
  <1>. QED  BY <1>2

LEMMA HeldAfter ==
  ASSUME TypeInv'
  PROVE  Held' = {m \in Msgs : Owned(m)'}
  <1>1. (TypeInv => Held = {m \in Msgs : Owned(m)})'
    BY HeldIsOwned, PTL
  <1>. QED  BY <1>1

\* One message more is so many bytes more.
LEMMA BytesAdded ==
  ASSUME NEW S \in SUBSET Msgs, NEW m \in Msgs \ S, IsFiniteSet(BytesOf(S))
  PROVE  /\ IsFiniteSet(BytesOf(S \cup {m}))
         /\ Cardinality(BytesOf(S \cup {m})) = Cardinality(BytesOf(S)) + Size[m]
  <1>. DEFINE B == {m} \X (1 .. Size[m])
  <1>0. Size[m] \in Nat /\ Cardinality(BytesOf(S)) \in Nat
    BY FS_CardinalityType, PeerWriterAssumption
  <1>1. IsFiniteSet({m}) /\ Cardinality({m}) = 1
    BY FS_Singleton
  <1>2. IsFiniteSet(1 .. Size[m]) /\ Cardinality(1 .. Size[m]) = Size[m]
    <2>1. \A k \in Int : IsFiniteSet(1 .. k) /\ Cardinality(1 .. k) = IF 1 > k THEN 0 ELSE k - 1 + 1
      BY FS_Interval
    <2>. QED  BY <1>0, <2>1, PeerWriterAssumption
  <1>3. IsFiniteSet(B) /\ Cardinality(B) = Size[m]
    <2>1. IsFiniteSet(B) /\ Cardinality(B) = 1 * Size[m]
      BY <1>1, <1>2, FS_Product
    <2>. QED  BY <1>0, <2>1
  <1>4. BytesOf(S \cup {m}) = BytesOf(S) \cup B /\ BytesOf(S) \cap B = {}
    BY DEF BytesOf
  <1>5. IsFiniteSet({}) /\ Cardinality({}) = 0
    BY FS_EmptySet
  <1>. HIDE DEF B
  <1>6. /\ IsFiniteSet(BytesOf(S) \cup B)
        /\ Cardinality(BytesOf(S) \cup B) = Cardinality(BytesOf(S)) + Cardinality(B) - Cardinality(BytesOf(S) \cap B)
    BY <1>3, FS_Union
  <1>7. Cardinality(BytesOf(S) \cap B) = 0
    BY <1>4, <1>5
  <1>8. /\ IsFiniteSet(BytesOf(S \cup {m}))
        /\ Cardinality(BytesOf(S \cup {m})) =
               Cardinality(BytesOf(S)) + Cardinality(B) - Cardinality(BytesOf(S) \cap B)
    BY <1>4, <1>6, Zenon
  <1>. QED  BY <1>0, <1>3, <1>7, <1>8

\* The counters when message m joins the backlog.
Counts(m) == pendingMessages' = pendingMessages + 1 /\ pendingBytes' = pendingBytes + Size[m]

\* A step adds a message to the backlog, takes one from it, or changes neither
\* the backlog nor the counters.
LEMMA BacklogSteps ==
  ASSUME TypeInv, Custody, [Next]_vars
  PROVE  \/ Held' = Held /\ UNCHANGED <<pendingMessages, pendingBytes>>
         \/ \E m \in Msgs \ Held : Held' = Held \cup {m} /\ Counts(m)
         \/ \E m \in Held : Held' = Held \ {m} /\ Uncount(m)
  <1>. DEFINE Goal == \/ Held' = Held /\ UNCHANGED <<pendingMessages, pendingBytes>>
                      \/ \E m \in Msgs \ Held : Held' = Held \cup {m} /\ Counts(m)
                      \/ \E m \in Held : Held' = Held \ {m} /\ Uncount(m)
  <1>0. TypeInv' /\ Custody'
    BY TypeStep, CustodyStep
  <1>1. Held = {m \in Msgs : Owned(m)} /\ Held' = {m \in Msgs : Owned(m)'}
    BY <1>0, HeldIsOwned, HeldAfter
  <1>2. CASE UNCHANGED <<queue, pendingMessages, pendingBytes, wmsg>>
    BY <1>2 DEF Held, Holders
  <1>3. ASSUME NEW m \in Msgs, spc[m] \in Fresh, Enqueue(m)  PROVE Goal
    <2>1. ~Owned(m)
      BY <1>3 DEF Custody
    <2>2. queue' = Append(queue, m) /\ wmsg' = wmsg /\ Counts(m)
      BY <1>3 DEF Enqueue, Counts
    <2>3. queue \in Seq(Msgs)
      BY DEF TypeInv, TypeOK
    <2>4. \A n \in Msgs : Owned(n)' <=> Owned(n) \/ n = m
      BY <2>2, <2>3 DEF Owned, Queued, Active
    <2>. QED  BY <1>1, <2>1, <2>2, <2>4
  <1>4. ASSUME NEW m \in Msgs, Owned(m), ~Owned(m)', Uncount(m),
               \A n \in Msgs : n # m => (Owned(n)' <=> Owned(n))
        PROVE  Goal
    BY <1>1, <1>4
  <1>a. /\ queue \in Seq(Msgs) /\ Len(queue) \in Nat
        /\ wmsg \in [Writers -> Msgs \cup {NoMsg}] /\ NoMsg \notin Msgs
        /\ completion \in [Msgs -> Outcomes] /\ pendingMessages \in Int
    BY PeerWriterAssumption DEF TypeInv, TypeOK
  <1>5. ASSUME NEW m \in Msgs, CancelQueued(m)  PROVE Goal
    <2>1. PICK i \in 1 .. Len(queue) :
             /\ queue[i] = m /\ Len(queue') = Len(queue) - 1
             /\ \A k \in 1 .. Len(queue') : queue'[k] = IF k < i THEN queue[k] ELSE queue[k + 1]
      BY <1>5, TakenBack
    <2>2. wmsg' = wmsg /\ completion'[m] = "cancelled" /\ Uncount(m)
      BY <1>5, <1>a DEF CancelQueued
    <2>3. Owned(m) /\ ~Owned(m)'
      BY <1>0, <2>1, <2>2 DEF Custody, Owned, Queued
    <2>4. ASSUME NEW n \in Msgs, n # m, Queued(n)  PROVE Queued(n)'
      <3>1. PICK j \in 1 .. Len(queue) : queue[j] = n
        BY <2>4 DEF Queued
      <3>2. CASE j < i
        BY <1>a, <2>1, <3>1, <3>2 DEF Queued
      <3>3. CASE j > i
        <4>1. j - 1 \in 1 .. Len(queue') /\ ~(j - 1 < i) /\ (j - 1) + 1 = j
          BY <1>a, <2>1, <3>3
        <4>. QED  BY <2>1, <3>1, <4>1 DEF Queued
      <3>. QED  BY <2>1, <2>4, <3>1, <3>2, <3>3
    <2>5. \A n \in Msgs : n # m => (Owned(n)' <=> Owned(n))
      <3>1. ASSUME NEW n \in Msgs, n # m, Owned(n)', ~Owned(n)  PROVE FALSE
        <4>1. Enqueue(n)
          BY <3>1, OwnedStep
        <4>2. pendingMessages' = pendingMessages + 1
          BY <4>1 DEF Enqueue
        <4>3. pendingMessages' = pendingMessages - 1
          BY <1>5 DEF CancelQueued, Uncount
        <4>. QED  BY <1>a, <4>2, <4>3
      <3>. QED  BY <2>2, <2>4, <3>1 DEF Owned, Active
    <2>. QED  BY <1>4, <2>2, <2>3, <2>5
  <1>6. ASSUME NEW w \in Writers, TakeNext(w)  PROVE Goal
    <2>1. /\ queue # <<>> /\ queue' = Tail(queue) /\ wmsg' = [wmsg EXCEPT ![w] = Head(queue)]
          /\ UNCHANGED <<pendingMessages, pendingBytes>>
      BY <1>6 DEF TakeNext
    <2>2. wmsg[w] = NoMsg
      BY <1>6 DEF TakeNext, AtTop, Resumes, TypeInv, WriterInv, Busy
    <2>3. \A n \in Msgs : Owned(n) => Owned(n)'
      <3>1. ASSUME NEW n \in Msgs, Queued(n)  PROVE Owned(n)'
        <4>1. PICK j \in 1 .. Len(queue) : queue[j] = n
          BY <3>1 DEF Queued
        <4>2. CASE j = 1
          BY <1>a, <2>1, <4>1, <4>2 DEF Owned, Active
        <4>3. CASE j # 1
          <5>1. j - 1 \in 1 .. Len(queue') /\ queue'[j - 1] = queue[j]
            BY <1>a, <2>1, <4>3
          <5>. QED  BY <4>1, <5>1 DEF Owned, Queued
        <4>. QED  BY <4>2, <4>3
      <3>2. ASSUME NEW n \in Msgs, Active(n)  PROVE Active(n)'
        BY <1>a, <2>1, <2>2, <3>2 DEF Active
      <3>. QED  BY <3>1, <3>2 DEF Owned
    <2>4. \A n \in Msgs : Owned(n)' => Owned(n)
      BY <1>6, OwnedStep DEF TakeNext, Enqueue, senderVars
    <2>. QED  BY <1>1, <2>1, <2>3, <2>4
  <1>7. ASSUME NEW w \in Writers, Releases(w)  PROVE Goal
    <2>0. PICK m \in Msgs : m = wmsg[w]
      BY <1>7, <1>a DEF Releases, TypeInv, WriterInv
    <2>1. /\ queue' = queue /\ wmsg' = [wmsg EXCEPT ![w] = NoMsg]
          /\ Uncount(m)
      BY <1>7, <2>0, <1>a DEF Releases, Release, TypeInv, WriterInv
    <2>2. Owned(m) /\ ~Owned(m)'
      BY <1>a, <2>0, <2>1 DEF Custody, Owned, Queued, Active
    <2>3. \A n \in Msgs : n # m => (Owned(n)' <=> Owned(n))
      BY <1>a, <2>0, <2>1 DEF Owned, Queued, Active
    <2>. QED  BY <1>4, <2>1, <2>2, <2>3
  <1>8. CASE CloseFailsQueued
    <2>0. PICK m \in Msgs : m = Head(queue) /\ m = queue[1] /\ 1 \in 1 .. Len(queue)
      BY <1>8, <1>a DEF CloseFailsQueued
    <2>1. /\ queue # <<>> /\ queue' = Tail(queue) /\ wmsg' = wmsg
          /\ Uncount(m) /\ completion'[m] = "failed"
      BY <1>8, <1>a, <2>0 DEF CloseFailsQueued, CloseMoves
    <2>2. Owned(m) /\ ~Owned(m)'
      BY <1>0, <1>a, <2>0, <2>1 DEF Custody, Owned, Queued
    <2>3. ASSUME NEW n \in Msgs, n # m, Queued(n)  PROVE Queued(n)'
      <3>1. PICK j \in 1 .. Len(queue) : queue[j] = n /\ j # 1
        BY <1>a, <2>0, <2>3 DEF Queued
      <3>2. j - 1 \in 1 .. Len(queue') /\ queue'[j - 1] = queue[j]
        BY <1>a, <2>1, <3>1
      <3>. QED  BY <3>1, <3>2 DEF Queued
    <2>4. \A n \in Msgs : n # m => (Owned(n)' <=> Owned(n))
      <3>1. ASSUME NEW n \in Msgs, Owned(n)', ~Owned(n)  PROVE FALSE
        BY <1>a, <1>8, <3>1, OwnedStep DEF CloseFailsQueued, Enqueue, Uncount
      <3>. QED  BY <2>1, <2>3, <3>1 DEF Owned, Active
    <2>. QED  BY <1>4, <2>1, <2>2, <2>4
  <1>. QED  BY <1>2, <1>3, <1>5, <1>6, <1>7, <1>8, QueueSteps DEF Fresh

\* The counters are the number of messages and of bytes in the backlog.
BacklogInv ==
    /\ IsFiniteSet(Held) /\ IsFiniteSet(BytesOf(Held))
    /\ pendingMessages = Cardinality(Held)
    /\ pendingBytes = Cardinality(BytesOf(Held))

LEMMA BacklogStep ==
  ASSUME TypeInv, Custody, BacklogInv, [Next]_vars
  PROVE  BacklogInv'
  <1>0. Held \subseteq Msgs /\ pendingBytes \in Int /\ pendingMessages \in Int
    BY HeldIsOwned DEF TypeInv, TypeOK
  <1>1. CASE Held' = Held /\ UNCHANGED <<pendingMessages, pendingBytes>>
    BY <1>1 DEF BacklogInv
  <1>2. ASSUME NEW m \in Msgs \ Held, Held' = Held \cup {m}, Counts(m)
        PROVE  BacklogInv'
    <2>1. /\ IsFiniteSet(BytesOf(Held \cup {m}))
          /\ Cardinality(BytesOf(Held \cup {m})) = Cardinality(BytesOf(Held)) + Size[m]
      BY <1>0, <1>2, BytesAdded DEF BacklogInv
    <2>2. IsFiniteSet(Held \cup {m}) /\ Cardinality(Held \cup {m}) = Cardinality(Held) + 1
      BY <1>2, FS_AddElement DEF BacklogInv
    <2>. QED  BY <1>2, <2>1, <2>2 DEF BacklogInv, Counts
  <1>3. ASSUME NEW m \in Held, Held' = Held \ {m}, Uncount(m)
        PROVE  BacklogInv'
    <2>. DEFINE S == Held \ {m}
    <2>1. S \subseteq Msgs /\ m \in Msgs \ S /\ S \cup {m} = Held /\ BytesOf(S) \subseteq BytesOf(Held)
      BY <1>0 DEF BytesOf
    <2>2. IsFiniteSet(BytesOf(S))
      BY <2>1, FS_Subset DEF BacklogInv
    <2>3. IsFiniteSet(S) /\ Cardinality(S) = Cardinality(Held) - 1
      BY FS_RemoveElement DEF BacklogInv
    <2>. HIDE DEF S
    <2>4. Cardinality(BytesOf(Held)) = Cardinality(BytesOf(S)) + Size[m] /\ Cardinality(BytesOf(S)) \in Nat
      BY <2>1, <2>2, BytesAdded, FS_CardinalityType, Zenon
    <2>5. pendingBytes' = Cardinality(BytesOf(S)) /\ pendingMessages' = Cardinality(S)
      BY <1>0, <1>3, <2>3, <2>4, PeerWriterAssumption DEF BacklogInv, Uncount
    <2>6. Held' = S
      BY <1>3 DEF S
    <2>. QED  BY <2>2, <2>3, <2>5, <2>6 DEF BacklogInv
  <1>. QED  BY <1>1, <1>2, <1>3, BacklogSteps

LEMMA BacklogKept == Spec => []BacklogInv
  <1>1. Init => BacklogInv
    <2>. SUFFICES ASSUME Init  PROVE BacklogInv
      OBVIOUS
    <2>1. Held = {} /\ BytesOf({}) = {}
      BY DEF Init, Held, Holders, BytesOf
    <2>. QED  BY <2>1, FS_EmptySet DEF Init, BacklogInv
  <1>2. TypeInv /\ Custody /\ BacklogInv /\ [Next]_vars => BacklogInv'
    BY BacklogStep
  <1>. QED  BY <1>1, <1>2, TypeInvariance, CustodyKept, PTL DEF Spec

\* ByteAccounting: pending_bytes is the sum of the sizes of the messages in the queue
\* and in the hands of writers, whatever step moves them and by whatever path one
\* leaves (comm.py:279-280, 365-367, 386-387, 463-464), since no message is in two places.
THEOREM BytesCounted == Spec => []ByteAccounting
  <1>1. BacklogInv => ByteAccounting
    BY DEF BacklogInv, ByteAccounting
  <1>. QED  BY <1>1, BacklogKept, PTL

---------------------------------------------------------------------------
(* The steps of a writer that holds a message                              *)

\* Before it has the write lock of a connection.
Early == {"connect", "connlock", "dial", "lock"}
Ready == {"locked", "grant", "granted"}

\* The writer goes on with its message, and gives nothing to a transport.
Goes(w) ==
    /\ UNCHANGED <<log, written, completion, spc, queue>> /\ wmsg' = wmsg
    /\ \/ wpc[w] \in Early /\ wpc'[w] \in Early
       \/ wpc[w] \in Early /\ wpc'[w] = "locked" /\ wconn'[w] \in Conns
       \/ wpc[w] = "drain" /\ wpc'[w] = "locked" /\ written[wmsg[w]] < Parts /\ wconn'[w] = wconn[w]
       \/ wpc[w] \in Ready /\ wpc'[w] \in {"grant", "granted"} /\ wconn'[w] = wconn[w]
       \/ wpc[w] \in Connected \ {"drop"} /\ wcancel[w] /\ wpc'[w] = "drop" /\ wconn'[w] = wconn[w]

\* The records of the parts of the message of w, up to part last.
PartsOf(w, last) ==
    [i \in 1 .. last - written[wmsg[w]] |->
        [conn |-> wconn[w], msg |-> wmsg[w], part |-> written[wmsg[w]] + i]]

\* The writer gives parts of its message to a transport, which takes or discards them.
Puts(w, last) ==
    /\ wpc[w] \in {"locked", "granted"} /\ wpc'[w] = "drain"
    /\ last = Parts \/ last = written[wmsg[w]] + 1
    /\ cstate[wconn[w]] # "flushed"
    /\ written' = [written EXCEPT ![wmsg[w]] = last]
    /\ log' = IF cstate[wconn[w]] = "lost" THEN log ELSE log \o PartsOf(w, last)
    /\ UNCHANGED <<completion, spc, queue, wmsg, wconn, cstate>>

\* No transport of connection c takes anything more.
Shut(c) == cstate[c] \in {"flushed", "lost"}

\* The byte scheduler is closed, or has a request of this peer already.
Refused(w) == schedClosed \/ \E v \in Writers \ {w} : wpc[v] = "grant"

\* The writer lets its message go: sent, failed, or without an outcome.
LetsGo(w) ==
    /\ wpc[w] \in Busy /\ UNCHANGED <<log, written>>
    /\ \E o \in {"pending", "failed", "sent"}, s \in {"top", "done"} :
        /\ Release(w, o, s)
        /\ o = "sent" => wpc[w] = "drain" /\ cstate[wconn[w]] # "lost" /\ written[wmsg[w]] = Parts
        /\ o # "sent" /\ wpc[w] \in Ready \cup {"drain"} => Shut(wconn[w]) \/ Refused(w)

\* Nothing changes for the writers that hold a message, nor on the wire.
Bystands ==
    /\ UNCHANGED <<log, written, wmsg>>
    /\ \A w \in Writers : wmsg[w] # NoMsg => wpc'[w] = wpc[w] /\ wconn'[w] = wconn[w]

\* The other writers, and their messages, stay as they are.
Alone(w) == \A v \in Writers : v # w =>
    wmsg'[v] = wmsg[v] /\ (wmsg[v] # NoMsg => wpc'[v] = wpc[v] /\ wconn'[v] = wconn[v])

LEMMA WriterSteps ==
  ASSUME TypeInv, NEW w \in Writers, Writer(w)
  PROVE  /\ Alone(w)
         /\ \/ Bystands \/ (TakeNext(w) /\ UNCHANGED <<log, written>>) \/ Goes(w) \/ LetsGo(w)
            \/ \E last \in Nat : Puts(w, last)
  <1>. USE DEF wireVars, connVars, senderVars, queueVars
  <1>0. /\ wpc \in [Writers -> WriterStates] /\ wconn \in [Writers -> Conns \cup {0}]
        /\ wmsg \in [Writers -> Msgs \cup {NoMsg}]
        /\ \A v \in Writers : wmsg[v] # NoMsg <=> wpc[v] \in Busy
    BY DEF TypeInv, TypeOK, WriterInv
  <1>1. ASSUME NEW s, WriterMoves(w, s), \A v \in Writers : v # w => wconn'[v] = wconn[v]
        PROVE  Alone(w) /\ wpc'[w] = s
    BY <1>0, <1>1 DEF WriterMoves, Alone
  <1>2. ASSUME NEW o, NEW s, Release(w, o, s)
        PROVE  Alone(w)
    BY <1>0, <1>2 DEF Release, NotifyWriters, Alone, Busy
  <1>3. CASE FindEmpty(w)
    BY <1>0, <1>1, <1>3 DEF FindEmpty, AtTop, Resumes, Bystands, WriterMoves, Busy
  <1>4. CASE TakeNext(w)
    BY <1>0, <1>4 DEF TakeNext, Alone
  <1>5. CASE UsePreferred(w)
    <2>1. Preferred \in Conns /\ wconn'[w] = Preferred /\ \A v \in Writers : v # w => wconn'[v] = wconn[v]
      BY <1>0, <1>5, PreferredType DEF UsePreferred, TypeInv, TypeOK
    <2>2. PICK s \in {"locked", "lock"} : WriterMoves(w, s)
      BY <1>5 DEF UsePreferred
    <2>. QED  BY <1>1, <1>5, <2>1, <2>2 DEF UsePreferred, Goes, WriterMoves, Early
  <1>6. CASE NeedDial(w) \/ ConnectLock(w)
    BY <1>0, <1>1, <1>6 DEF NeedDial, ConnectLock, Resumes, Goes, WriterMoves, Early
  <1>7. CASE DialOk(w)
    <2>1. wconn'[w] \in Conns /\ \A v \in Writers : v # w => wconn'[v] = wconn[v]
      BY <1>0, <1>7 DEF DialOk
    <2>. QED  BY <1>1, <1>7, <2>1 DEF DialOk, Resumes, Goes, WriterMoves, Early
  <1>8. CASE WriteLock(w) \/ Acquire(w) \/ Grant(w) \/ DrainedPart(w)
    <2>1. wpc[w] = "lock" => wconn[w] \in Conns
      BY DEF TypeInv, WriterInv, Connected
    <2>. QED  BY <1>0, <1>1, <1>8, <2>1 DEF WriteLock, Acquire, Grant, DrainedPart, Resumes, Goes, WriterMoves, Early, Ready
  <1>9. ASSUME NEW o \in {"pending", "failed"}, NEW s \in {"top", "done"}, Release(w, o, s), wpc[w] \in Busy,
               UNCHANGED <<log, written>>, wpc[w] \in Ready \cup {"drain"} => Shut(wconn[w]) \/ Refused(w)
        PROVE  LetsGo(w)
    BY <1>9 DEF LetsGo
  <1>10. CASE DialFails(w) \/ AcquireRaises(w) \/ AcquireRefused(w) \/ DrainFails(w)
              \/ CancelledAtOnce(w) \/ Dropped(w) \/ CancelledInDrop(w)
    BY <1>2, <1>9, <1>10 DEF DialFails, AcquireRaises, AcquireRefused, DrainFails,
       CancelledAtOnce, Dropped, CancelledInDrop, Resumes, Busy, Ready, Shut, Refused
  <1>11. CASE DrainedFrame(w)
    BY <1>2, <1>11 DEF DrainedFrame, Resumes, LetsGo, Busy
  <1>12. ASSUME NEW last \in Nat, WritePart(w, last), wpc[w] \in {"locked", "granted"},
                last = Parts \/ last = written[wmsg[w]] + 1
         PROVE  Alone(w) /\ (LetsGo(w) \/ Puts(w, last))
    <2>1. CASE cstate[wconn[w]] # "flushed"
      BY <1>0, <1>1, <1>12, <2>1 DEF WritePart, Puts, PartsOf, WriterMoves
    <2>2. CASE cstate[wconn[w]] = "flushed"
      BY <1>2, <1>9, <1>12, <2>2 DEF WritePart, Busy, Shut
    <2>. QED  BY <2>1, <2>2
  <1>13. CASE WriteFrame(w) \/ WriteGranted(w)
    <2>1. Parts \in Nat /\ (wpc[w] = "granted" => written[wmsg[w]] + 1 \in Nat)
      BY PeerWriterAssumption DEF TypeInv, TypeOK, WriterInv, Busy
    <2>. QED  BY <1>12, <1>13, <2>1 DEF WriteFrame, WriteGranted, Resumes
  <1>14. CASE CancelledIdle(w)
    BY <1>0, <1>14 DEF CancelledIdle, Alone, Bystands, Busy
  <1>15. CASE CancelledOnConnection(w)
    BY <1>0, <1>15 DEF CancelledOnConnection, Alone, Goes, Connected
  <1>. QED
    BY <1>3, <1>4, <1>5, <1>6, <1>7, <1>8, <1>10, <1>11, <1>13, <1>14, <1>15 DEF Writer

\* A writer moves, or nothing changes for those that hold a message.
LEMMA WireSteps ==
  ASSUME TypeInv, [Next]_vars
  PROVE  \/ Bystands
         \/ \E w \in Writers : Alone(w) /\ (\/ TakeNext(w) /\ UNCHANGED <<log, written>>
                                         \/ Goes(w) \/ LetsGo(w) \/ (\E last \in Nat : Puts(w, last)))
  <1>. USE DEF wireVars, writerVars
  <1>0. /\ wpc \in [Writers -> WriterStates]
        /\ \A v \in Writers : wmsg[v] # NoMsg <=> wpc[v] \in Busy
        /\ spawned + 1 \in Writers => wpc[spawned + 1] = "none"
    BY DEF TypeInv, TypeOK, WriterInv, Writers
  <1>1. ASSUME NEW pc \in [Writers -> WriterStates], SpawnWriter(pc), UNCHANGED <<log, written, wmsg, wconn>>,
               \A w \in Writers : wpc[w] \in Busy => pc[w] = wpc[w]
        PROVE  Bystands
    BY <1>0, <1>1 DEF SpawnWriter, Bystands, Busy, TypeInv, TypeOK
  <1>2. /\ NotifyWriters(wpc) \in [Writers -> WriterStates]
        /\ \A w \in Writers : wpc[w] \in Busy => NotifyWriters(wpc)[w] = wpc[w]
    BY <1>0 DEF NotifyWriters, WriterStates, Busy
  <1>3. ASSUME NEW m \in Msgs, Sender(m)
        PROVE  Bystands
    <2>1. ASSUME Enqueue(m)  PROVE Bystands
      BY <1>0, <1>1, <1>2, <2>1 DEF Enqueue, Bystands
    <2>2. ASSUME Restart(m)  PROVE Bystands
      BY <1>0, <1>1, <2>2 DEF Restart, Bystands
    <2>3. ASSUME UNCHANGED <<wpc, wmsg, wconn, log, written>>  PROVE Bystands
      BY <2>3 DEF Bystands
    <2>4. CASE CancelQueued(m)
      BY <1>0, <1>2, <2>4 DEF CancelQueued, Bystands
    <2>5. CASE \/ SendRefused(m) \/ SendWaits(m) \/ CapacityClosed(m) \/ CapacityStillFull(m)
               \/ CapacityCancelled(m) \/ SendReturns(m) \/ CancelActive(m) \/ CancelFinished(m)
               \/ CancelAgain(m) \/ RegatherDone(m) \/ SettleCancelled(m)
      BY <2>3, <2>5 DEF SendRefused, SendWaits, CapacityClosed, CapacityStillFull, CapacityCancelled,
         SendReturns, CancelActive, CancelFinished, CancelAgain, RegatherDone, SettleCancelled, SenderMoves
    <2>6. CASE GatherDone(m) \/ SettleDone(m)
      BY <2>2, <2>3, <2>6 DEF GatherDone, SettleDone, SenderMoves
    <2>. QED
      BY <1>3, <2>1, <2>4, <2>5, <2>6 DEF Sender, SendAccepted, CapacityFound
  <1>4. ASSUME NEW c \in Conns, Connection(c)  PROVE Bystands
    BY <1>4 DEF Connection, PeerConnects, ConnectionLost, ReaderDrops, FlushDone, ConnMoves, Bystands
  <1>5. ASSUME Close  PROVE Bystands
    BY <1>0, <1>2, <1>5 DEF Close, CloseStart, CloseFailsQueued, CloseCancelsWriter, CloseScheduler, CloseConnections,
       CloseReturns, CloseMoves, Bystands
  <1>6. CASE UNCHANGED vars
    BY <1>6 DEF vars, Bystands
  <1>. QED  BY <1>3, <1>4, <1>5, <1>6, WriterSteps DEF Next

\* A transport that is lost stays lost, and one that has flushed its buffer stays so.
LEMMA ShutStays ==
  ASSUME TypeInv, [Next]_vars, NEW c \in Conns, NEW s \in {"flushed", "lost"}, cstate[c] = s
  PROVE  cstate'[c] = s
  <1>. USE DEF connVars, TypeInv, TypeOK
  <1>1. ASSUME NEW w \in Writers, Writer(w)  PROVE cstate'[c] = s
    <2>1. CASE DialOk(w)
      BY <2>1 DEF DialOk
    <2>2. CASE CancelledOnConnection(w)
      BY <2>2 DEF CancelledOnConnection
    <2>3. CASE ~DialOk(w) /\ ~CancelledOnConnection(w)
      BY <1>1, <2>3 DEF Writer, FindEmpty, TakeNext, UsePreferred, NeedDial, ConnectLock, DialFails, WriteLock, WriteFrame,
         Acquire, AcquireRaises, AcquireRefused, Grant, WriteGranted, DrainedPart, DrainedFrame, DrainFails, CancelledIdle,
         CancelledAtOnce, Dropped, CancelledInDrop, WritePart
    <2>. QED  BY <2>1, <2>2, <2>3
  <1>2. ASSUME NEW m \in Msgs, Sender(m)  PROVE cstate'[c] = s
    BY <1>2 DEF Sender, SendRefused, SendWaits, SendAccepted, CapacityClosed, CapacityStillFull,
       CapacityFound, CapacityCancelled, SendReturns, CancelActive, CancelFinished, CancelAgain, CancelQueued,
       GatherDone, RegatherDone, SettleDone, SettleCancelled, SenderMoves, Restart, Enqueue
  <1>3. ASSUME NEW d \in Conns, Connection(d)  PROVE cstate'[c] = s
    BY <1>3 DEF Connection, PeerConnects, ConnectionLost, ReaderDrops, FlushDone, ConnMoves, AfterClose
  <1>4. ASSUME Close  PROVE cstate'[c] = s
    <2>1. CASE CloseConnections
      BY <2>1 DEF CloseConnections, AfterClose
    <2>. QED  BY <1>4, <2>1 DEF Close, CloseStart, CloseFailsQueued, CloseCancelsWriter, CloseScheduler, CloseReturns, CloseMoves
  <1>5. CASE UNCHANGED vars
    BY <1>5 DEF vars
  <1>. QED  BY <1>1, <1>2, <1>3, <1>4, <1>5 DEF Next

---------------------------------------------------------------------------
(* What is on the wire of one message                                      *)

OnWire(m) == {i \in 1 .. Len(log) : log[i].msg = m}

Unwritten(m) == written[m] = 0 /\ OnWire(m) = {}

\* All parts of m are on connection c, and none is missing unless c was lost.
Whole(m, c) ==
    /\ \A i \in OnWire(m) : log[i].conn = c
    /\ cstate[c] # "lost" => {log[i].part : i \in OnWire(m)} = 1 .. written[m]

\* The whole frame of m is on one connection.
Complete(m) ==
    /\ written[m] = Parts
    /\ {log[i].part : i \in OnWire(m)} = 1 .. Parts
    /\ \A i, j \in OnWire(m) : log[i].conn = log[j].conn

\* A message has left nothing on the wire before a writer has the write lock for it,
\* nor when it was taken back from the queue; its writer has put all of it on one connection.
WireInv ==
    /\ \A m \in Msgs : spc[m] \in Fresh \/ Queued(m) \/ completion[m] = "cancelled" => Unwritten(m)
    /\ \A m \in Msgs : completion[m] = "sent" => Complete(m)
    /\ \A w \in Writers : wmsg[w] # NoMsg =>
        /\ wpc[w] \in Early => Unwritten(wmsg[w])
        /\ wpc[w] \in Ready => written[wmsg[w]] < Parts /\ Whole(wmsg[w], wconn[w])
        /\ wpc[w] = "drain" => written[wmsg[w]] <= Parts /\ Whole(wmsg[w], wconn[w])

\* The parts of m up to the given one are added to the log, unless c was lost.
Appended(m, c, last) ==
    /\ written' = [written EXCEPT ![m] = last] /\ written[m] \in Nat
    /\ Len(log) \in Nat /\ Len(log') \in Nat
    /\ \A i \in 1 .. Len(log) : i \in 1 .. Len(log') /\ log'[i] = log[i]
    /\ cstate[c] # "lost" => Len(log') = Len(log) + (last - written[m])
    /\ cstate[c] = "lost" => log' = log
    /\ \A i \in Len(log) + 1 .. Len(log') :
           log'[i].conn = c /\ log'[i].msg = m /\ log'[i].part = written[m] + (i - Len(log))

\* What a step that writes adds to the log.
LEMMA PutsLog ==
  ASSUME TypeInv, NEW w \in Writers, NEW last \in Nat, Puts(w, last), NEW m \in Msgs, m = wmsg[w],
         NEW c \in Conns, c = wconn[w], written[m] < last
  PROVE  Appended(m, c, last)
  <1>. DEFINE k == last - written[m]
              Part == [conn : Conns, msg : Msgs, part : Nat]
              parts == [i \in 1 .. k |-> [conn |-> c, msg |-> m, part |-> written[m] + i]]
  <1>1. written[m] \in Nat /\ log \in Seq(Part) /\ k \in Nat
    BY DEF TypeInv, TypeOK
  <1>2. parts \in [1 .. k -> Part]
    BY <1>1
  <1>3. parts \in Seq(Part) /\ Len(parts) = k
    <2>1. parts \in Seq(Part)
      BY <1>1, <1>2, FunctionIsSeq
    <2>. QED  BY <1>1, <1>2, <2>1, LenProperties
  <1>4. written' = [written EXCEPT ![m] = last] /\ log' = IF cstate[c] = "lost" THEN log ELSE log \o parts
    BY DEF Puts, PartsOf
  <1>5. \A i \in 1 .. k : parts[i].conn = c /\ parts[i].msg = m /\ parts[i].part = written[m] + i
    OBVIOUS
  <1>. HIDE DEF parts, k, Part
  <1>6. /\ Len(log \o parts) = Len(log) + k /\ Len(log) \in Nat
        /\ \A i \in 1 .. Len(log) : (log \o parts)[i] = log[i]
        /\ \A i \in Len(log) + 1 .. Len(log) + k : (log \o parts)[i] = parts[i - Len(log)]
    <2>1. \A x, y \in Seq(Part) :
            /\ Len(x \o y) = Len(x) + Len(y)
            /\ \A i \in 1 .. Len(x) + Len(y) : (x \o y)[i] = IF i <= Len(x) THEN x[i] ELSE y[i - Len(x)]
      BY ConcatProperties
    <2>2. Len(log) \in Nat
      BY <1>1
    <2>3. /\ Len(log \o parts) = Len(log) + Len(parts)
          /\ \A i \in 1 .. Len(log) + Len(parts) :
                (log \o parts)[i] = IF i <= Len(log) THEN log[i] ELSE parts[i - Len(log)]
      BY <1>1, <1>3, <2>1, Zenon
    <2>4. ASSUME NEW f, NEW i \in Int, \A j \in 1 .. Len(log) + k : f[j] = IF j <= Len(log) THEN log[j] ELSE parts[j - Len(log)]
          PROVE  /\ i \in 1 .. Len(log) => f[i] = log[i]
                 /\ i \in Len(log) + 1 .. Len(log) + k => f[i] = parts[i - Len(log)]
      BY <1>1, <2>2, <2>4
    <2>. QED  BY <1>3, <2>2, <2>3, <2>4
  <1>7. CASE cstate[c] = "lost"
    BY <1>1, <1>4, <1>6, <1>7 DEF Appended
  <1>8. CASE cstate[c] # "lost"
    <2>1. \A i \in Len(log) + 1 .. Len(log) + k : i - Len(log) \in 1 .. k
      BY <1>1, <1>6
    <2>2. log' = log \o parts
      BY <1>4, <1>8
    <2>3. /\ Len(log') = Len(log) + k /\ Len(log) \in Nat /\ Len(log') \in Nat
          /\ \A i \in 1 .. Len(log) : i \in 1 .. Len(log') /\ log'[i] = log[i]
      BY <1>1, <1>6, <2>2
    <2>4. ASSUME NEW i \in Len(log) + 1 .. Len(log')
          PROVE  log'[i].conn = c /\ log'[i].msg = m /\ log'[i].part = written[m] + (i - Len(log))
      <3>1. i \in Len(log) + 1 .. Len(log) + k
        BY <2>3
      <3>2. log'[i] = parts[i - Len(log)]
        BY <1>6, <2>2, <3>1
      <3>. QED  BY <1>5, <2>1, <3>1, <3>2
    <2>5. k = last - written[m]
      BY DEF k
    <2>. QED  BY <1>1, <1>4, <1>8, <2>3, <2>4, <2>5 DEF Appended
  <1>. QED  BY <1>7, <1>8

\* Only the writer of a message changes what is on the wire of it.
LEMMA ElseSame ==
  ASSUME TypeInv, WireInv, [Next]_vars, NEW n \in Msgs,
         \A w \in Writers, last \in Nat : Puts(w, last) => wmsg[w] # n
  PROVE  /\ written'[n] = written[n] /\ OnWire(n)' = OnWire(n)
         /\ \A i \in OnWire(n) : log'[i] = log[i]
  <1>1. CASE UNCHANGED <<log, written>>
    BY <1>1 DEF OnWire
  <1>2. ASSUME NEW w \in Writers, NEW last \in Nat, Puts(w, last)
        PROVE  /\ written'[n] = written[n] /\ OnWire(n)' = OnWire(n)
               /\ \A i \in OnWire(n) : log'[i] = log[i]
    <2>1. PICK m \in Msgs, c \in Conns : m = wmsg[w] /\ c = wconn[w]
      BY <1>2 DEF Puts, TypeInv, TypeOK, WriterInv, Busy, Connected
    <2>2. written[m] < last /\ m # n
      <3>1. m # NoMsg /\ written[m] \in Nat /\ m # n
        BY <1>2, <2>1, PeerWriterAssumption DEF TypeInv, TypeOK
      <3>2. written[m] < Parts
        BY <1>2, <2>1, <3>1 DEF Puts, WireInv, Ready
      <3>3. last = Parts \/ last = written[m] + 1
        BY <1>2, <2>1 DEF Puts
      <3>. QED  BY <3>1, <3>2, <3>3
    <2>3. /\ written' = [written EXCEPT ![m] = last]
          /\ Len(log) \in Nat /\ Len(log') \in Nat
          /\ \A i \in 1 .. Len(log) : i \in 1 .. Len(log') /\ log'[i] = log[i]
          /\ \A i \in Len(log) + 1 .. Len(log') : log'[i].msg = m
      <3>1. Appended(m, c, last)
        BY <1>2, <2>1, <2>2, PutsLog
      <3>. QED  BY <3>1 DEF Appended
    <2>4. \A i \in 1 .. Len(log') : i \in 1 .. Len(log) \/ i \in Len(log) + 1 .. Len(log')
      BY <2>3
    <2>5. OnWire(n)' = OnWire(n)
      BY <2>2, <2>3, <2>4 DEF OnWire
    <2>6. written'[n] = written[n]
      BY <2>2, <2>3 DEF TypeInv, TypeOK
    <2>. QED  BY <2>3, <2>5, <2>6 DEF OnWire
  <1>. QED  BY <1>1, <1>2, WireSteps DEF Bystands, Goes, LetsGo

LEMMA SameWire ==
  ASSUME TypeInv, WireInv, [Next]_vars, NEW n \in Msgs,
         \A w \in Writers, last \in Nat : Puts(w, last) => wmsg[w] # n
  PROVE  /\ Unwritten(n) => Unwritten(n)'
         /\ Complete(n) => Complete(n)'
         /\ \A c \in Conns : Whole(n, c) => Whole(n, c)'
  <1>1. /\ written'[n] = written[n] /\ OnWire(n)' = OnWire(n)
        /\ \A i \in OnWire(n) : log'[i] = log[i]
    BY ElseSame
  <1>2. {log'[i].part : i \in OnWire(n)'} = {log[i].part : i \in OnWire(n)}
    BY <1>1
  <1>. QED  BY <1>1, <1>2, ShutStays DEF Unwritten, Complete, Whole

\* A message that no writer has had was not had before, and one taken back was queued.
LEMMA UntouchedKept ==
  ASSUME TypeInv, Custody, WireInv, [Next]_vars, NEW n \in Msgs,
         spc'[n] \in Fresh \/ Queued(n)' \/ completion'[n] = "cancelled"
  PROVE  Unwritten(n)'
  <1>0. /\ wmsg \in [Writers -> Msgs \cup {NoMsg}] /\ completion \in [Msgs -> Outcomes]
        /\ queue \in Seq(Msgs)
    BY DEF TypeInv, TypeOK
  <1>1. spc[n] \in Fresh \/ Queued(n) \/ completion[n] = "cancelled"
    <2>1. CASE Moves
      BY <2>1 DEF Moves, Queued
    <2>2. ASSUME NEW m \in Msgs, spc[m] \in {"new", "recheck"}, Enqueue(m)
          PROVE  spc[n] \in Fresh \/ Queued(n) \/ completion[n] = "cancelled"
      <3>1. queue' = Append(queue, m) /\ completion' = completion /\ spc' = [NotifySenders(spc) EXCEPT ![m] = "shield"]
        BY <2>2 DEF Enqueue
      <3>2. Queued(n)' => Queued(n) \/ n = m
        BY <1>0, <3>1 DEF Queued
      <3>3. spc'[n] \in Fresh => spc[n] \in Fresh
        BY <3>1, NotifyKeeps DEF Fresh
      <3>. QED  BY <2>2, <3>1, <3>2, <3>3 DEF Fresh
    <2>3. ASSUME NEW m \in Msgs, CancelQueued(m)
          PROVE  spc[n] \in Fresh \/ Queued(n) \/ completion[n] = "cancelled"
      <3>1. /\ completion' = [completion EXCEPT ![m] = "cancelled"] /\ Queued(m)
            /\ spc' = [NotifySenders(spc) EXCEPT ![m] = "cancelled"]
        BY <2>3 DEF CancelQueued, Queued
      <3>2. Queued(n)' => Queued(n)
        <4>1. PICK i \in 1 .. Len(queue) :
                 /\ queue[i] = m /\ Len(queue') = Len(queue) - 1
                 /\ \A k \in 1 .. Len(queue') : queue'[k] = IF k < i THEN queue[k] ELSE queue[k + 1]
          BY <2>3, TakenBack
        <4>2. ASSUME NEW k \in 1 .. Len(queue')  PROVE \E j \in 1 .. Len(queue) : queue'[k] = queue[j]
          <5>1. CASE k < i
            BY <1>0, <4>1, <5>1
          <5>2. CASE ~(k < i)
            BY <1>0, <4>1, <5>2
          <5>. QED  BY <5>1, <5>2
        <4>. QED  BY <4>2 DEF Queued
      <3>3. spc'[n] \in Fresh => spc[n] \in Fresh
        BY <3>1, NotifyKeeps DEF Fresh
      <3>. QED  BY <1>0, <3>1, <3>2, <3>3
    <2>4. ASSUME NEW w \in Writers, TakeNext(w)
          PROVE  spc[n] \in Fresh \/ Queued(n) \/ completion[n] = "cancelled"
      BY <1>0, <2>4 DEF TakeNext, senderVars, Queued
    <2>5. ASSUME NEW w \in Writers, Releases(w)
          PROVE  spc[n] \in Fresh \/ Queued(n) \/ completion[n] = "cancelled"
      BY <1>0, <2>5, NotifyKeeps DEF Releases, Release, Queued
    <2>6. CASE CloseFailsQueued
      BY <1>0, <2>6 DEF CloseFailsQueued, CloseMoves, Queued
    <2>. QED  BY <2>1, <2>2, <2>3, <2>4, <2>5, <2>6, CustodySteps DEF Fresh
  <1>2. ASSUME NEW w \in Writers, NEW last \in Nat, Puts(w, last)
        PROVE  wmsg[w] # n
    <2>1. wmsg[w] \in Msgs /\ wmsg[w] # NoMsg
      BY <1>0, <1>2, PeerWriterAssumption DEF Puts, TypeInv, WriterInv, Busy
    <2>. QED  BY <1>1, <2>1 DEF Custody, Owned, Active, Queued
  <1>. QED  BY <1>1, <1>2, SameWire DEF WireInv

\* The writer that gives parts to a transport keeps the frame whole.
LEMMA PutsWhole ==
  ASSUME TypeInv, WireInv, NEW w \in Writers, NEW last \in Nat, Puts(w, last),
         NEW m \in Msgs, m = wmsg[w], NEW c \in Conns, c = wconn[w]
  PROVE  written'[m] <= Parts /\ Whole(m, c)'
  <1>1. written[m] \in Nat /\ m # NoMsg /\ Parts \in Nat /\ written \in [Msgs -> Nat]
    BY PeerWriterAssumption DEF TypeInv, TypeOK
  <1>2. written[m] < Parts /\ Whole(m, c)
    BY <1>1 DEF Puts, WireInv, Ready
  <1>3. (last = Parts \/ last = written[m] + 1) /\ written[m] < last /\ last <= Parts /\ cstate' = cstate
    BY <1>1, <1>2 DEF Puts
  <1>4. /\ written' = [written EXCEPT ![m] = last]
        /\ Len(log) \in Nat /\ Len(log') \in Nat
        /\ \A i \in 1 .. Len(log) : i \in 1 .. Len(log') /\ log'[i] = log[i]
        /\ cstate[c] # "lost" => Len(log') = Len(log) + (last - written[m])
        /\ \A i \in Len(log) + 1 .. Len(log') :
               log'[i].conn = c /\ log'[i].msg = m /\ log'[i].part = written[m] + (i - Len(log))
    <2>1. Appended(m, c, last)
      BY <1>3, PutsLog
    <2>. QED  BY <2>1 DEF Appended
  <1>5. written'[m] = last
    BY <1>1, <1>4
  <1>6. \A i \in 1 .. Len(log') : i \in 1 .. Len(log) \/ i \in Len(log) + 1 .. Len(log')
    BY <1>4
  <1>7. \A i \in OnWire(m)' : log'[i].conn = c
    BY <1>2, <1>4, <1>6 DEF OnWire, Whole
  <1>8. ASSUME cstate[c] # "lost"
        PROVE  {log'[i].part : i \in OnWire(m)'} = 1 .. last
    <2>1. {log[i].part : i \in OnWire(m)} = 1 .. written[m]
      BY <1>2, <1>8 DEF Whole
    <2>2. ASSUME NEW i \in OnWire(m)'  PROVE log'[i].part \in 1 .. last
      <3>1. i \in 1 .. Len(log') /\ log'[i].msg = m
        BY <2>2 DEF OnWire
      <3>2. CASE i \in 1 .. Len(log)
        <4>1. log[i].part \in 1 .. written[m]
          BY <1>4, <2>1, <3>1, <3>2 DEF OnWire
        <4>. QED  BY <1>1, <1>3, <1>4, <3>2, <4>1
      <3>3. CASE i \in Len(log) + 1 .. Len(log')
        <4>1. log'[i].part = written[m] + (i - Len(log)) /\ Len(log') = Len(log) + (last - written[m])
          BY <1>4, <1>8, <3>3
        <4>2. written[m] + (i - Len(log)) \in 1 .. last
          BY <1>1, <1>4, <3>3, <4>1
        <4>. QED  BY <4>1, <4>2
      <3>. QED  BY <1>6, <3>1, <3>2, <3>3
    <2>3. ASSUME NEW p \in 1 .. last  PROVE \E i \in OnWire(m)' : log'[i].part = p
      <3>1. CASE p <= written[m]
        <4>1. PICK i \in OnWire(m) : log[i].part = p
          BY <1>1, <2>1, <3>1
        <4>. QED  BY <1>4, <4>1 DEF OnWire
      <3>2. CASE p > written[m]
        <4>. DEFINE i == Len(log) + (p - written[m])
        <4>1. i \in Len(log) + 1 .. Len(log') /\ i \in 1 .. Len(log') /\ written[m] + (i - Len(log)) = p
          BY <1>1, <1>4, <1>8, <3>2
        <4>. HIDE DEF i
        <4>. QED  BY <1>4, <4>1 DEF OnWire
      <3>. QED  BY <1>1, <3>1, <3>2
    <2>. QED  BY <2>2, <2>3
  <1>. QED  BY <1>3, <1>5, <1>7, <1>8 DEF Whole

\* A send that is over with success had its whole frame taken by one connection.
LEMMA SentKept ==
  ASSUME TypeInv, Custody, WireInv, [Next]_vars, NEW n \in Msgs, completion'[n] = "sent"
  PROVE  Complete(n)'
  <1>0. /\ wmsg \in [Writers -> Msgs \cup {NoMsg}] /\ completion \in [Msgs -> Outcomes]
        /\ NoMsg \notin Msgs /\ wconn \in [Writers -> Conns \cup {0}]
    BY PeerWriterAssumption DEF TypeInv, TypeOK
  <1>1. ASSUME NEW w \in Writers, LetsGo(w), completion[n] # "sent"
        PROVE  Complete(n)'
    <2>1. PICK o \in {"pending", "failed", "sent"}, s \in {"top", "done"} :
            /\ Release(w, o, s)
            /\ o = "sent" => wpc[w] = "drain" /\ cstate[wconn[w]] # "lost" /\ written[wmsg[w]] = Parts
      BY <1>1 DEF LetsGo
    <2>2. wmsg[w] \in Msgs /\ UNCHANGED <<log, written>>
      BY <1>0, <1>1 DEF LetsGo, TypeInv, WriterInv
    <2>3. n = wmsg[w] /\ o = "sent"
      BY <1>0, <1>1, <2>1, <2>2 DEF Release
    <2>4. Whole(n, wconn[w]) /\ cstate[wconn[w]] # "lost" /\ written[n] = Parts
      BY <1>0, <2>1, <2>3 DEF WireInv
    <2>5. Complete(n)
      BY <2>4 DEF Whole, Complete
    <2>. QED  BY <2>2, <2>5 DEF Complete, OnWire
  <1>2. CASE completion[n] = "sent"
    <2>1. ASSUME NEW w \in Writers, NEW last \in Nat, Puts(w, last)  PROVE wmsg[w] # n
      BY <1>0, <1>2 DEF Custody, Owned, Active
    <2>. QED  BY <1>2, <2>1, SameWire DEF WireInv
  <1>3. ASSUME completion[n] # "sent", \A w \in Writers : ~LetsGo(w)
        PROVE  FALSE
    <2>1. CASE Moves
      BY <1>3, <2>1 DEF Moves
    <2>2. ASSUME NEW m \in Msgs, Enqueue(m) \/ CancelQueued(m)  PROVE FALSE
      BY <1>0, <1>3, <2>2 DEF Enqueue, CancelQueued
    <2>3. ASSUME NEW w \in Writers, TakeNext(w)  PROVE FALSE
      BY <1>3, <2>3 DEF TakeNext, senderVars
    <2>4. ASSUME NEW w \in Writers, Releases(w)  PROVE FALSE
      <3>1. wmsg'[w] = NoMsg /\ wmsg[w] # NoMsg
        BY <1>0, <2>4 DEF Releases, Release, TypeInv, WriterInv
      <3>. QED  BY <1>0, <1>3, <2>4, <3>1, WireSteps DEF Bystands, Alone, Goes, Puts, TakeNext, senderVars
    <2>5. CASE CloseFailsQueued
      BY <1>0, <1>3, <2>5 DEF CloseFailsQueued
    <2>. QED  BY <2>1, <2>2, <2>3, <2>4, <2>5, CustodySteps
  <1>. QED  BY <1>1, <1>2, <1>3

\* What WireInv says of the message m that writer v holds.
HeldRight(v, m) ==
    /\ wpc[v] \in Early => Unwritten(m)
    /\ wpc[v] \in Ready => written[m] < Parts /\ Whole(m, wconn[v])
    /\ wpc[v] = "drain" => written[m] <= Parts /\ Whole(m, wconn[v])

\* A writer keeps the message that it holds right on the wire.
LEMMA HeldKept ==
  ASSUME TypeInv, Custody, WireInv, [Next]_vars, NEW v \in Writers, NEW n \in Msgs, n = wmsg'[v]
  PROVE  HeldRight(v, n)'
  <1>0. /\ wmsg \in [Writers -> Msgs \cup {NoMsg}] /\ NoMsg \notin Msgs
        /\ wconn \in [Writers -> Conns \cup {0}] /\ written \in [Msgs -> Nat]
        /\ Parts \in Nat \ {0}
    BY PeerWriterAssumption DEF TypeInv, TypeOK
  \* The message is already there, and its writer does not give it to a transport.
  <1>1. ASSUME n = wmsg[v], \A w \in Writers, last \in Nat : Puts(w, last) => wmsg[w] # n
        PROVE  /\ HeldRight(v, n) /\ written'[n] = written[n]
               /\ Unwritten(n) => Unwritten(n)'
               /\ \A c \in Conns : Whole(n, c) => Whole(n, c)'
    BY <1>0, <1>1, SameWire, ElseSame DEF WireInv, HeldRight
  <1>2. ASSUME n = wmsg[v], wpc'[v] = wpc[v], wconn'[v] = wconn[v],
               \A w \in Writers, last \in Nat : Puts(w, last) => w # v
        PROVE  HeldRight(v, n)'
    <2>1. \A w \in Writers, last \in Nat : Puts(w, last) => wmsg[w] # n
      BY <1>0, <1>2 DEF Custody
    <2>2. wpc[v] \in Ready \cup {"drain"} => wconn[v] \in Conns
      BY <1>2 DEF TypeInv, WriterInv, Connected, Ready
    <2>. QED  BY <1>0, <1>1, <1>2, <2>1, <2>2 DEF HeldRight
  <1>3. CASE Bystands
    <2>1. \A w \in Writers, last \in Nat : Puts(w, last) => w # v
      BY <1>0, <1>3 DEF Bystands, Puts
    <2>. QED  BY <1>0, <1>2, <1>3, <2>1 DEF Bystands
  <1>4. ASSUME NEW w \in Writers, Alone(w), w # v,
               \A u \in Writers, last \in Nat : Puts(u, last) => u = w
        PROVE  HeldRight(v, n)'
    BY <1>0, <1>2, <1>4 DEF Alone
  <1>5. CASE TakeNext(v) /\ UNCHANGED <<log, written>>
    <2>1. /\ n = Head(queue) /\ queue # <<>> /\ queue \in Seq(Msgs) /\ wpc'[v] = "connect"
      BY <1>0, <1>5 DEF TakeNext, TypeInv, TypeOK
    <2>2. Queued(n)
      BY <2>1 DEF Queued
    <2>3. Unwritten(n)
      BY <2>2 DEF WireInv
    <2>. QED  BY <1>5, <2>1, <2>3 DEF HeldRight, Unwritten, OnWire, Ready
  <1>6. CASE Goes(v)
    <2>1. n = wmsg[v] /\ UNCHANGED <<log, written>>
      BY <1>6 DEF Goes
    <2>2. \A w \in Writers, last \in Nat : Puts(w, last) => wmsg[w] # n
      BY <1>0, <1>6, <2>1 DEF Goes, Puts, Early, Ready, Custody
    <2>3. /\ HeldRight(v, n) /\ written'[n] = written[n]
          /\ Unwritten(n) => Unwritten(n)'
          /\ \A c \in Conns : Whole(n, c) => Whole(n, c)'
      BY <1>1, <2>1, <2>2
    <2>4. CASE wpc[v] \in Early /\ wpc'[v] \in Early
      BY <2>3, <2>4 DEF HeldRight, Early, Ready
    <2>5. CASE wpc[v] \in Early /\ wpc'[v] = "locked" /\ wconn'[v] \in Conns
      <3>1. Unwritten(n)'
        BY <2>3, <2>5 DEF HeldRight
      <3>2. written'[n] = 0 /\ Whole(n, wconn[v])'
        BY <3>1 DEF Unwritten, Whole
      <3>. QED  BY <1>0, <2>5, <3>1, <3>2 DEF HeldRight, Early
    <2>6. CASE wpc[v] \in Ready \cup {"drain"} /\ wpc'[v] \in Ready /\ wconn'[v] = wconn[v] /\ written[n] < Parts
      <3>1. wconn[v] \in Conns /\ Whole(n, wconn[v])
        BY <2>3, <2>6 DEF HeldRight, TypeInv, WriterInv, Connected, Ready
      <3>. QED  BY <2>3, <2>6, <3>1 DEF HeldRight, Early, Ready
    <2>7. CASE wpc'[v] = "drop"
      BY <2>7 DEF HeldRight, Early, Ready
    <2>8. \/ wpc[v] \in Ready \cup {"drain"} /\ wpc'[v] \in Ready /\ wconn'[v] = wconn[v] /\ written[n] < Parts
          \/ wpc[v] \in Early /\ wpc'[v] \in Early
          \/ wpc[v] \in Early /\ wpc'[v] = "locked" /\ wconn'[v] \in Conns
          \/ wpc'[v] = "drop"
      BY <1>6, <2>1, <2>3 DEF Goes, HeldRight, Ready
    <2>. QED  BY <2>4, <2>5, <2>6, <2>7, <2>8
  <1>7. CASE LetsGo(v)
    BY <1>0, <1>7 DEF LetsGo, Release
  <1>8. ASSUME NEW last \in Nat, Puts(v, last)
        PROVE  HeldRight(v, n)'
    <2>1. n = wmsg[v] /\ wconn' = wconn /\ wpc'[v] = "drain"
      BY <1>8 DEF Puts
    <2>2. wconn[v] \in Conns
      BY <1>8 DEF Puts, TypeInv, WriterInv, Connected
    <2>3. written'[n] <= Parts /\ \A c \in Conns : c = wconn[v] => Whole(n, c)'
      BY <1>8, <2>1, <2>2, PutsWhole
    <2>. QED  BY <2>1, <2>2, <2>3 DEF HeldRight, Early, Ready
  <1>9. ASSUME NEW w \in Writers, w # v, Alone(w),
               \/ TakeNext(w) \/ Goes(w) \/ LetsGo(w) \/ \E last \in Nat : Puts(w, last)
        PROVE  HeldRight(v, n)'
    <2>1. n = wmsg[v]
      BY <1>9 DEF Alone
    <2>2. wpc'[v] = wpc[v] /\ wconn'[v] = wconn[v]
      BY <1>0, <1>9, <2>1 DEF Alone
    <2>3. \A u \in Writers, last \in Nat : Puts(u, last) => u # v
      <3>1. SUFFICES ASSUME NEW last \in Nat, Puts(v, last)  PROVE FALSE
        OBVIOUS
      <3>. QED  BY <2>2, <3>1 DEF Puts
    <2>. QED  BY <1>2, <2>1, <2>2, <2>3
  <1>. QED  BY <1>3, <1>5, <1>6, <1>7, <1>8, <1>9, WireSteps

LEMMA WireKept == Spec => []WireInv
  <1>1. Init => WireInv
    BY PeerWriterAssumption DEF Init, WireInv, Unwritten, OnWire
  <1>2. ASSUME TypeInv, Custody, WireInv, [Next]_vars
        PROVE  WireInv'
    <2>1. \A m \in Msgs : spc'[m] \in Fresh \/ Queued(m)' \/ completion'[m] = "cancelled" => Unwritten(m)'
      BY <1>2, UntouchedKept
    <2>2. \A m \in Msgs : completion'[m] = "sent" => Complete(m)'
      BY <1>2, SentKept
    <2>3. ASSUME NEW w \in Writers, wmsg'[w] # NoMsg
          PROVE  \E m \in Msgs : m = wmsg'[w] /\ HeldRight(w, m)'
      <3>1. wmsg'[w] \in Msgs
        BY <1>2, <2>3, TypeStep DEF TypeInv, TypeOK
      <3>. QED  BY <1>2, <3>1, HeldKept
    <2>. QED  BY <2>1, <2>2, <2>3 DEF WireInv, HeldRight
  <1>. QED  BY <1>1, <1>2, TypeInvariance, CustodyKept, PTL DEF Spec

\* CompletionMatchesWire: a send that returned with success had its whole frame taken by
\* one connection, and a send taken back from the queue left no byte on any, whatever is
\* cancelled, lost or closed in between (comm.py:383-388, 421-433, 467-490).
THEOREM OutcomeIsTrue == Spec => []CompletionMatchesWire
  <1>1. WireInv => CompletionMatchesWire
    BY DEF WireInv, CompletionMatchesWire, Complete, Unwritten, OnWire
  <1>. QED  BY <1>1, WireKept, PTL

---------------------------------------------------------------------------
(* The refinement of SendService                                           *)

Accepted(m) == \E i \in 1 .. Len(accepted) : accepted[i] = m

\* The queue has accepted every message that is owned or waited for, and no fresh one.
AcceptedInv ==
    \A m \in Msgs :
        /\ Accepted(m) => spc[m] \notin Fresh
        /\ Owned(m) \/ spc[m] \in Waiting \cup {"regather"} => Accepted(m)

\* No result of a send changes.
SameResults == \A n \in Msgs : spc[n] \in Ended \/ spc'[n] \in Ended => spc'[n] = spc[n]

\* The send of m ends, and no other.
EndsAlone(m) ==
    /\ spc[m] \notin Ended /\ spc'[m] \in Ended
    /\ \A n \in Msgs : n # m => (spc[n] \in Ended \/ spc'[n] \in Ended => spc'[n] = spc[n])

\* The ways in which a send can end.
LEMMA EndSteps ==
  ASSUME TypeInv, [Next]_vars
  PROVE  \/ SameResults
         \/ \E m \in Msgs : CancelQueued(m) /\ EndsAlone(m) /\ spc'[m] = "cancelled"
         \/ \E m \in Msgs : /\ EndsAlone(m) /\ UNCHANGED <<queue, wmsg, accepted, written>>
                            /\ \/ spc[m] \in Fresh \/ completion[m] # "pending" \/ ~Owned(m)
                               \/ spc[m] = "regather" \/ m \in CancellableTwice
                            /\ spc'[m] = "ok" => completion[m] = "sent" /\ spc[m] = "shield"
  <1>. USE DEF senderVars, queueVars, writerVars, wireVars
  <1>0. spc \in [Msgs -> SenderStates]
    BY DEF TypeInv, TypeOK
  <1>1. ASSUME spc' = spc \/ spc' = NotifySenders(spc)  PROVE SameResults
    BY <1>0, <1>1 DEF SameResults, NotifySenders, Ended
  <1>2. ASSUME NEW m \in Msgs, NEW s \in SenderStates \ Ended, spc[m] \notin Ended, SenderMoves(m, s)
        PROVE  SameResults
    BY <1>0, <1>2 DEF SenderMoves, SameResults
  <1>3. ASSUME NEW m \in Msgs, NEW s \in Ended, spc[m] \notin Ended, SenderMoves(m, s) \/ (Restart(m) /\ s = "cancelled")
        PROVE  EndsAlone(m) /\ spc'[m] = s /\ UNCHANGED <<queue, wmsg, accepted, written>>
    BY <1>0, <1>3 DEF SenderMoves, Restart, EndsAlone
  <1>4. ASSUME NEW m \in Msgs, Enqueue(m), spc[m] \notin Ended  PROVE SameResults
    BY <1>0, <1>4 DEF Enqueue, SameResults, NotifySenders, Ended
  <1>5. ASSUME NEW m \in Msgs, CancelQueued(m)  PROVE EndsAlone(m) /\ spc'[m] = "cancelled"
    BY <1>0, <1>5 DEF CancelQueued, EndsAlone, NotifySenders, Ended
  <1>6. ASSUME NEW m \in Msgs, Sender(m)
        PROVE  \/ SameResults
               \/ CancelQueued(m)
               \/ /\ EndsAlone(m) /\ UNCHANGED <<queue, wmsg, accepted, written>>
                  /\ \/ spc[m] \in Fresh \/ completion[m] # "pending" \/ ~Owned(m)
                     \/ spc[m] = "regather" \/ m \in CancellableTwice
                  /\ spc'[m] = "ok" => completion[m] = "sent" /\ spc[m] = "shield"
    <2>1. CASE SendRefused(m) \/ CapacityClosed(m) \/ CapacityCancelled(m)
      BY <1>3, <2>1 DEF SendRefused, CapacityClosed, CapacityCancelled, Fresh, Ended
    <2>2. CASE SendWaits(m) \/ CapacityStillFull(m)
      BY <1>2, <2>2 DEF SendWaits, CapacityStillFull, Ended, SenderStates
    <2>3. CASE SendAccepted(m) \/ CapacityFound(m)
      BY <1>4, <2>3 DEF SendAccepted, CapacityFound, Ended
    <2>4. CASE SendReturns(m)
      BY <1>3, <2>4 DEF SendReturns, Ended
    <2>5. CASE CancelActive(m) \/ CancelAgain(m)
      BY <1>0, <2>5 DEF CancelActive, CancelAgain, SameResults, Ended
    <2>6. CASE CancelFinished(m)
      BY <1>3, <2>6 DEF CancelFinished, Owned, Ended
    <2>7. CASE GatherDone(m) \/ SettleDone(m)
      BY <1>2, <1>3, <2>7 DEF GatherDone, SettleDone, Ended, SenderStates
    <2>8. CASE RegatherDone(m) \/ SettleCancelled(m)
      BY <1>3, <2>8 DEF RegatherDone, SettleCancelled, Ended
    <2>. QED  BY <1>6, <2>1, <2>2, <2>3, <2>4, <2>5, <2>6, <2>7, <2>8 DEF Sender
  <1>7. ASSUME NEW w \in Writers, Writer(w)  PROVE SameResults
    BY <1>1, <1>7 DEF Writer, FindEmpty, TakeNext, UsePreferred, NeedDial, ConnectLock, DialOk, DialFails, WriteLock,
       WriteFrame, Acquire, AcquireRaises, AcquireRefused, Grant, WriteGranted, DrainedPart, DrainedFrame, DrainFails,
       CancelledIdle, CancelledAtOnce, CancelledOnConnection, Dropped, CancelledInDrop, WritePart, WriterMoves, Release
  <1>8. ASSUME NEW c \in Conns, Connection(c)  PROVE SameResults
    BY <1>1, <1>8 DEF Connection, PeerConnects, ConnectionLost, ReaderDrops, FlushDone, ConnMoves
  <1>9. ASSUME Close  PROVE SameResults
    BY <1>1, <1>9 DEF Close, CloseStart, CloseFailsQueued, CloseCancelsWriter, CloseScheduler, CloseConnections,
       CloseReturns, CloseMoves
  <1>10. CASE UNCHANGED vars
    BY <1>1, <1>10 DEF vars
  <1>. QED  BY <1>5, <1>6, <1>7, <1>8, <1>9, <1>10 DEF Next

\* Only Enqueue accepts a message; no other step makes a send wait for one, or new again.
LEMMA AcceptedSteps ==
  ASSUME TypeInv, [Next]_vars
  PROVE  \/ \E m \in Msgs : spc[m] \in Fresh /\ ~Full(m) /\ Enqueue(m)
         \/ /\ accepted' = accepted
            /\ \A n \in Msgs : /\ spc'[n] \in Fresh => spc[n] \in Fresh
                               /\ spc'[n] \in Waiting \cup {"regather"} => spc[n] \in Waiting \cup {"regather"}
  <1>. DEFINE Same == /\ accepted' = accepted
                      /\ \A n \in Msgs : /\ spc'[n] \in Fresh => spc[n] \in Fresh
                                         /\ spc'[n] \in Waiting \cup {"regather"} => spc[n] \in Waiting \cup {"regather"}
  <1>. USE DEF senderVars, queueVars, Fresh, Waiting
  <1>0. spc \in [Msgs -> SenderStates]
    BY DEF TypeInv, TypeOK
  <1>1. ASSUME spc' = spc \/ spc' = NotifySenders(spc), accepted' = accepted  PROVE Same
    BY <1>0, <1>1 DEF NotifySenders
  <1>2. ASSUME NEW m \in Msgs, Sender(m)
        PROVE  Same \/ (spc[m] \in Fresh /\ ~Full(m) /\ Enqueue(m))
    <2>1. CASE SendAccepted(m) \/ CapacityFound(m)
      BY <2>1 DEF SendAccepted, CapacityFound
    <2>2. CASE CancelQueued(m)
      BY <1>0, <2>2 DEF CancelQueued, NotifySenders
    <2>3. CASE SendRefused(m) \/ SendWaits(m) \/ CapacityClosed(m) \/ CapacityStillFull(m)
               \/ CapacityCancelled(m) \/ SendReturns(m) \/ CancelActive(m) \/ CancelFinished(m) \/ CancelAgain(m)
      BY <1>0, <2>3 DEF SendRefused, SendWaits, CapacityClosed, CapacityStillFull, CapacityCancelled,
         SendReturns, CancelActive, CancelFinished, CancelAgain, SenderMoves
    <2>4. CASE GatherDone(m) \/ RegatherDone(m) \/ SettleDone(m) \/ SettleCancelled(m)
      BY <1>0, <2>4 DEF GatherDone, RegatherDone, SettleDone, SettleCancelled, SenderMoves, Restart
    <2>. QED  BY <1>2, <2>1, <2>2, <2>3, <2>4 DEF Sender
  <1>3. ASSUME NEW w \in Writers, Writer(w)  PROVE Same
    <2>. (spc' = spc \/ spc' = NotifySenders(spc)) /\ accepted' = accepted
      BY <1>3 DEF Writer, FindEmpty, TakeNext, UsePreferred, NeedDial, ConnectLock, DialOk, DialFails, WriteLock,
       WriteFrame, Acquire, AcquireRaises, AcquireRefused, Grant, WriteGranted, DrainedPart, DrainedFrame, DrainFails,
       CancelledIdle, CancelledAtOnce, CancelledOnConnection, Dropped, CancelledInDrop, WritePart, WriterMoves, Release
    <2>. QED  BY <1>1
  <1>4. ASSUME NEW c \in Conns, Connection(c)  PROVE Same
    BY <1>1, <1>4 DEF Connection, PeerConnects, ConnectionLost, ReaderDrops, FlushDone, ConnMoves
  <1>5. ASSUME Close  PROVE Same
    BY <1>1, <1>5 DEF Close, CloseStart, CloseFailsQueued, CloseCancelsWriter, CloseScheduler, CloseConnections,
       CloseReturns, CloseMoves
  <1>6. CASE UNCHANGED vars
    BY <1>1, <1>6 DEF vars
  <1>. QED  BY <1>2, <1>3, <1>4, <1>5, <1>6 DEF Next

\* What Enqueue accepts.
LEMMA EnqueueAccepts ==
  ASSUME TypeInv, NEW m \in Msgs, Enqueue(m)
  PROVE  /\ \A n \in Msgs : Accepted(n)' <=> Accepted(n) \/ n = m
         /\ \A n \in Msgs : Owned(n)' <=> Owned(n) \/ n = m
         /\ \A n \in Msgs : n # m => spc'[n] = NotifySenders(spc)[n]
         /\ spc'[m] = "shield"
  <1>0. accepted \in Seq(Msgs) /\ queue \in Seq(Msgs) /\ spc \in [Msgs -> SenderStates]
    BY DEF TypeInv, TypeOK
  <1>1. /\ accepted' = Append(accepted, m) /\ queue' = Append(queue, m) /\ wmsg' = wmsg
        /\ spc' = [NotifySenders(spc) EXCEPT ![m] = "shield"]
    BY DEF Enqueue
  <1>2. \A n \in Msgs : Accepted(n)' <=> Accepted(n) \/ n = m
    BY <1>0, <1>1 DEF Accepted
  <1>3. \A n \in Msgs : Owned(n)' <=> Owned(n) \/ n = m
    BY <1>0, <1>1 DEF Owned, Queued, Active
  <1>. QED  BY <1>1, <1>2, <1>3, NotifyKeeps DEF NotifySenders

LEMMA AcceptedKept == Spec => []AcceptedInv
  <1>1. Init => AcceptedInv
    BY PeerWriterAssumption DEF Init, AcceptedInv, Accepted, Owned, Queued, Active, Waiting
  <1>2. ASSUME TypeInv, Custody, AcceptedInv, [Next]_vars
        PROVE  AcceptedInv'
    <2>1. ASSUME NEW m \in Msgs, Enqueue(m)  PROVE AcceptedInv'
      <3>1. /\ \A n \in Msgs : Accepted(n)' <=> Accepted(n) \/ n = m
            /\ \A n \in Msgs : Owned(n)' <=> Owned(n) \/ n = m
            /\ \A n \in Msgs : n # m => spc'[n] = NotifySenders(spc)[n]
            /\ spc'[m] = "shield"
        BY <1>2, <2>1, EnqueueAccepts
      <3>. QED  BY <1>2, <3>1, NotifyKeeps DEF AcceptedInv, Fresh, Waiting, NotifySenders
    <2>2. ASSUME accepted' = accepted, \A m \in Msgs : ~Enqueue(m), NEW n \in Msgs
          PROVE  Accepted(n)' = Accepted(n) /\ (Owned(n)' => Owned(n))
      BY <1>2, <2>2, OwnedStep DEF Accepted
    <2>. QED  BY <1>2, <2>1, <2>2, AcceptedSteps DEF AcceptedInv
  <1>. QED  BY <1>1, <1>2, TypeInvariance, CustodyKept, PTL DEF Spec

\* Where the messages are and how their sends ended, as the service sees them.
Place  == [m \in Msgs |-> PlaceOf(m)]
Result == [m \in Msgs |-> IF spc[m] \in Ended THEN spc[m] ELSE "none"]

LEMMA Places ==
  ASSUME NEW m \in Msgs
  PROVE  PlaceOf(m) = IF Owned(m) THEN "backlog" ELSE IF Accepted(m) THEN "gone" ELSE "outside"
  BY DEF PlaceOf, Owned, Accepted

\* All that the refinement needs to know of a state.
ServiceInv == TypeInv /\ Custody /\ Attended /\ WireInv /\ AcceptedInv /\ BacklogInv

\* A step that queues no message leaves the places of those that stay in the backlog.
LEMMA PlacesKept ==
  ASSUME ServiceInv, [Next]_vars, \A m \in Msgs : ~Enqueue(m)
  PROVE  /\ \A n \in Msgs : Accepted(n)' <=> Accepted(n)
         /\ \A n \in Msgs : Owned(n)' => Owned(n)
         /\ \A n \in Msgs : (Owned(n)' <=> Owned(n)) => PlaceOf(n)' = PlaceOf(n)
  <1>1. /\ \A n \in Msgs : Accepted(n)' <=> Accepted(n)
        /\ \A n \in Msgs : Owned(n)' => Owned(n)
    BY AcceptedSteps, OwnedStep DEF Accepted, ServiceInv
  <1>2. \A n \in Msgs : PlaceOf(n)' = IF Owned(n)' THEN "backlog" ELSE IF Accepted(n)' THEN "gone" ELSE "outside"
    BY DEF PlaceOf, Owned, Accepted
  <1>. QED  BY <1>1, <1>2, Places

\* Cardinality means the same in SendService.
LEMMA SameCardinality ==
  ASSUME NEW S
  PROVE  Service!Cardinality(S) = Cardinality(S)
  BY DEF Service!Cardinality, Cardinality

\* A message joins the backlog.
LEMMA JoinAccepts ==
  ASSUME ServiceInv, NEW m \in Msgs, spc[m] \in Fresh, ~Full(m), Enqueue(m)
  PROVE  Service!Accept(m)
  <1>0. /\ spc \in [Msgs -> SenderStates] /\ pendingMessages \in Int /\ pendingBytes \in Int
        /\ Held = {n \in Msgs : Owned(n)} /\ Size[m] \in Nat
    BY HeldIsOwned, PeerWriterAssumption DEF ServiceInv, TypeInv, TypeOK
  <1>1. /\ \A n \in Msgs : Accepted(n)' <=> Accepted(n) \/ n = m
        /\ \A n \in Msgs : Owned(n)' <=> Owned(n) \/ n = m
        /\ \A n \in Msgs : n # m => spc'[n] = NotifySenders(spc)[n]
        /\ spc'[m] = "shield"
    BY EnqueueAccepts DEF ServiceInv
  <1>2. ~Owned(m) /\ ~Accepted(m)
    BY DEF ServiceInv, Custody, AcceptedInv
  <1>3. Place[m] = "outside" /\ Result[m] = "none"
    BY <1>2, Places DEF Place, Result, Fresh, Ended
  <1>4. Place' = [Place EXCEPT ![m] = "backlog"]
    <2>1. \A n \in Msgs : PlaceOf(n)' = IF Owned(n)' THEN "backlog" ELSE IF Accepted(n)' THEN "gone" ELSE "outside"
      BY DEF PlaceOf, Owned, Accepted
    <2>2. \A n \in Msgs : PlaceOf(n)' = IF n = m THEN "backlog" ELSE PlaceOf(n)
      BY <1>1, <2>1, Places
    <2>. QED  BY <2>2 DEF Place
  <1>5. Result' = Result
    BY <1>0, <1>1 DEF Result, NotifySenders, Ended, Fresh
  <1>6. written' = written
    BY DEF Enqueue, wireVars
  <1>7. Service!Backlog = Held
    BY <1>0, Places DEF Service!Backlog
  <1>8. Service!Cardinality(Held) < MaxMessages /\ Service!Bytes(Held \cup {m}) <= MaxBytes
    <2>1. m \notin Held /\ Held \subseteq Msgs
      BY <1>0, <1>2
    <2>2. Cardinality(BytesOf(Held \cup {m})) = Cardinality(BytesOf(Held)) + Size[m]
      BY <2>1, BytesAdded DEF ServiceInv, BacklogInv
    <2>3. Service!Bytes(Held \cup {m}) = Cardinality(BytesOf(Held \cup {m}))
      BY SameCardinality DEF Service!Bytes, BytesOf
    <2>. QED  BY <1>0, <2>2, <2>3, SameCardinality, PeerWriterAssumption DEF ServiceInv, BacklogInv, Full
  <1>. QED
    BY <1>3, <1>4, <1>5, <1>6, <1>7, <1>8 DEF Service!Accept, Place, Result

\* A message leaves the backlog: its writer or close() is done with it, or its send
\* takes it back.
LEMMA LeaveLeaves ==
  ASSUME ServiceInv, ServiceInv', [Next]_vars, NEW m \in Held, Held' = Held \ {m}, Uncount(m)
  PROVE  Service!Leave(m) \/ Service!Withdraw(m)
  <1>0. /\ spc \in [Msgs -> SenderStates] /\ pendingMessages \in Int
        /\ Held = {n \in Msgs : Owned(n)}
    BY HeldIsOwned DEF ServiceInv, TypeInv, TypeOK
  <1>a. Held' = {n \in Msgs : Owned(n)'}
    BY HeldAfter DEF ServiceInv
  <1>1. \A n \in Msgs : ~Enqueue(n)
    BY <1>0 DEF Enqueue, Uncount
  <1>2. m \in Msgs /\ Owned(m) /\ ~Owned(m)' /\ \A n \in Msgs : n # m => (Owned(n)' <=> Owned(n))
    BY <1>0, <1>a
  <1>3. Place' = [Place EXCEPT ![m] = "gone"] /\ Place[m] = "backlog"
    <2>1. PlaceOf(m)' = "gone"
      <3>1. Accepted(m)'
        BY <1>1, <1>2, PlacesKept DEF ServiceInv, AcceptedInv
      <3>2. PlaceOf(m)' = IF Owned(m)' THEN "backlog" ELSE IF Accepted(m)' THEN "gone" ELSE "outside"
        BY DEF PlaceOf, Owned, Accepted
      <3>. QED  BY <1>2, <3>1, <3>2
    <2>2. \A n \in Msgs : n # m => PlaceOf(n)' = PlaceOf(n)
      BY <1>1, <1>2, PlacesKept
    <2>. QED  BY <1>2, <2>1, <2>2, Places DEF Place
  <1>4. ~(UNCHANGED <<queue, wmsg>>)
    BY <1>2 DEF Owned, Queued, Active
  <1>5. written' = written
    BY <1>4, WireSteps DEF Bystands, Goes, LetsGo, Puts, ServiceInv
  <1>6. CASE SameResults
    <2>1. Result' = Result
      BY <1>0, <1>6 DEF SameResults, Result
    <2>. QED  BY <1>2, <1>3, <1>5, <2>1 DEF Service!Leave, Place, Result
  <1>7. ASSUME NEW k \in Msgs, CancelQueued(k), EndsAlone(k), spc'[k] = "cancelled"
        PROVE  Service!Withdraw(m)
    <2>1. completion'[k] = "cancelled" /\ Queued(k)
      BY <1>7 DEF CancelQueued, Queued, ServiceInv, TypeInv, TypeOK
    <2>2. k = m
      BY <1>2, <2>1 DEF ServiceInv, Custody, Owned
    <2>3. Result' = [Result EXCEPT ![m] = "cancelled"]
      BY <1>0, <1>7, <2>2 DEF EndsAlone, Result, Ended
    <2>4. written[m] = 0
      BY <2>1, <2>2 DEF ServiceInv, WireInv, Unwritten
    <2>. QED  BY <1>3, <1>5, <2>3, <2>4 DEF Service!Withdraw, Place, Result
  <1>. QED  BY <1>4, <1>6, <1>7, EndSteps DEF ServiceInv

\* The backlog stays as it is: parts are written, a send ends, or nothing is seen.
LEMMA StayWrites ==
  ASSUME ServiceInv, CancellableTwice = {}, [Next]_vars, Held' = Held, ServiceInv',
         UNCHANGED <<pendingMessages, pendingBytes>>
  PROVE  Service!Next \/ UNCHANGED <<Place, Result, written>>
  <1>0. /\ spc \in [Msgs -> SenderStates] /\ pendingMessages \in Int
        /\ Held = {n \in Msgs : Owned(n)} /\ written \in [Msgs -> Nat] /\ Parts \in Nat
    BY HeldIsOwned, PeerWriterAssumption DEF ServiceInv, TypeInv, TypeOK
  <1>a. Held' = {n \in Msgs : Owned(n)'}
    BY HeldAfter DEF ServiceInv
  <1>1. \A n \in Msgs : ~Enqueue(n)
    BY <1>0 DEF Enqueue
  <1>2. \A n \in Msgs : Owned(n)' <=> Owned(n)
    BY <1>0, <1>a
  <1>3. Place' = Place
    BY <1>1, <1>2, PlacesKept DEF Place
  <1>4. ASSUME NEW w \in Writers, NEW last \in Nat, Puts(w, last)
        PROVE  Service!Next
    <2>1. PICK m \in Msgs : m = wmsg[w] /\ m # NoMsg
      BY <1>4, PeerWriterAssumption DEF Puts, ServiceInv, TypeInv, TypeOK, WriterInv, Busy
    <2>2. written[m] < Parts
      BY <1>4, <2>1 DEF Puts, ServiceInv, WireInv, Ready
    <2>3. last \in written[m] + 1 .. Parts /\ written' = [written EXCEPT ![m] = last] /\ spc' = spc
      BY <1>0, <1>4, <2>1, <2>2 DEF Puts
    <2>4. Place[m] = "backlog"
      BY <2>1, Places DEF Place, Owned, Active
    <2>5. Result' = Result
      BY <2>3 DEF Result
    <2>6. Service!Write(m)
      BY <1>3, <2>3, <2>4, <2>5 DEF Service!Write, Place, Result
    <2>. QED  BY <2>6 DEF Service!Next
  <1>5. CASE SameResults /\ written' = written
    BY <1>0, <1>3, <1>5 DEF SameResults, Result
  <1>6. ASSUME NEW k \in Msgs, CancelQueued(k)  PROVE FALSE
    BY <1>0, <1>6 DEF CancelQueued, Uncount
  <1>7. ASSUME NEW m \in Msgs, EndsAlone(m), written' = written,
               \/ spc[m] \in Fresh \/ completion[m] # "pending" \/ ~Owned(m)
               \/ spc[m] = "regather" \/ m \in CancellableTwice,
               spc'[m] = "ok" => completion[m] = "sent" /\ spc[m] = "shield"
        PROVE  Service!Next
    <2>1. ~Owned(m)
      BY <1>7 DEF ServiceInv, Custody, Attended, Waiting
    <2>2. Place[m] # "backlog" /\ Result[m] = "none"
      BY <1>7, <2>1, Places DEF Place, Result, EndsAlone
    <2>3. Result' = [Result EXCEPT ![m] = spc'[m]]
      BY <1>0, <1>7 DEF EndsAlone, Result
    <2>4. spc'[m] = "ok" => Place[m] = "gone" /\ written[m] = Parts
      <3>1. spc'[m] = "ok" => Accepted(m) /\ Complete(m)
        BY <1>7 DEF ServiceInv, AcceptedInv, WireInv, Waiting
      <3>. QED  BY <2>1, <3>1, Places DEF Place, Complete
    <2>5. Service!Return(m)
      BY <1>3, <1>7, <2>2, <2>3, <2>4 DEF Service!Return, Place, Result, EndsAlone, Ended
    <2>. QED  BY <2>5 DEF Service!Next
  <1>8. written' = written \/ \E w \in Writers, last \in Nat : Puts(w, last)
    BY WireSteps DEF Bystands, Goes, LetsGo, ServiceInv
  <1>. QED  BY <1>4, <1>5, <1>6, <1>7, <1>8, EndSteps DEF ServiceInv

\* RefinesSendService: the tasks, connections and failures of a peer implement the
\* bounded, borrow-safe service of SendService, for any number of messages and
\* connections, provided no cancelled send is cancelled again (comm.py:303-490).
THEOREM PeerImplementsService ==
  ASSUME CancellableTwice = {}
  PROVE  Spec => RefinesSendService
  <1>1. Init => Service!Init
    <2>. SUFFICES ASSUME Init  PROVE Service!Init
      OBVIOUS
    <2>1. \A m \in Msgs : ~Queued(m) /\ ~Active(m) /\ ~Accepted(m)
      BY PeerWriterAssumption DEF Init, Queued, Active, Accepted
    <2>. QED  BY <2>1 DEF Init, Service!Init, PlaceOf, Accepted, Ended
  <1>2. ServiceInv /\ ServiceInv' /\ [Next]_vars => [Service!Next]_<<Place, Result, written>>
    <2>. SUFFICES ASSUME ServiceInv, ServiceInv', [Next]_vars
                  PROVE  [Service!Next]_<<Place, Result, written>>
      OBVIOUS
    <2>1. CASE Held' = Held /\ UNCHANGED <<pendingMessages, pendingBytes>>
      BY <2>1, StayWrites
    <2>2. ASSUME NEW m \in Msgs \ Held, Held' = Held \cup {m}, Counts(m)
          PROVE  Service!Next
      <3>1. spc[m] \in Fresh /\ ~Full(m) /\ Enqueue(m)
        <4>1. Owned(m)' /\ ~Owned(m)
          BY <2>2, HeldIsOwned, HeldAfter DEF ServiceInv
        <4>2. Enqueue(m)
          BY <4>1, OwnedStep DEF ServiceInv
        <4>3. PICK n \in Msgs : spc[n] \in Fresh /\ ~Full(n) /\ Enqueue(n)
          <5>1. accepted \in Seq(Msgs) /\ accepted' = Append(accepted, m)
            BY <4>2 DEF Enqueue, ServiceInv, TypeInv, TypeOK
          <5>2. accepted' # accepted
            BY <5>1
          <5>. QED  BY <5>2, AcceptedSteps DEF ServiceInv
        <4>4. ~Owned(n) /\ Owned(n)'
          BY <4>3, EnqueueAccepts DEF ServiceInv, Custody
        <4>5. n = m
          BY <2>2, <4>4, HeldIsOwned, HeldAfter DEF ServiceInv
        <4>. QED  BY <4>3, <4>5
      <3>. QED  BY <3>1, JoinAccepts DEF Service!Next
    <2>3. ASSUME NEW m \in Held, Held' = Held \ {m}, Uncount(m)
          PROVE  Service!Next
      <3>1. m \in Msgs
        BY HeldIsOwned DEF ServiceInv
      <3>. QED  BY <2>3, <3>1, LeaveLeaves DEF Service!Next
    <2>. QED  BY <2>1, <2>2, <2>3, BacklogSteps DEF ServiceInv
  <1>3. Spec => []ServiceInv
    BY TypeInvariance, CustodyKept, AttendedKept, WireKept, AcceptedKept, BacklogKept, PTL DEF ServiceInv
  <1>. QED  BY <1>1, <1>2, <1>3, PTL DEF Spec, RefinesSendService, Service!Spec, Place, Result

---------------------------------------------------------------------------
(* One writer at a time: what holds while no send is cancelled             *)

Absent == {"none", "done"}

\* The peer's writer task is its only one, nobody cancels it before close() has emptied
\* the queue, and the byte scheduler is closed when it has ended.
SoleInv ==
    /\ \A m \in Msgs : spc[m] \notin {"gather", "regather", "settle"}
    /\ \A w \in Writers : wpc[w] \notin Absent => w = writerTask
    /\ \A w \in Writers : wcancel[w] \/ wpc[w] = "drop" => cpc \notin {"open", "drain"}
    /\ cpc \notin {"open", "drain"} => queue = <<>>
    /\ schedClosed => \A w \in Writers : wpc[w] \in Absent
    /\ \A w \in Writers : wpc[w] # "lock"

\* What a step of a writer leaves alone.
LEMMA WriterTouches ==
  ASSUME TypeInv, NEW w \in Writers, Writer(w)
  PROVE  /\ wpc[w] \notin Absent
         /\ spc' = spc \/ spc' = NotifySenders(spc)
         /\ UNCHANGED <<writerTask, spawned, cpc, accepted>>
         /\ \A v \in Writers \ {w} : wpc'[v] \in {wpc[v], NotifyWriters(wpc)[v]}
         /\ \A v \in Writers : wcancel'[v] => wcancel[v]
         /\ wpc'[w] = "drop" => wcancel[w]
         /\ wpc'[w] = "lock" => wpc[w] = "connect" /\ ~LockFree(Preferred)
         /\ queue' = queue \/ queue # <<>>
  <1>. USE DEF senderVars, queueVars, taskVars, closeVars, Absent
  <1>0. wpc \in [Writers -> WriterStates] /\ wcancel \in [Writers -> BOOLEAN]
    BY DEF TypeInv, TypeOK
  <1>1. ASSUME NEW o, NEW s \in {"top", "done"}, Release(w, o, s)
        PROVE  /\ spc' = NotifySenders(spc) /\ UNCHANGED <<writerTask, spawned, accepted, queue>>
               /\ wpc'[w] = s /\ \A v \in Writers \ {w} : wpc'[v] = NotifyWriters(wpc)[v]
               /\ cpc' = cpc
    BY <1>0, <1>1 DEF Release, NotifyWriters
  <1>2. CASE FindEmpty(w) \/ NeedDial(w) \/ ConnectLock(w) \/ DialOk(w) \/ WriteLock(w) \/ Acquire(w) \/ Grant(w)
             \/ DrainedPart(w)
    BY <1>0, <1>2 DEF FindEmpty, AtTop, Resumes, NeedDial, ConnectLock, DialOk, WriteLock, Acquire, Grant, DrainedPart,
       WriterMoves
  <1>3. CASE TakeNext(w)
    BY <1>0, <1>3 DEF TakeNext, AtTop, Resumes
  <1>4. CASE UsePreferred(w)
    BY <1>0, <1>4 DEF UsePreferred, WriterMoves
  <1>5. CASE DialFails(w) \/ AcquireRaises(w) \/ AcquireRefused(w) \/ DrainedFrame(w) \/ DrainFails(w) \/ Dropped(w)
    BY <1>1, <1>5 DEF DialFails, AcquireRaises, AcquireRefused, DrainedFrame, DrainFails, Dropped, Resumes
  <1>6. CASE CancelledAtOnce(w) \/ CancelledInDrop(w)
    BY <1>0, <1>1, <1>6 DEF CancelledAtOnce, CancelledInDrop
  <1>7. ASSUME NEW last, WritePart(w, last), wpc[w] \in {"locked", "granted"}
        PROVE  /\ spc' = spc \/ spc' = NotifySenders(spc)
               /\ UNCHANGED <<writerTask, spawned, cpc, accepted, queue, wcancel>>
               /\ \A v \in Writers \ {w} : wpc'[v] \in {wpc[v], NotifyWriters(wpc)[v]}
               /\ wpc'[w] \in {"drain", "done"}
    BY <1>0, <1>1, <1>7 DEF WritePart, WriterMoves
  <1>8. CASE WriteFrame(w) \/ WriteGranted(w)
    BY <1>7, <1>8 DEF WriteFrame, WriteGranted, Resumes
  <1>9. CASE CancelledIdle(w) \/ CancelledOnConnection(w)
    BY <1>0, <1>9 DEF CancelledIdle, CancelledOnConnection
  <1>. QED
    BY <1>2, <1>3, <1>4, <1>5, <1>6, <1>8, <1>9 DEF Writer

LEMMA SoleStep ==
  ASSUME Cancellable = {}, TypeInv, SoleInv, [Next]_vars
  PROVE  SoleInv'
  <1>. USE DEF senderVars, queueVars, taskVars, writerVars, closeVars, Absent
  <1>0. /\ wpc \in [Writers -> WriterStates] /\ wcancel \in [Writers -> BOOLEAN]
        /\ writerTask \in Writers \cup {0} /\ spc \in [Msgs -> SenderStates] /\ 0 \notin Writers
        /\ spawned \in Nat
    BY DEF TypeInv, TypeOK, Writers
  <1>1. ASSUME UNCHANGED <<spc, wpc, wcancel, writerTask, queue, cpc>>  PROVE SoleInv'
    BY <1>1 DEF SoleInv, schedClosed
  <1>2. ASSUME NEW m \in Msgs, Sender(m)  PROVE SoleInv'
    <2>1. ASSUME Enqueue(m), ~closed  PROVE SoleInv'
      <3>1. cpc = "open" /\ cpc' = "open"
        BY <2>1 DEF Enqueue, closed
      <3>2. wcancel' = wcancel /\ spc' = [NotifySenders(spc) EXCEPT ![m] = "shield"]
        BY <2>1 DEF Enqueue
      <3>3. \A n \in Msgs : spc'[n] \notin {"gather", "regather", "settle"}
        BY <1>0, <3>2 DEF NotifySenders, SoleInv
      <3>4. /\ NotifyWriters(wpc) \in [Writers -> WriterStates]
            /\ \A w \in Writers : /\ NotifyWriters(wpc)[w] \in Absent <=> wpc[w] \in Absent
                                  /\ NotifyWriters(wpc)[w] \notin {"drop", "lock"}
        BY <1>0, <3>1 DEF NotifyWriters, SoleInv, WriterStates
      <3>5. CASE NeedsWriter
        <4>1. \A w \in Writers : wpc[w] \in Absent
          BY <1>0, <3>5 DEF NeedsWriter, SoleInv
        <4>2. writerTask' = spawned + 1 /\ wpc' = [NotifyWriters(wpc) EXCEPT ![spawned + 1] = "start"]
          BY <2>1, <3>5 DEF Enqueue, SpawnWriter
        <4>3. \A w \in Writers : wpc'[w] \notin Absent => w = writerTask'
          BY <3>4, <4>1, <4>2
        <4>4. \A w \in Writers : wpc'[w] \notin {"drop", "lock"}
          BY <3>4, <4>2
        <4>. QED  BY <3>1, <3>2, <3>3, <4>3, <4>4 DEF SoleInv, schedClosed
      <3>6. CASE ~NeedsWriter
        <4>1. writerTask' = writerTask /\ wpc' = NotifyWriters(wpc)
          BY <2>1, <3>6 DEF Enqueue
        <4>. QED  BY <3>1, <3>2, <3>3, <3>4, <4>1 DEF SoleInv, schedClosed
      <3>. QED  BY <3>5, <3>6
    <2>2. ASSUME NEW s \in SenderStates \ {"gather", "regather", "settle"}, SenderMoves(m, s)  PROVE SoleInv'
      BY <1>0, <2>2 DEF SenderMoves, SoleInv, schedClosed
    <2>3. CASE SendAccepted(m) \/ CapacityFound(m)
      BY <2>1, <2>3 DEF SendAccepted, CapacityFound
    <2>4. CASE SendRefused(m) \/ SendWaits(m) \/ CapacityClosed(m) \/ CapacityStillFull(m) \/ SendReturns(m)
      BY <2>2, <2>4 DEF SendRefused, SendWaits, CapacityClosed, CapacityStillFull, SendReturns, SenderStates
    <2>. QED
      BY <1>2, <2>3, <2>4 DEF Sender, CapacityCancelled, CancelQueued, CancelActive, CancelFinished, CancelAgain, GatherDone,
         RegatherDone, SettleDone, SettleCancelled, SoleInv
  <1>3. ASSUME NEW w \in Writers, Writer(w)  PROVE SoleInv'
    <2>0. /\ wpc[w] \notin Absent
          /\ spc' = spc \/ spc' = NotifySenders(spc)
          /\ UNCHANGED <<writerTask, spawned, cpc, accepted>>
          /\ \A v \in Writers \ {w} : wpc'[v] \in {wpc[v], NotifyWriters(wpc)[v]}
          /\ \A v \in Writers : wcancel'[v] => wcancel[v]
          /\ wpc'[w] = "drop" => wcancel[w]
          /\ wpc'[w] = "lock" => wpc[w] = "connect" /\ ~LockFree(Preferred)
          /\ queue' = queue \/ queue # <<>>
      BY <1>3, WriterTouches
    <2>1. w = writerTask /\ \A v \in Writers \ {w} : wpc[v] \in Absent
      BY <2>0 DEF SoleInv
    <2>2. \A v \in Writers \ {w} : wpc'[v] = wpc[v]
      BY <1>0, <2>0, <2>1 DEF NotifyWriters
    <2>3. \A n \in Msgs : spc'[n] \notin {"gather", "regather", "settle"}
      BY <1>0, <2>0 DEF SoleInv, NotifySenders
    <2>4. wpc'[w] # "lock"
      BY <2>0, <2>1 DEF LockFree
    <2>5. \A v \in Writers : wcancel'[v] \/ wpc'[v] = "drop" => cpc' \notin {"open", "drain"}
      BY <2>0, <2>1, <2>2 DEF SoleInv
    <2>6. ~schedClosed' /\ (cpc' \notin {"open", "drain"} => queue' = <<>>)
      BY <2>0 DEF SoleInv, schedClosed
    <2>7. \A v \in Writers : wpc'[v] \notin Absent => v = writerTask'
      BY <2>0, <2>1, <2>2
    <2>8. \A v \in Writers : wpc'[v] # "lock"
      BY <2>1, <2>2, <2>4
    <2>. QED  BY <2>3, <2>5, <2>6, <2>7, <2>8 DEF SoleInv
  <1>4. ASSUME NEW c \in Conns, Connection(c)  PROVE SoleInv'
    BY <1>1, <1>4 DEF Connection, PeerConnects, ConnectionLost, ReaderDrops, FlushDone, ConnMoves
  <1>5. ASSUME Close  PROVE SoleInv'
    <2>1. CASE CloseStart \/ CloseFailsQueued
      BY <1>0, <2>1 DEF CloseStart, CloseFailsQueued, CloseMoves, SoleInv, schedClosed
    <2>2. CASE CloseCancelsWriter
      <3>1. /\ cpc' = "gather" /\ queue' = queue /\ queue = <<>> /\ writerTask' = writerTask
            /\ spc' = NotifySenders(spc) /\ wpc' = NotifyWriters(wpc)
        BY <2>2 DEF CloseCancelsWriter, CloseMoves
      <3>2. \A w \in Writers : (wpc'[w] \in Absent <=> wpc[w] \in Absent) /\ wpc'[w] # "lock"
        BY <1>0, <3>1 DEF NotifyWriters, SoleInv
      <3>3. \A n \in Msgs : spc'[n] \notin {"gather", "regather", "settle"}
        BY <1>0, <3>1 DEF SoleInv, NotifySenders
      <3>. QED  BY <3>1, <3>2, <3>3 DEF SoleInv, schedClosed
    <2>3. CASE CloseScheduler
      <3>1. \A w \in Writers : wpc[w] \in Absent
        BY <1>0, <2>3 DEF CloseScheduler, NeedsWriter, SoleInv
      <3>. QED  BY <2>3, <3>1 DEF CloseScheduler, CloseMoves, SoleInv, schedClosed
    <2>4. CASE CloseConnections \/ CloseReturns
      BY <2>4 DEF CloseConnections, CloseReturns, CloseMoves, SoleInv, schedClosed
    <2>. QED  BY <1>5, <2>1, <2>2, <2>3, <2>4 DEF Close
  <1>6. CASE UNCHANGED vars
    BY <1>1, <1>6 DEF vars
  <1>. QED  BY <1>2, <1>3, <1>4, <1>5, <1>6 DEF Next

LEMMA SoleKept ==
  ASSUME Cancellable = {}
  PROVE  Spec => []SoleInv
  <1>1. Init => SoleInv
    BY DEF Init, SoleInv, schedClosed, Absent
  <1>2. TypeInv /\ SoleInv /\ [Next]_vars => SoleInv'
    BY SoleStep
  <1>. QED  BY <1>1, <1>2, TypeInvariance, PTL DEF Spec

---------------------------------------------------------------------------
(* The order of the frames while no send is cancelled                      *)

\* How many of the accepted messages have left the queue.
Taken == Len(accepted) - Len(queue)

\* What is on the wire, or in the hands of the writer, has left the queue.
Reached ==
    \A n \in Msgs, k \in 1 .. Len(accepted) :
        accepted[k] = n /\ (OnWire(n) # {} \/ Active(n)) => k <= Taken

\* Nothing on the wire is later than what the writer has.
Behind ==
    \A n, p \in Msgs, k, a \in 1 .. Len(accepted) :
        accepted[k] = n /\ Active(n) /\ accepted[a] = p /\ OnWire(p) # {} => a <= k

\* The queue is the end of what was accepted, and the wire follows its order.
OrderInv ==
    /\ \A i, j \in 1 .. Len(accepted) : accepted[i] = accepted[j] => i = j
    /\ Taken \in Nat
    /\ \A i \in 1 .. Len(queue) : queue[i] = accepted[Taken + i]
    /\ Reached
    /\ Behind
    /\ Fifo

\* What a step does to the accepted messages, to the writer's message and to the log.
LEMMA OrderSteps ==
  ASSUME Cancellable = {}, TypeInv, SoleInv, [Next]_vars
  PROVE  \/ \E m \in Msgs : spc[m] \in Fresh /\ Enqueue(m) /\ UNCHANGED <<log, wmsg>>
         \/ \E w \in Writers : TakeNext(w) /\ UNCHANGED <<log, accepted>>
         \/ /\ UNCHANGED <<log, accepted>> /\ (queue' = queue \/ (queue # <<>> /\ queue' = Tail(queue)))
            /\ \A w \in Writers : wmsg'[w] \in {wmsg[w], NoMsg}
         \/ /\ UNCHANGED <<queue, accepted, wmsg>>
            /\ \E w \in Writers, last \in Nat : Puts(w, last)
  <1>0. wmsg \in [Writers -> Msgs \cup {NoMsg}]
    BY DEF TypeInv, TypeOK
  <1>1. CASE \E m \in Msgs : spc[m] \in Fresh /\ ~Full(m) /\ Enqueue(m)
    BY <1>1 DEF Enqueue, wireVars
  <1>2. CASE accepted' = accepted
    <2>1. ASSUME NEW w \in Writers, NEW last \in Nat, Puts(w, last)
          PROVE  UNCHANGED <<queue, accepted, wmsg>>
      BY <1>2, <2>1 DEF Puts
    <2>2. ASSUME \A w \in Writers, last \in Nat : ~Puts(w, last)
          PROVE  log' = log
      BY <2>2, WireSteps DEF Bystands, Goes, LetsGo
    <2>3. CASE UNCHANGED <<queue, pendingMessages, pendingBytes, wmsg>>
      BY <1>2, <2>1, <2>2, <2>3
    <2>4. ASSUME NEW m \in Msgs, Enqueue(m)  PROVE FALSE
      BY <1>2, <2>4 DEF Enqueue, TypeInv, TypeOK
    <2>5. ASSUME NEW m \in Msgs, CancelQueued(m)  PROVE FALSE
      BY <2>5 DEF CancelQueued
    <2>6. ASSUME NEW w \in Writers, TakeNext(w)  PROVE log' = log
      BY <2>6 DEF TakeNext, wireVars
    <2>7. ASSUME NEW w \in Writers, Releases(w)
          PROVE  queue' = queue /\ \A v \in Writers : wmsg'[v] \in {wmsg[v], NoMsg}
      BY <1>0, <2>7 DEF Releases, Release
    <2>8. CASE CloseFailsQueued
      BY <1>2, <2>8 DEF CloseFailsQueued, CloseMoves, wireVars
    <2>. QED  BY <1>2, <2>1, <2>2, <2>3, <2>4, <2>5, <2>6, <2>7, <2>8, QueueSteps
  <1>. QED  BY <1>1, <1>2, AcceptedSteps

LEMMA OrderStep ==
  ASSUME Cancellable = {}, TypeInv, Custody, WireInv, AcceptedInv, SoleInv, OrderInv, [Next]_vars
  PROVE  OrderInv'
  <1>0. /\ accepted \in Seq(Msgs) /\ queue \in Seq(Msgs) /\ Len(accepted) \in Nat /\ Len(queue) \in Nat
        /\ wmsg \in [Writers -> Msgs \cup {NoMsg}] /\ NoMsg \notin Msgs
        /\ \A k \in 1 .. Len(accepted) : accepted[k] \in Msgs
    BY PeerWriterAssumption DEF TypeInv, TypeOK
  <1>1. /\ \A i, j \in 1 .. Len(accepted) : accepted[i] = accepted[j] => i = j
        /\ Taken \in Nat
        /\ \A i \in 1 .. Len(queue) : queue[i] = accepted[Taken + i]
        /\ Reached /\ Behind
    BY DEF OrderInv
  \* A new message comes last.
  <1>2. ASSUME NEW m \in Msgs, spc[m] \in Fresh, Enqueue(m), UNCHANGED <<log, wmsg>>
        PROVE  OrderInv'
    <2>1. ~Accepted(m) /\ ~Active(m) /\ OnWire(m) = {}
      BY <1>2 DEF Custody, Owned, AcceptedInv, WireInv, Unwritten
    <2>2. /\ Len(accepted') = Len(accepted) + 1 /\ Len(queue') = Len(queue) + 1
          /\ \A k \in 1 .. Len(accepted') : (k = Len(accepted) + 1 /\ accepted'[k] = m)
                                            \/ (k \in 1 .. Len(accepted) /\ accepted'[k] = accepted[k])
          /\ \A k \in 1 .. Len(queue') : (k = Len(queue) + 1 /\ queue'[k] = m)
                                         \/ (k \in 1 .. Len(queue) /\ queue'[k] = queue[k])
          /\ accepted'[Len(accepted) + 1] = m /\ \A k \in 1 .. Len(accepted) : accepted'[k] = accepted[k]
      BY <1>0, <1>2 DEF Enqueue
    <2>3. Taken' = Taken
      BY <1>0, <2>2 DEF Taken
    <2>4. \A n : (OnWire(n)' = OnWire(n)) /\ (Active(n)' <=> Active(n))
      BY <1>2 DEF OnWire, Active
    <2>5. \A i, j \in 1 .. Len(accepted') : accepted'[i] = accepted'[j] => i = j
      BY <1>1, <2>1, <2>2 DEF Accepted
    <2>6. \A i \in 1 .. Len(queue') : queue'[i] = accepted'[Taken' + i]
      <3>1. SUFFICES ASSUME NEW i \in 1 .. Len(queue')  PROVE queue'[i] = accepted'[Taken + i]
        BY <2>3
      <3>2. CASE i = Len(queue) + 1
        <4>1. Taken + i = Len(accepted) + 1
          BY <1>0, <3>2 DEF Taken
        <4>. QED  BY <1>0, <2>2, <3>2, <4>1
      <3>3. CASE i \in 1 .. Len(queue) /\ queue'[i] = queue[i]
        <4>1. Taken + i \in 1 .. Len(accepted)
          BY <1>0, <1>1, <3>3 DEF Taken
        <4>. QED  BY <1>1, <2>2, <3>3, <4>1
      <3>. QED  BY <2>2, <3>2, <3>3
    <2>7. \A n \in Msgs, k \in 1 .. Len(accepted') :
            accepted'[k] = n /\ (OnWire(n)' # {} \/ Active(n)') => k \in 1 .. Len(accepted) /\ accepted[k] = n
      BY <2>1, <2>2, <2>4
    <2>8. Fifo'
      <3>1. SUFFICES ASSUME NEW i \in 1 .. Len(log), NEW j \in 1 .. Len(log), i < j,
                            NEW a \in 1 .. Len(accepted'), NEW b \in 1 .. Len(accepted'),
                            accepted'[a] = log[i].msg, accepted'[b] = log[j].msg
                     PROVE  a <= b
        BY <1>2 DEF Fifo
      <3>2. PICK n, p : n = log[i].msg /\ p = log[j].msg /\ OnWire(n) # {} /\ OnWire(p) # {}
        BY <3>1 DEF OnWire
      <3>3. /\ a \in 1 .. Len(accepted) /\ accepted'[a] = accepted[a]
            /\ b \in 1 .. Len(accepted) /\ accepted'[b] = accepted[b]
        BY <2>1, <2>2, <3>1, <3>2
      <3>. QED  BY <3>1, <3>3 DEF OrderInv, Fifo
    <2>9. Reached'
      BY <1>1, <2>3, <2>4, <2>7 DEF Reached
    <2>10. Behind'
      BY <1>1, <2>4, <2>7 DEF Behind
    <2>. QED  BY <1>1, <2>3, <2>5, <2>6, <2>8, <2>9, <2>10 DEF OrderInv
  \* The first message of the queue is the next of the accepted ones.
  <1>3. ASSUME queue # <<>>, queue' = Tail(queue), UNCHANGED <<log, accepted>>
        PROVE  /\ Taken' = Taken + 1 /\ Taken' \in Nat /\ Taken' \in 1 .. Len(accepted)
               /\ Head(queue) = accepted[Taken']
               /\ \A i \in 1 .. Len(queue') : queue'[i] = accepted'[Taken' + i]
               /\ Fifo'
    <2>1. /\ Len(queue') = Len(queue) - 1 /\ 1 \in 1 .. Len(queue) /\ Head(queue) = queue[1]
          /\ \A k \in 1 .. Len(queue') : k + 1 \in 1 .. Len(queue) /\ queue'[k] = queue[k + 1]
      BY <1>0, <1>3
    <2>2. Taken' = Taken + 1
      BY <1>0, <1>3, <2>1 DEF Taken
    <2>3. Taken + 1 \in 1 .. Len(accepted)
      BY <1>0, <1>1, <2>1 DEF Taken
    <2>4. \A i \in 1 .. Len(queue') : queue'[i] = accepted'[Taken' + i]
      <3>1. SUFFICES ASSUME NEW i \in 1 .. Len(queue')  PROVE queue'[i] = accepted[(Taken + 1) + i]
        BY <1>3, <2>2
      <3>2. (Taken + 1) + i = Taken + (i + 1)
        BY <1>1
      <3>. QED  BY <1>1, <2>1, <3>2
    <2>5. Fifo'
      BY <1>3 DEF OrderInv, Fifo
    <2>. QED  BY <1>1, <2>1, <2>2, <2>3, <2>4, <2>5
  <1>4. ASSUME NEW w \in Writers, TakeNext(w), UNCHANGED <<log, accepted>>
        PROVE  OrderInv'
    <2>1. /\ queue # <<>> /\ queue' = Tail(queue) /\ wmsg' = [wmsg EXCEPT ![w] = Head(queue)]
          /\ wpc[w] \notin Absent
      BY <1>4 DEF TakeNext, AtTop, Resumes, Absent
    <2>2. \A v \in Writers \ {w} : wmsg[v] = NoMsg
      BY <2>1 DEF SoleInv, TypeInv, WriterInv, Busy, Absent
    <2>3. \A n \in Msgs : Active(n)' => n = Head(queue)
      BY <1>0, <2>1, <2>2 DEF Active
    <2>4. \A n \in Msgs, k \in 1 .. Len(accepted) : accepted[k] = n /\ Active(n)' => k = Taken'
      BY <1>0, <1>1, <1>3, <1>4, <2>1, <2>3
    <2>5. \A n : OnWire(n)' = OnWire(n)
      BY <1>4 DEF OnWire
    <2>6. \A n \in Msgs, k \in 1 .. Len(accepted) : accepted[k] = n /\ OnWire(n) # {} => k <= Taken'
      BY <1>0, <1>1, <1>3, <1>4, <2>1 DEF Reached
    <2>7. Reached'
      BY <1>0, <1>3, <1>4, <2>1, <2>4, <2>5, <2>6 DEF Reached
    <2>8. Behind'
      BY <1>0, <1>4, <2>4, <2>5, <2>6 DEF Behind
    <2>. QED  BY <1>1, <1>3, <1>4, <2>1, <2>7, <2>8 DEF OrderInv
  <1>5. ASSUME UNCHANGED <<log, accepted>>, queue' = queue \/ (queue # <<>> /\ queue' = Tail(queue)),
               \A w \in Writers : wmsg'[w] \in {wmsg[w], NoMsg}
        PROVE  OrderInv'
    <2>1. \A n \in Msgs : OnWire(n)' = OnWire(n) /\ (Active(n)' => Active(n))
      BY <1>0, <1>5 DEF OnWire, Active
    <2>a. Behind'
      BY <1>1, <1>5, <2>1 DEF Behind
    <2>2. CASE queue' = queue
      <3>1. Taken' = Taken /\ Fifo'
        BY <1>5, <2>2 DEF Taken, OrderInv, Fifo
      <3>2. Reached'
        BY <1>1, <1>5, <2>1, <3>1 DEF Reached
      <3>. QED  BY <1>1, <1>5, <2>a, <2>2, <3>1, <3>2 DEF OrderInv
    <2>3. CASE queue # <<>> /\ queue' = Tail(queue)
      <3>1. \A k \in 1 .. Len(accepted) : k <= Taken => k <= Taken'
        BY <1>1, <1>3, <1>5, <2>3
      <3>2. Reached'
        BY <1>1, <1>5, <2>1, <3>1 DEF Reached
      <3>. QED  BY <1>1, <1>3, <1>5, <2>a, <2>3, <3>2 DEF OrderInv
    <2>. QED  BY <1>5, <2>2, <2>3
  <1>6. ASSUME NEW w \in Writers, NEW last \in Nat, Puts(w, last), UNCHANGED <<queue, accepted, wmsg>>
        PROVE  OrderInv'
    <2>1. PICK m \in Msgs, c \in Conns : m = wmsg[w] /\ c = wconn[w]
      BY <1>6, <1>0 DEF Puts, TypeInv, TypeOK, WriterInv, Busy, Connected
    <2>2. written[m] < last
      BY <1>0, <1>6, <2>1 DEF Puts, WireInv, Ready, TypeInv, TypeOK
    <2>3. /\ Len(log) \in Nat /\ Len(log') \in Nat
          /\ \A i \in 1 .. Len(log) : i \in 1 .. Len(log') /\ log'[i] = log[i]
          /\ \A i \in Len(log) + 1 .. Len(log') : log'[i].msg = m
      <3>1. Appended(m, c, last)
        BY <1>6, <2>1, <2>2, PutsLog
      <3>. QED  BY <3>1 DEF Appended
    <2>4. \A i \in 1 .. Len(log') : (i \in 1 .. Len(log) /\ log'[i] = log[i]) \/ (i > Len(log) /\ log'[i].msg = m)
      BY <2>3
    <2>5. \A n : (Active(n)' <=> Active(n)) /\ (OnWire(n)' # {} => OnWire(n) # {} \/ n = m)
      BY <1>6, <2>4 DEF Active, OnWire
    <2>6. Active(m) /\ \A n \in Msgs : Active(n) => n = m
      <3>1. wpc[w] \notin Absent
        BY <1>6 DEF Puts, Absent
      <3>2. \A v \in Writers \ {w} : wmsg[v] = NoMsg
        BY <3>1 DEF SoleInv, TypeInv, WriterInv, Busy, Absent
      <3>. QED  BY <1>0, <2>1, <3>2 DEF Active
    <2>7. Taken' = Taken
      BY <1>6 DEF Taken
    <2>8. Reached'
      BY <1>1, <1>6, <2>5, <2>6, <2>7 DEF Reached
    <2>a. Behind'
      <3>1. ASSUME NEW p \in Msgs, NEW k \in 1 .. Len(accepted), NEW a \in 1 .. Len(accepted),
                   accepted[k] = m, accepted[a] = p, OnWire(p)' # {}
            PROVE  a <= k
        <4>1. Behind /\ Len(accepted) \in Nat /\ (OnWire(p) # {} \/ p = m)
          BY <1>0, <1>1, <2>5, <3>1
        <4>2. CASE OnWire(p) # {}
          <5>1. a <= k
            BY <2>1, <2>6, <3>1, <4>1, <4>2 DEF Behind
          <5>. QED  BY <5>1
        <4>3. CASE p = m
          <5>1. k = a /\ k \in Nat
            BY <1>1, <3>1, <4>1, <4>3
          <5>. QED  BY <5>1
        <4>. QED  BY <4>1, <4>2, <4>3
      <3>2. SUFFICES ASSUME NEW n \in Msgs, NEW p \in Msgs, NEW k \in 1 .. Len(accepted),
                            NEW a \in 1 .. Len(accepted),
                            accepted[k] = n, Active(n)', accepted[a] = p, OnWire(p)' # {}
                     PROVE  a <= k
        BY <1>6 DEF Behind
      <3>3. n = m
        BY <2>5, <2>6, <3>2
      <3>. QED  BY <3>1, <3>2, <3>3
    <2>9. Fifo'
      <3>1. SUFFICES ASSUME NEW i \in 1 .. Len(log'), NEW j \in 1 .. Len(log'), i < j,
                            NEW a \in 1 .. Len(accepted), NEW b \in 1 .. Len(accepted),
                            accepted[a] = log'[i].msg, accepted[b] = log'[j].msg
                     PROVE  a <= b
        BY <1>6 DEF Fifo
      <3>2. CASE j > Len(log) /\ log'[j].msg = m
        <4>1. PICK n \in Msgs : n = accepted[a] /\ OnWire(n)' # {}
          BY <1>0, <3>1 DEF OnWire
        <4>2. accepted[b] = m /\ Active(m)'
          BY <2>5, <2>6, <3>1, <3>2
        <4>. QED  BY <1>6, <2>a, <4>1, <4>2 DEF Behind
      <3>3. CASE j \in 1 .. Len(log) /\ log'[j] = log[j]
        <4>1. i \in 1 .. Len(log) /\ log'[i] = log[i]
          BY <2>3, <2>4, <3>1, <3>3
        <4>. QED  BY <3>1, <3>3, <4>1 DEF OrderInv, Fifo
      <3>. QED  BY <2>4, <3>2, <3>3
    <2>. QED  BY <1>1, <1>6, <2>7, <2>8, <2>9, <2>a DEF OrderInv
  <1>. QED  BY <1>2, <1>4, <1>5, <1>6, OrderSteps

\* Fifo: while no send is cancelled, the frames start on the wire in the order in which
\* the queue accepted them, over whatever connections are lost, dialled or taken over
\* in between (comm.py:69, 365, 419).
THEOREM WireKeepsOrder ==
  ASSUME Cancellable = {}
  PROVE  Spec => []Fifo
  <1>1. Init => OrderInv
    BY DEF Init, OrderInv, Reached, Behind, Taken, Fifo
  <1>2. TypeInv /\ Custody /\ WireInv /\ AcceptedInv /\ SoleInv /\ OrderInv /\ [Next]_vars => OrderInv'
    BY OrderStep
  <1>3. OrderInv => Fifo
    BY DEF OrderInv
  <1>4. Spec => []SoleInv
    BY SoleKept
  <1>. QED
    BY <1>1, <1>2, <1>3, <1>4, TypeInvariance, CustodyKept, WireKept, AcceptedKept, PTL DEF Spec

---------------------------------------------------------------------------
(* The alignment of the frames while the peer has one writer at a time     *)

Writing(w) == wpc[w] \in Ready \cup {"drain"}

\* Entry i of the log is the last one on connection c.
LastOn(i, c) == log[i].conn = c /\ \A k \in i + 1 .. Len(log) : log[k].conn # c

\* Connection c ends with a whole frame, or carries nothing.
Level(c) == \A i \in 1 .. Len(log) : LastOn(i, c) => log[i].part = Parts

\* Connection c ends with part p of m.
EndsWith(c, m, p) == \E i \in 1 .. Len(log) : LastOn(i, c) /\ log[i].msg = m /\ log[i].part = p

\* Connection c was in use and no writer will be given it again.
Left(c) == c \notin registered /\ cstate[c] # "none"

\* The next part of m may follow on connection c: it goes on where c ends.
Follows(m, c) ==
    \/ Shut(c)
    \/ written[m] = 0 /\ Level(c)
    \/ EndsWith(c, m, written[m])

\* The writer task of the peer is the only one alive, so it never waits for a write
\* lock, and the byte scheduler is closed only when it has ended.
OneInv ==
    /\ \A w \in Writers : wpc[w] \notin Absent => w = writerTask
    /\ schedClosed => \A w \in Writers : wpc[w] \in Absent
    /\ \A w \in Writers : wpc[w] # "lock"
    /\ \A w \in Writers : wpc[w] \in Connected => cstate[wconn[w]] # "none"
    /\ \A c \in registered : cstate[c] # "none"

\* A writer goes on where its connection ends; a connection that ends with a
\* partial frame is in the hands of the writer of that frame, or no writer is
\* given it again.
AlignInv ==
    /\ \A w \in Writers, m \in Msgs, c \in Conns :
         Writing(w) /\ wmsg[w] = m /\ wconn[w] = c => Follows(m, c)
    /\ \A c \in Conns : Level(c) \/ Shut(c) \/ Left(c) \/ \E w \in Writers : Writing(w) /\ wconn[w] = c
    /\ WireAligned

\* A connection is never new again, and one that was dropped is never registered again.
LEMMA ConnsOnward ==
  ASSUME TypeInv, [Next]_vars, NEW c \in Conns
  PROVE  /\ cstate[c] # "none" => cstate'[c] # "none"
         /\ c \in registered' => c \in registered \/ (cstate[c] = "none" /\ cstate'[c] = "open")
  <1>. USE DEF connVars
  <1>0. cstate \in [Conns -> ConnStates]
    BY DEF TypeInv, TypeOK
  <1>1. ASSUME NEW w \in Writers, Writer(w)
        PROVE  /\ cstate[c] # "none" => cstate'[c] # "none"
               /\ c \in registered' => c \in registered \/ (cstate[c] = "none" /\ cstate'[c] = "open")
    <2>1. CASE DialOk(w)
      BY <1>0, <2>1 DEF DialOk
    <2>2. CASE CancelledOnConnection(w)
      BY <1>0, <2>2 DEF CancelledOnConnection, AfterClose
    <2>3. CASE DrainFails(w) \/ CancelledAtOnce(w)
      BY <2>3 DEF DrainFails, CancelledAtOnce
    <2>4. CASE ~DialOk(w) /\ ~CancelledOnConnection(w) /\ ~DrainFails(w) /\ ~CancelledAtOnce(w)
      BY <1>1, <2>4 DEF Writer, FindEmpty, TakeNext, UsePreferred, NeedDial, ConnectLock, DialFails, WriteLock, WriteFrame,
         Acquire, AcquireRaises, AcquireRefused, Grant, WriteGranted, DrainedPart, DrainedFrame, CancelledIdle,
         Dropped, CancelledInDrop, WritePart
    <2>. QED  BY <2>1, <2>2, <2>3, <2>4
  <1>2. ASSUME NEW m \in Msgs, Sender(m)  PROVE UNCHANGED <<registered, cstate>>
    BY <1>2 DEF Sender, SendRefused, SendWaits, SendAccepted, CapacityClosed, CapacityStillFull,
       CapacityFound, CapacityCancelled, SendReturns, CancelActive, CancelFinished, CancelAgain, CancelQueued,
       GatherDone, RegatherDone, SettleDone, SettleCancelled, SenderMoves, Restart, Enqueue
  <1>3. ASSUME NEW d \in Conns, Connection(d)
        PROVE  /\ cstate[c] # "none" => cstate'[c] # "none"
               /\ c \in registered' => c \in registered \/ (cstate[c] = "none" /\ cstate'[c] = "open")
    BY <1>0, <1>3 DEF Connection, PeerConnects, ConnectionLost, ReaderDrops, FlushDone, ConnMoves, AfterClose
  <1>4. ASSUME Close  PROVE registered' = registered /\ (cstate[c] # "none" => cstate'[c] # "none")
    <2>1. CASE CloseConnections
      BY <1>0, <2>1 DEF CloseConnections, AfterClose, CloseMoves
    <2>. QED  BY <1>4, <2>1 DEF Close, CloseStart, CloseFailsQueued, CloseCancelsWriter, CloseScheduler, CloseReturns, CloseMoves
  <1>5. CASE UNCHANGED vars
    BY <1>5 DEF vars
  <1>. QED  BY <1>1, <1>2, <1>3, <1>4, <1>5 DEF Next

\* What a step of anything but a writer does to the writers.
LEMMA OthersTouch ==
  ASSUME TypeInv,
         \/ \E m \in Msgs : Sender(m)
         \/ \E c \in Conns : Connection(c)
         \/ Close
         \/ UNCHANGED vars
  PROVE  /\ UNCHANGED <<wconn, wmsg>>
         /\ \/ /\ writerTask' = writerTask
               /\ \A w \in Writers : wpc'[w] \in {wpc[w], NotifyWriters(wpc)[w]}
            \/ /\ ~closed /\ cpc' = cpc /\ spawned + 1 \in Writers /\ writerTask' = spawned + 1
               /\ wpc'[spawned + 1] = "start"
               /\ \A w \in Writers : w # spawned + 1 => wpc'[w] \in {wpc[w], NotifyWriters(wpc)[w]}
         /\ schedClosed' => schedClosed \/ (NeedsWriter /\ UNCHANGED <<wpc, writerTask>>)
  <1>. USE DEF writerVars, taskVars, closeVars, schedClosed
  <1>0. wpc \in [Writers -> WriterStates] /\ spawned \in Nat
    BY DEF TypeInv, TypeOK
  <1>1. ASSUME UNCHANGED <<wconn, wmsg, writerTask, wpc, cpc>>
        PROVE  /\ UNCHANGED <<wconn, wmsg>>
               /\ writerTask' = writerTask /\ \A w \in Writers : wpc'[w] \in {wpc[w], NotifyWriters(wpc)[w]}
               /\ schedClosed' => schedClosed
    BY <1>1
  <1>2. ASSUME NEW pc \in {wpc, NotifyWriters(wpc)}, SpawnWriter(pc)
        PROVE  /\ spawned + 1 \in Writers /\ writerTask' = spawned + 1
               /\ wpc'[spawned + 1] = "start"
               /\ \A w \in Writers : w # spawned + 1 => wpc'[w] \in {wpc[w], NotifyWriters(wpc)[w]}
    <2>1. spawned + 1 \in Writers /\ pc \in [Writers -> WriterStates]
      BY <1>0, <1>2, PeerWriterAssumption DEF SpawnWriter, Writers, NotifyWriters, WriterStates
    <2>. QED  BY <1>2, <2>1 DEF SpawnWriter
  <1>3. ASSUME NEW m \in Msgs, Sender(m)
        PROVE  /\ UNCHANGED <<wconn, wmsg, cpc>>
               /\ \/ /\ writerTask' = writerTask
                     /\ \A w \in Writers : wpc'[w] \in {wpc[w], NotifyWriters(wpc)[w]}
                  \/ /\ ~closed /\ spawned + 1 \in Writers /\ writerTask' = spawned + 1
                     /\ wpc'[spawned + 1] = "start"
                     /\ \A w \in Writers : w # spawned + 1 => wpc'[w] \in {wpc[w], NotifyWriters(wpc)[w]}
    <2>1. ASSUME Enqueue(m), ~closed
          PROVE  /\ UNCHANGED <<wconn, wmsg, cpc>>
                 /\ SpawnWriter(NotifyWriters(wpc)) \/ (writerTask' = writerTask /\ wpc' = NotifyWriters(wpc))
      BY <2>1 DEF Enqueue
    <2>2. ASSUME Restart(m)
          PROVE  /\ UNCHANGED <<wconn, wmsg, cpc>>
                 /\ (~closed /\ SpawnWriter(wpc)) \/ UNCHANGED <<wpc, writerTask>>
      BY <2>2 DEF Restart
    <2>3. CASE SendAccepted(m) \/ CapacityFound(m)
      BY <1>2, <2>1, <2>3 DEF SendAccepted, CapacityFound
    <2>4. CASE GatherDone(m) \/ SettleDone(m)
      BY <1>2, <2>2, <2>4 DEF GatherDone, SettleDone, SenderMoves
    <2>5. CASE CancelQueued(m)
      BY <2>5 DEF CancelQueued
    <2>6. CASE \/ SendRefused(m) \/ SendWaits(m) \/ CapacityClosed(m) \/ CapacityStillFull(m)
               \/ CapacityCancelled(m) \/ SendReturns(m) \/ CancelActive(m) \/ CancelFinished(m)
               \/ CancelAgain(m) \/ RegatherDone(m) \/ SettleCancelled(m)
      BY <2>6 DEF SendRefused, SendWaits, CapacityClosed, CapacityStillFull, CapacityCancelled,
         SendReturns, CancelActive, CancelFinished, CancelAgain, RegatherDone, SettleCancelled, SenderMoves
    <2>. QED  BY <1>3, <2>3, <2>4, <2>5, <2>6 DEF Sender
  <1>4. ASSUME NEW c \in Conns, Connection(c)  PROVE UNCHANGED <<wconn, wmsg, writerTask, wpc, cpc>>
    BY <1>4 DEF Connection, PeerConnects, ConnectionLost, ReaderDrops, FlushDone, ConnMoves
  <1>5. ASSUME Close
        PROVE  /\ UNCHANGED <<wconn, wmsg, writerTask>>
               /\ \A w \in Writers : wpc'[w] \in {wpc[w], NotifyWriters(wpc)[w]}
               /\ schedClosed' => schedClosed \/ (NeedsWriter /\ UNCHANGED <<wpc, writerTask>>)
    BY <1>5 DEF Close, CloseStart, CloseFailsQueued, CloseCancelsWriter, CloseScheduler, CloseConnections, CloseReturns,
       CloseMoves
  <1>6. CASE UNCHANGED vars
    BY <1>1, <1>6 DEF vars
  <1>. QED  BY <1>1, <1>3, <1>4, <1>5, <1>6

\* A writer that gets a write lock has it on a registered connection or on a new one.
LEMMA LocksOpen ==
  ASSUME TypeInv, [Next]_vars, NEW w \in Writers, wpc[w] \in Early, wpc'[w] = "locked"
  PROVE  wpc[w] = "lock" \/ wconn'[w] \in registered \/ (cstate[wconn'[w]] = "none" /\ cstate'[wconn'[w]] = "open")
  <1>0. wpc \in [Writers -> WriterStates] /\ cstate \in [Conns -> ConnStates] /\ registered \subseteq Conns
        /\ wconn \in [Writers -> Conns \cup {0}]
    BY DEF TypeInv, TypeOK
  <1>1. NotifyWriters(wpc)[w] = wpc[w] /\ wpc[w] \notin {"locked", "start"}
    BY <1>0 DEF NotifyWriters, Early
  <1>2. CASE \/ \E m \in Msgs : Sender(m)
             \/ \E c \in Conns : Connection(c)
             \/ Close
             \/ UNCHANGED vars
    BY <1>1, <1>2, OthersTouch
  <1>3. ASSUME NEW v \in Writers, v # w, Writer(v)  PROVE FALSE
    <2>1. wpc'[w] \in {wpc[w], NotifyWriters(wpc)[w]}
      BY <1>3, WriterTouches
    <2>. QED  BY <1>1, <2>1
  <1>4. CASE Writer(w)
    <2>1. CASE UsePreferred(w)
      <3>1. Preferred \in registered /\ wconn'[w] = Preferred
        BY <1>0, <2>1, PreferredType DEF UsePreferred
      <3>. QED  BY <3>1
    <2>2. CASE DialOk(w)
      BY <1>0, <2>2 DEF DialOk
    <2>3. CASE FindEmpty(w) \/ NeedDial(w) \/ ConnectLock(w)
      BY <1>0, <2>3 DEF FindEmpty, AtTop, Resumes, NeedDial, ConnectLock, WriterMoves
    <2>4. CASE WriteLock(w) \/ DrainedPart(w) \/ Acquire(w) \/ Grant(w)
      BY <2>4 DEF WriteLock, DrainedPart, Acquire, Grant, Resumes, Early
    <2>5. ASSUME NEW o, NEW s \in {"top", "done"}, Release(w, o, s)  PROVE FALSE
      BY <1>0, <2>5 DEF Release, NotifyWriters
    <2>6. CASE DialFails(w) \/ AcquireRaises(w) \/ AcquireRefused(w) \/ DrainedFrame(w) \/ DrainFails(w) \/ Dropped(w)
               \/ CancelledAtOnce(w) \/ CancelledInDrop(w)
      BY <2>5, <2>6 DEF DialFails, AcquireRaises, AcquireRefused, DrainedFrame, DrainFails, Dropped, CancelledAtOnce,
         CancelledInDrop
    <2>7. CASE WriteFrame(w) \/ WriteGranted(w) \/ CancelledIdle(w) \/ CancelledOnConnection(w) \/ TakeNext(w)
      BY <2>7 DEF WriteFrame, WriteGranted, Resumes, CancelledIdle, CancelledOnConnection, TakeNext, AtTop, Early
    <2>. QED  BY <1>4, <2>1, <2>2, <2>3, <2>4, <2>6, <2>7 DEF Writer
  <1>. QED  BY <1>2, <1>3, <1>4 DEF Next

\* A writer that is cancelled while it uses a connection drops it.
LEMMA DropsLeave ==
  ASSUME TypeInv, [Next]_vars, NEW w \in Writers, wpc[w] # "drop", wpc'[w] = "drop"
  PROVE  wconn[w] \notin registered' /\ cstate'[wconn[w]] # "none"
  <1>0. /\ wpc \in [Writers -> WriterStates] /\ cstate \in [Conns -> ConnStates]
        /\ wpc[w] \in Connected => wconn[w] \in Conns
    BY DEF TypeInv, TypeOK, WriterInv
  <1>1. NotifyWriters(wpc)[w] # "drop"
    BY <1>0 DEF NotifyWriters
  <1>2. CASE \/ \E m \in Msgs : Sender(m)
             \/ \E c \in Conns : Connection(c)
             \/ Close
             \/ UNCHANGED vars
    BY <1>1, <1>2, OthersTouch
  <1>3. ASSUME NEW v \in Writers, v # w, Writer(v)  PROVE FALSE
    <2>1. wpc'[w] \in {wpc[w], NotifyWriters(wpc)[w]}
      BY <1>3, WriterTouches
    <2>. QED  BY <1>1, <2>1
  <1>4. CASE Writer(w)
    <2>1. CASE CancelledOnConnection(w)
      BY <1>0, <2>1 DEF CancelledOnConnection, AfterClose, Connected
    <2>2. ASSUME NEW s, WriterMoves(w, s), s # "drop"  PROVE FALSE
      BY <1>0, <2>2 DEF WriterMoves
    <2>3. ASSUME NEW o, NEW s \in {"top", "done"}, Release(w, o, s)  PROVE FALSE
      BY <1>0, <2>3 DEF Release, NotifyWriters
    <2>4. CASE FindEmpty(w) \/ UsePreferred(w) \/ NeedDial(w) \/ ConnectLock(w) \/ DialOk(w) \/ WriteLock(w)
               \/ Acquire(w) \/ Grant(w) \/ DrainedPart(w)
      BY <2>2, <2>4 DEF FindEmpty, UsePreferred, NeedDial, ConnectLock, DialOk, WriteLock, Acquire, Grant, DrainedPart
    <2>5. CASE DialFails(w) \/ AcquireRaises(w) \/ AcquireRefused(w) \/ DrainedFrame(w) \/ DrainFails(w) \/ Dropped(w)
               \/ CancelledAtOnce(w) \/ CancelledInDrop(w)
      BY <2>3, <2>5 DEF DialFails, AcquireRaises, AcquireRefused, DrainedFrame, DrainFails, Dropped, CancelledAtOnce,
         CancelledInDrop
    <2>6. CASE WriteFrame(w) \/ WriteGranted(w)
      BY <2>2, <2>3, <2>6 DEF WriteFrame, WriteGranted, WritePart
    <2>7. CASE CancelledIdle(w) \/ TakeNext(w)
      BY <1>0, <2>7 DEF CancelledIdle, TakeNext
    <2>. QED  BY <1>4, <2>1, <2>4, <2>5, <2>6, <2>7 DEF Writer
  <1>. QED  BY <1>2, <1>3, <1>4 DEF Next

LEMMA OneStep ==
  ASSUME TypeInv, OneInv, Sole, Sole', [Next]_vars
  PROVE  OneInv'
  <1>. USE DEF Absent
  <1>0. /\ wpc \in [Writers -> WriterStates] /\ writerTask \in Writers \cup {0} /\ 0 \notin Writers
        /\ \A w \in Writers : NotifyWriters(wpc)[w] \in Absent <=> wpc[w] \in Absent
        /\ \A w \in Writers : NotifyWriters(wpc)[w] = wpc[w] \/ NotifyWriters(wpc)[w] = "awake"
        /\ \A w \in Writers : wpc[w] \in Connected => wconn[w] \in Conns
        /\ \A w \in Writers : wmsg[w] # NoMsg <=> wpc[w] \in Busy
        /\ registered \subseteq Conns
    BY DEF TypeInv, TypeOK, WriterInv, NotifyWriters, Writers
  \* The connections: none is new again.
  <1>1. \A c \in Conns : cstate[c] # "none" => cstate'[c] # "none"
    BY ConnsOnward
  <1>2. \A c \in registered' : cstate'[c] # "none"
    <2>1. SUFFICES ASSUME NEW c \in registered'  PROVE cstate'[c] # "none"
      OBVIOUS
    <2>2. c \in Conns
      BY TypeStep DEF TypeInv, TypeOK
    <2>. QED  BY <1>1, <2>1, <2>2, ConnsOnward DEF OneInv
  \* The writers, in a step of one of them and in every other step.
  <1>3. ASSUME NEW w \in Writers, Writer(w)
        PROVE  /\ \A v \in Writers : wpc'[v] \notin Absent => v = writerTask'
               /\ schedClosed' => \A v \in Writers : wpc'[v] \in Absent
               /\ \A v \in Writers : wpc'[v] # "lock"
               /\ \A v \in Writers \ {w} : wpc'[v] = wpc[v] /\ wpc[v] \in Absent
    <2>1. /\ wpc[w] \notin Absent
          /\ UNCHANGED <<writerTask, spawned, cpc, accepted>>
          /\ \A v \in Writers \ {w} : wpc'[v] \in {wpc[v], NotifyWriters(wpc)[v]}
          /\ wpc'[w] = "lock" => wpc[w] = "connect" /\ ~LockFree(Preferred)
      BY <1>3, WriterTouches
    <2>2. w = writerTask /\ \A v \in Writers \ {w} : wpc[v] \in Absent
      BY <2>1 DEF OneInv
    <2>3. \A v \in Writers \ {w} : wpc'[v] = wpc[v]
      BY <1>0, <2>1, <2>2
    <2>4. wpc'[w] # "lock"
      BY <2>1, <2>2 DEF LockFree
    <2>5. ~schedClosed'
      BY <2>1 DEF OneInv, schedClosed
    <2>. QED  BY <2>1, <2>2, <2>3, <2>4, <2>5
  <1>4. ASSUME \/ \E m \in Msgs : Sender(m)
               \/ \E c \in Conns : Connection(c)
               \/ Close
               \/ UNCHANGED vars
        PROVE  /\ \A v \in Writers : wpc'[v] \notin Absent => v = writerTask'
               /\ schedClosed' => \A v \in Writers : wpc'[v] \in Absent
               /\ \A v \in Writers : wpc'[v] # "lock"
    <2>1. /\ \/ /\ writerTask' = writerTask
                /\ \A w \in Writers : wpc'[w] \in {wpc[w], NotifyWriters(wpc)[w]}
             \/ /\ ~closed /\ cpc' = cpc /\ spawned + 1 \in Writers /\ writerTask' = spawned + 1
                /\ wpc'[spawned + 1] = "start"
                /\ \A w \in Writers : w # spawned + 1 => wpc'[w] \in {wpc[w], NotifyWriters(wpc)[w]}
          /\ schedClosed' => schedClosed \/ (NeedsWriter /\ UNCHANGED <<wpc, writerTask>>)
      BY <1>4, OthersTouch
    <2>2. CASE /\ writerTask' = writerTask
               /\ \A w \in Writers : wpc'[w] \in {wpc[w], NotifyWriters(wpc)[w]}
      <3>1. \A v \in Writers : wpc'[v] \notin Absent => wpc[v] \notin Absent
        BY <1>0, <2>2
      <3>2. \A v \in Writers : wpc'[v] # "lock"
        BY <1>0, <2>2 DEF OneInv
      <3>3. schedClosed' => \A v \in Writers : wpc[v] \in Absent
        <4>1. NeedsWriter => \A v \in Writers : wpc[v] \in Absent
          BY <1>0 DEF NeedsWriter, OneInv
        <4>. QED  BY <2>1, <4>1 DEF OneInv
      <3>. QED  BY <2>2, <3>1, <3>2, <3>3 DEF OneInv
    <2>3. CASE /\ ~closed /\ cpc' = cpc /\ spawned + 1 \in Writers /\ writerTask' = spawned + 1
               /\ wpc'[spawned + 1] = "start"
               /\ \A w \in Writers : w # spawned + 1 => wpc'[w] \in {wpc[w], NotifyWriters(wpc)[w]}
      <3>1. \A v \in Writers : wpc'[v] \notin Absent => v = spawned + 1
        BY <2>3 DEF Sole, Live
      <3>2. \A v \in Writers : wpc'[v] # "lock"
        BY <1>0, <2>3 DEF OneInv
      <3>3. ~schedClosed'
        BY <2>3 DEF closed, schedClosed
      <3>. QED  BY <2>3, <3>1, <3>2, <3>3
    <2>. QED  BY <2>1, <2>2, <2>3
  <1>5. /\ \A v \in Writers : wpc'[v] \notin Absent => v = writerTask'
        /\ schedClosed' => \A v \in Writers : wpc'[v] \in Absent
        /\ \A v \in Writers : wpc'[v] # "lock"
    BY <1>3, <1>4 DEF Next
  \* The connection of a writer.
  <1>6. ASSUME NEW w \in Writers, wpc'[w] \in Connected  PROVE cstate'[wconn'[w]] # "none"
    <2>1. CASE wpc[w] \in Connected /\ wconn'[w] = wconn[w]
      BY <1>0, <1>1, <2>1 DEF OneInv
    <2>2. CASE wpc[w] \in Early /\ wpc'[w] = "locked" /\ wconn'[w] \in Conns
      BY <1>0, <1>1, <2>2, LocksOpen DEF OneInv
    <2>4. wmsg'[w] # NoMsg
      BY <1>6, TypeStep DEF TypeInv, WriterInv, Connected, Busy
    <2>5. CASE Bystands
      <3>1. wmsg[w] # NoMsg /\ wpc'[w] = wpc[w] /\ wconn'[w] = wconn[w]
        BY <2>4, <2>5 DEF Bystands
      <3>. QED  BY <1>6, <2>1, <3>1
    <2>6. ASSUME NEW v \in Writers, Alone(v), v # w  PROVE wpc[w] \in Connected /\ wconn'[w] = wconn[w]
      BY <1>6, <2>4, <2>6 DEF Alone
    <2>7. CASE TakeNext(w)
      BY <1>0, <1>6, <2>7 DEF TakeNext, Connected
    <2>8. CASE LetsGo(w)
      BY <1>0, <1>6, <2>8 DEF LetsGo, Release, NotifyWriters, Connected
    <2>9. CASE Goes(w)
      <3>1. wpc'[w] # "lock"
        BY <1>5
      <3>. QED  BY <1>6, <2>1, <2>2, <2>9, <3>1 DEF Goes, Early, Ready, Connected
    <2>10. ASSUME NEW last \in Nat, Puts(w, last)  PROVE wpc[w] \in Connected /\ wconn'[w] = wconn[w]
      BY <2>10 DEF Puts, Connected
    <2>. QED  BY <2>1, <2>5, <2>6, <2>7, <2>8, <2>9, <2>10, WireSteps
  <1>. QED  BY <1>2, <1>5, <1>6 DEF OneInv

\* A step that leaves the log and the parts written leaves the ends of the connections.
LEMMA SameEnds ==
  ASSUME TypeInv, [Next]_vars, log' = log, WireAligned
  PROVE  /\ \A c \in Conns : (Level(c) => Level(c)') /\ (Shut(c) => Shut(c)')
         /\ \A c \in Conns, m \in Msgs, p \in Nat : EndsWith(c, m, p) => EndsWith(c, m, p)'
         /\ WireAligned'
  <1>1. \A c \in Conns : Shut(c) => Shut(c)'
    BY ShutStays DEF Shut
  <1>. QED  BY <1>1 DEF Level, EndsWith, LastOn, WireAligned, NextOn, Continues

\* The parts a writer gives to an open transport follow what its connection ended with.
LEMMA PutsFollow ==
  ASSUME TypeInv, NEW w \in Writers, NEW last \in Nat, Puts(w, last), NEW m \in Msgs, m = wmsg[w],
         NEW c \in Conns, c = wconn[w], written[m] < last, cstate[c] # "lost", Whole(m, c),
         (written[m] = 0 /\ Level(c)) \/ EndsWith(c, m, written[m]), WireAligned
  PROVE  /\ EndsWith(c, m, last)'
         /\ \A d \in Conns \ {c} : Level(d) => Level(d)'
         /\ WireAligned'
  <1>0. /\ written' = [written EXCEPT ![m] = last] /\ written[m] \in Nat
        /\ Len(log) \in Nat /\ Len(log') \in Nat
        /\ \A i \in 1 .. Len(log) : i \in 1 .. Len(log') /\ log'[i] = log[i]
        /\ cstate[c] # "lost" => Len(log') = Len(log) + (last - written[m])
        /\ cstate[c] = "lost" => log' = log
        /\ \A i \in Len(log) + 1 .. Len(log') :
              log'[i].conn = c /\ log'[i].msg = m /\ log'[i].part = written[m] + (i - Len(log))
    <2>1. Appended(m, c, last)
      BY PutsLog
    <2>. QED  BY <2>1 DEF Appended
  <1>. DEFINE N == Len(log)
              p == written[m]
  <1>1. /\ p \in Nat /\ N \in Nat /\ Len(log') = N + (last - p)
        /\ \A i \in 1 .. N : log'[i] = log[i]
        /\ \A i \in N + 1 .. Len(log') : log'[i].conn = c /\ log'[i].msg = m /\ log'[i].part = p + (i - N)
        /\ written'[m] = last /\ last - p \in Nat \ {0}
    <2>2. written'[m] = last
      BY <1>0 DEF TypeInv, TypeOK
    <2>3. Len(log') = Len(log) + (last - written[m]) /\ \A i \in 1 .. Len(log) : log'[i] = log[i]
      BY <1>0
    <2>4. last - written[m] \in Nat \ {0}
      BY <1>0
    <2>. QED  BY <1>0, <2>2, <2>3, <2>4
  <1>2. Parts \in Nat \ {0}
    BY PeerWriterAssumption
  <1>3. EndsWith(c, m, p) => p >= 1
    <2>1. ASSUME NEW i \in 1 .. Len(log), log[i].msg = m, log[i].part = p  PROVE p \in 1 .. p
      BY <2>1 DEF Whole, OnWire
    <2>. QED  BY <1>1, <2>1 DEF EndsWith
  <1>. HIDE DEF N, p
  <1>4. EndsWith(c, m, last)'
    <2>1. PICK e \in Nat : e = Len(log') /\ e \in N + 1 .. Len(log') /\ e \in 1 .. e /\ p + (e - N) = last
      BY <1>1
    <2>2. log'[e].conn = c /\ log'[e].msg = m /\ log'[e].part = last
      BY <1>1, <2>1
    <2>3. LastOn(e, c)'
      BY <2>1, <2>2 DEF LastOn
    <2>. QED  BY <2>1, <2>2, <2>3 DEF EndsWith
  <1>5. ASSUME NEW d \in Conns \ {c}, Level(d)  PROVE Level(d)'
    <2>1. SUFFICES ASSUME NEW i \in 1 .. Len(log'), LastOn(i, d)'  PROVE log'[i].part = Parts
      BY DEF Level
    <2>2. i \in 1 .. N /\ \A k \in i + 1 .. N : k \in i + 1 .. Len(log')
      BY <1>1, <2>1 DEF LastOn
    <2>3. LastOn(i, d)
      BY <1>1, <2>1, <2>2 DEF LastOn, N
    <2>. QED  BY <1>1, <1>5, <2>2, <2>3 DEF Level, N
  <1>6. ASSUME NEW j \in 1 .. N
        PROVE  /\ (\A i \in 1 .. j - 1 : log'[i].conn # log'[j].conn) => log'[j].part = 1
               /\ \A i \in 1 .. j - 1 : NextOn(i, j)' => Continues(i, j)'
    <2>1. \A i \in 1 .. j - 1 : i \in 1 .. N /\ \A k \in i + 1 .. j - 1 : k \in 1 .. N
      BY <1>1
    <2>2. log'[j] = log[j] /\ \A i \in 1 .. j - 1 : log'[i] = log[i]
      BY <1>1, <2>1
    <2>3. \A i \in 1 .. j - 1 : (NextOn(i, j)' <=> NextOn(i, j)) /\ (Continues(i, j)' <=> Continues(i, j))
      <3>1. \A i \in 1 .. j - 1 : \A k \in i + 1 .. j - 1 : log'[k] = log[k]
        BY <1>1, <2>1
      <3>. QED  BY <2>2, <3>1 DEF NextOn, Continues
    <2>. QED  BY <2>2, <2>3 DEF WireAligned, N
  <1>7. ASSUME NEW j \in 1 .. Len(log'), j = N + 1
        PROVE  /\ (\A i \in 1 .. j - 1 : log'[i].conn # log'[j].conn) => log'[j].part = 1
               /\ \A i \in 1 .. j - 1 : NextOn(i, j)' => Continues(i, j)'
    <2>1. log'[j].conn = c /\ log'[j].msg = m /\ log'[j].part = p + 1
      BY <1>1, <1>7
    <2>2. (\A i \in 1 .. N : log[i].conn # c) => p = 0
      BY DEF EndsWith, LastOn, N, p
    <2>3. ASSUME NEW i \in 1 .. N, NextOn(i, j)'
          PROVE  Continues(i, j)'
      <3>1. LastOn(i, c)
        <4>1. log'[i].conn = c /\ \A k \in i + 1 .. N : log'[k].conn # c
          BY <1>1, <1>7, <2>1, <2>3 DEF NextOn
        <4>2. \A k \in i + 1 .. N : k \in 1 .. N
          BY <1>1
        <4>. QED  BY <1>1, <4>1, <4>2 DEF LastOn, N
      <3>2. CASE p = 0 /\ Level(c)
        <4>1. log'[i].part = Parts
          BY <1>1, <3>1, <3>2 DEF Level, N
        <4>. QED  BY <2>1, <3>2, <4>1 DEF Continues
      <3>3. CASE EndsWith(c, m, p)
        <4>1. PICK l \in 1 .. N : LastOn(l, c) /\ log[l].msg = m /\ log[l].part = p
          BY <3>3 DEF EndsWith, N
        <4>2. l = i
          BY <1>1, <3>1, <4>1 DEF LastOn, N
        <4>. QED  BY <1>1, <1>3, <2>1, <3>3, <4>1, <4>2 DEF Continues
      <3>. QED  BY <3>2, <3>3 DEF p
    <2>4. j - 1 = N
      BY <1>1, <1>7
    <2>5. \A i \in 1 .. N : log'[i].conn = log[i].conn
      BY <1>1
    <2>6. (\A i \in 1 .. N : log'[i].conn # log'[j].conn) => log'[j].part = 1
      <3>1. SUFFICES ASSUME \A i \in 1 .. N : log'[i].conn # log'[j].conn
                     PROVE  log'[j].part = 1
        OBVIOUS
      <3>2. \A i \in 1 .. N : log[i].conn # c
        BY <2>1, <2>5, <3>1
      <3>3. p = 0
        BY <2>2, <3>2
      <3>. QED  BY <2>1, <3>3
    <2>. QED  BY <2>3, <2>4, <2>6
  <1>8. ASSUME NEW j \in 1 .. Len(log'), j > N + 1
        PROVE  /\ (\A i \in 1 .. j - 1 : log'[i].conn # log'[j].conn) => log'[j].part = 1
               /\ \A i \in 1 .. j - 1 : NextOn(i, j)' => Continues(i, j)'
    <2>1. /\ j \in N + 1 .. Len(log') /\ j - 1 \in N + 1 .. Len(log') /\ j - 1 \in 1 .. j - 1
          /\ \A i \in 1 .. j - 1 : i = j - 1 \/ j - 1 \in i + 1 .. j - 1
      BY <1>1, <1>8
    <2>2. /\ log'[j].conn = c /\ log'[j].msg = m /\ log'[j].part = p + (j - N)
          /\ log'[j - 1].conn = c /\ log'[j - 1].msg = m /\ log'[j - 1].part = p + (j - 1 - N)
      BY <1>1, <2>1
    <2>3. \A i \in 1 .. j - 1 : NextOn(i, j)' => i = j - 1
      BY <2>1, <2>2 DEF NextOn
    <2>4. Continues(j - 1, j)'
      BY <1>1, <1>8, <2>2 DEF Continues
    <2>. QED  BY <2>1, <2>2, <2>3, <2>4
  <1>9. WireAligned'
    <2>1. \A j \in 1 .. Len(log') : j \in 1 .. N \/ j = N + 1 \/ j > N + 1
      BY <1>1
    <2>. QED  BY <1>6, <1>7, <1>8, <2>1 DEF WireAligned
  <1>. QED  BY <1>4, <1>5, <1>9

LEMMA AlignStep ==
  ASSUME TypeInv, TypeInv', WireInv, OneInv, AlignInv, [Next]_vars
  PROVE  AlignInv'
  <1>. DEFINE Parted(c) == Level(c) \/ Shut(c) \/ Left(c)
  <1>0. /\ \A w \in Writers : Writing(w) => wmsg[w] \in Msgs /\ wconn[w] \in Conns
        /\ \A w \in Writers : wmsg[w] # NoMsg <=> wpc[w] \in Busy
        /\ \A w \in Writers : wmsg'[w] # NoMsg <=> wpc'[w] \in Busy
        /\ wmsg \in [Writers -> Msgs \cup {NoMsg}] /\ NoMsg \notin Msgs /\ written \in [Msgs -> Nat]
    BY PeerWriterAssumption DEF TypeInv, TypeOK, WriterInv, Writing, Ready, Busy, Connected
  <1>1. \A w \in Writers : (Writing(w) => wmsg[w] # NoMsg) /\ (Writing(w)' => wmsg'[w] # NoMsg)
    BY <1>0 DEF Writing, Ready, Busy
  <1>2. /\ \A c \in Conns : Parted(c) \/ \E w \in Writers : Writing(w) /\ wconn[w] = c
        /\ \A c \in Conns : Left(c) => Left(c)'
        /\ WireAligned
    BY ConnsOnward DEF AlignInv, Left
  <1>3. ASSUME log' = log, written' = written
        PROVE  /\ \A c \in Conns : Parted(c) => Parted(c)'
               /\ \A m \in Msgs, c \in Conns : Follows(m, c) => Follows(m, c)'
               /\ WireAligned'
    <2>1. /\ \A c \in Conns : (Level(c) => Level(c)') /\ (Shut(c) => Shut(c)')
          /\ \A c \in Conns, m \in Msgs, p \in Nat : EndsWith(c, m, p) => EndsWith(c, m, p)'
          /\ WireAligned'
      BY <1>2, <1>3, SameEnds
    <2>2. \A c \in Conns : Parted(c) => Parted(c)'
      BY <1>2, <2>1
    <2>. QED  BY <1>0, <1>3, <2>1, <2>2 DEF Follows
  \* What there is to show of a step that writes nothing.
  <1>a. ASSUME log' = log, written' = written,
               \A w \in Writers, m \in Msgs, c \in Conns :
                  Writing(w)' /\ wmsg'[w] = m /\ wconn'[w] = c => Follows(m, c),
               \A c \in Conns : Parted(c) \/ \E w \in Writers : Writing(w)' /\ wconn'[w] = c
        PROVE  AlignInv'
    <2>1. \A c \in Conns : Level(c)' \/ Shut(c)' \/ Left(c)' \/ \E w \in Writers : Writing(w)' /\ wconn'[w] = c
      BY <1>3, <1>a
    <2>2. \A w \in Writers, m \in Msgs, c \in Conns :
             Writing(w)' /\ wmsg'[w] = m /\ wconn'[w] = c => Follows(m, c)'
      <3>1. SUFFICES ASSUME NEW w \in Writers, NEW m \in Msgs, NEW c \in Conns,
                            Writing(w)', wmsg'[w] = m, wconn'[w] = c
                     PROVE  Follows(m, c)'
        OBVIOUS
      <3>2. Follows(m, c)
        BY <1>a, <3>1
      <3>. QED  BY <1>3, <1>a, <3>2
    <2>. QED  BY <1>3, <1>a, <2>1, <2>2 DEF AlignInv
  <1>b. \A w \in Writers, m \in Msgs, c \in Conns :
           Writing(w) /\ wmsg[w] = m /\ wconn[w] = c => Follows(m, c)
    BY DEF AlignInv
  <1>4. CASE Bystands
    <2>1. /\ log' = log /\ written' = written /\ wmsg' = wmsg
          /\ \A w \in Writers : Writing(w) \/ Writing(w)' => Writing(w) /\ Writing(w)' /\ wconn'[w] = wconn[w]
      BY <1>1, <1>4 DEF Bystands, Writing
    <2>2. \A c \in Conns : Parted(c) \/ \E w \in Writers : Writing(w)' /\ wconn'[w] = c
      BY <1>2, <2>1
    <2>. QED  BY <1>a, <1>b, <2>1, <2>2
  <1>5. ASSUME NEW w \in Writers, Alone(w), wpc[w] \notin Absent
        PROVE  \A v \in Writers : v # w => ~Writing(v) /\ ~Writing(v)'
    <2>1. \A v \in Writers : v # w => wpc[v] \in Absent
      BY <1>5 DEF OneInv
    <2>2. \A v \in Writers : v # w => wmsg[v] = NoMsg
      BY <1>0, <2>1 DEF Absent, Busy
    <2>. QED  BY <1>1, <1>5, <2>2 DEF Alone
  \* No writer writes after the step, and the connection of the one that did is level or shut.
  <1>6. ASSUME NEW w \in Writers, Alone(w), wpc[w] \notin Absent, log' = log, written' = written, ~Writing(w)',
               Writing(w) => Parted(wconn[w]) \/ (wconn'[w] = wconn[w] /\ Left(wconn[w])')
        PROVE  AlignInv'
    <2>1. \A v \in Writers : ~Writing(v)' /\ (v # w => ~Writing(v))
      BY <1>5, <1>6
    <2>2. \A c \in Conns : Parted(c) \/ Left(c)'
      <3>1. SUFFICES ASSUME NEW c \in Conns, ~Parted(c)  PROVE Left(c)'
        OBVIOUS
      <3>2. Writing(w) /\ wconn[w] = c
        BY <1>2, <2>1, <3>1
      <3>. QED  BY <1>6, <3>1, <3>2 DEF Left
    <2>. QED  BY <1>3, <1>6, <2>1, <2>2 DEF AlignInv
  \* The writer writes before and after the step.
  <1>7. ASSUME NEW w \in Writers, Alone(w), wpc[w] \notin Absent, log' = log, written' = written, Writing(w), Writing(w)',
               wmsg' = wmsg, wconn'[w] = wconn[w]
        PROVE  AlignInv'
    <2>1. \A v \in Writers : (Writing(v)' => v = w) /\ (Writing(v) => v = w)
      BY <1>5, <1>7
    <2>2. \A c \in Conns : Parted(c) \/ \E v \in Writers : Writing(v)' /\ wconn'[v] = c
      BY <1>2, <1>7, <2>1
    <2>. QED  BY <1>a, <1>b, <1>7, <2>1, <2>2
  <1>8. ASSUME NEW w \in Writers, Alone(w), TakeNext(w), UNCHANGED <<log, written>>
        PROVE  AlignInv'
    <2>1. wpc[w] \notin Absent /\ ~Writing(w) /\ ~Writing(w)'
      BY <1>8 DEF TakeNext, AtTop, Resumes, Absent, Writing, Ready, TypeInv, TypeOK
    <2>. QED  BY <1>6, <1>8, <2>1
  <1>9. ASSUME NEW w \in Writers, Alone(w), Goes(w)
        PROVE  AlignInv'
    <2>1. log' = log /\ written' = written /\ wmsg' = wmsg /\ wpc[w] \notin Absent
      BY <1>9 DEF Goes, Early, Ready, Connected, Absent
    <2>2. CASE wpc[w] \in Early /\ wpc'[w] \in Early
      BY <1>6, <1>9, <2>1, <2>2 DEF Early, Writing, Ready
    <2>3. CASE wpc[w] \in Early /\ wpc'[w] = "locked" /\ wconn'[w] \in Conns
      <3>1. PICK c \in Conns, m \in Msgs : c = wconn'[w] /\ m = wmsg[w]
        BY <1>0, <2>3 DEF Early, Busy
      <3>2. written[m] = 0
        BY <1>0, <2>3, <3>1 DEF WireInv, Unwritten
      <3>3. \A v \in Writers : ~Writing(v) /\ (Writing(v)' => v = w)
        BY <1>5, <1>9, <2>1, <2>3 DEF Writing, Early, Ready
      <3>4. ~Left(c)
        BY <2>3, <3>1, LocksOpen DEF Left, OneInv
      <3>5. Level(c) \/ Shut(c)
        BY <1>2, <3>3, <3>4
      <3>6. Follows(m, c)
        BY <3>2, <3>5 DEF Follows
      <3>7. \A d \in Conns : Parted(d)
        BY <1>2, <3>3
      <3>. QED  BY <1>a, <2>1, <3>1, <3>3, <3>6, <3>7
    <2>4. CASE Writing(w) /\ Writing(w)' /\ wconn'[w] = wconn[w]
      BY <1>7, <1>9, <2>1, <2>4
    <2>5. CASE wpc'[w] = "drop"
      <3>1. Writing(w) => wconn'[w] = wconn[w] /\ Left(wconn[w])'
        <4>1. Writing(w) => wpc[w] # "drop"
          BY DEF Writing, Ready
        <4>2. wconn'[w] = wconn[w]
          BY <1>9, <2>5 DEF Goes, Early, Ready
        <4>. QED  BY <2>5, <4>1, <4>2, DropsLeave DEF Left
      <3>. QED  BY <1>6, <1>9, <2>1, <2>5, <3>1 DEF Writing, Ready
    <2>. QED  BY <1>9, <2>2, <2>3, <2>4, <2>5 DEF Goes, Writing, Ready
  <1>10. ASSUME NEW w \in Writers, Alone(w), LetsGo(w)
         PROVE  AlignInv'
    <2>1. PICK o \in {"pending", "failed", "sent"}, s \in {"top", "done"} :
            /\ Release(w, o, s)
            /\ o = "sent" => wpc[w] = "drain" /\ cstate[wconn[w]] # "lost" /\ written[wmsg[w]] = Parts
            /\ o # "sent" /\ wpc[w] \in Ready \cup {"drain"} => Shut(wconn[w]) \/ Refused(w)
      BY <1>10 DEF LetsGo
    <2>2. log' = log /\ written' = written /\ wpc[w] \notin Absent /\ ~Writing(w)'
      BY <1>10, <2>1 DEF LetsGo, Release, Busy, Absent, Writing, Ready, NotifyWriters, TypeInv, TypeOK
    <2>3. ~Refused(w)
      BY <2>2 DEF Refused, OneInv, Absent
    <2>4. ASSUME Writing(w)  PROVE Parted(wconn[w])
      <3>1. PICK c \in Conns, m \in Msgs : c = wconn[w] /\ m = wmsg[w] /\ Follows(m, c)
        BY <1>0, <2>4 DEF AlignInv
      <3>2. CASE o = "sent"
        <4>1. written[m] = Parts /\ Parts # 0
          BY <2>1, <3>1, <3>2, PeerWriterAssumption
        <4>2. EndsWith(c, m, Parts) => Level(c)
          <5>1. \A i, j \in 1 .. Len(log) : LastOn(i, c) /\ LastOn(j, c) => i = j
            <6>1. \A i, j \in 1 .. Len(log) : i = j \/ j \in i + 1 .. Len(log) \/ i \in j + 1 .. Len(log)
              BY DEF TypeInv, TypeOK
            <6>. QED  BY <6>1 DEF LastOn
          <5>. QED  BY <5>1 DEF EndsWith, Level
        <4>. QED  BY <3>1, <4>1, <4>2 DEF Follows
      <3>3. CASE o # "sent"
        BY <2>1, <2>3, <2>4, <3>3 DEF Writing
      <3>. QED  BY <3>2, <3>3
    <2>. QED  BY <1>6, <1>10, <2>2, <2>4
  <1>11. ASSUME NEW w \in Writers, NEW last \in Nat, Alone(w), Puts(w, last)
         PROVE  AlignInv'
    <2>1. /\ wpc[w] \notin Absent /\ wpc[w] \in Ready /\ Writing(w) /\ Writing(w)' /\ wmsg' = wmsg /\ wconn' = wconn
          /\ UNCHANGED cstate
      BY <1>11 DEF Puts, Absent, Writing, Ready
    <2>2. PICK m \in Msgs, c \in Conns : m = wmsg[w] /\ c = wconn[w]
      BY <1>0, <2>1
    <2>3. written[m] < last /\ Whole(m, c) /\ written' = [written EXCEPT ![m] = last] /\ cstate[c] # "flushed"
      BY <1>0, <1>1, <1>11, <2>1, <2>2 DEF Puts, WireInv
    <2>4. \A v \in Writers : Writing(v) \/ Writing(v)' => v = w
      BY <1>5, <1>11, <2>1 DEF Writing, Ready, Absent
    <2>5. \A d \in Conns \ {c} : Level(d) \/ Shut(d) \/ Left(d)
      BY <1>2, <2>2, <2>4
    <2>6. CASE cstate[c] = "lost"
      <3>1. log' = log
        BY <1>11, <2>2, <2>6 DEF Puts
      <3>2. /\ \A d \in Conns : (Level(d) => Level(d)') /\ (Shut(d) => Shut(d)')
            /\ WireAligned'
        BY <1>2, <3>1, SameEnds
      <3>3. Follows(m, c)'
        BY <2>1, <2>6 DEF Follows, Shut
      <3>. QED  BY <1>2, <2>1, <2>2, <2>4, <2>5, <3>2, <3>3 DEF AlignInv
    <2>7. CASE cstate[c] # "lost"
      <3>1. (written[m] = 0 /\ Level(c)) \/ EndsWith(c, m, written[m])
        BY <2>1, <2>2, <2>3, <2>7 DEF AlignInv, Follows, Shut
      <3>2. /\ EndsWith(c, m, last)'
            /\ \A d \in Conns \ {c} : Level(d) => Level(d)'
            /\ WireAligned'
        BY <1>2, <1>11, <2>2, <2>3, <2>7, <3>1, PutsFollow
      <3>3. Follows(m, c)'
        <4>1. written'[m] = last
          BY <1>0, <2>3
        <4>. QED  BY <3>2, <4>1 DEF Follows
      <3>4. \A d \in Conns : Shut(d) => Shut(d)'
        BY <2>1 DEF Shut
      <3>. QED  BY <1>2, <2>1, <2>2, <2>4, <2>5, <3>2, <3>3, <3>4 DEF AlignInv
    <2>. QED  BY <2>6, <2>7
  <1>. QED  BY <1>4, <1>8, <1>9, <1>10, <1>11, WireSteps

\* AlignedWhileSole: while the peer has one writer at a time, whatever is cancelled, lost,
\* dialled or closed, a connection carries whole frames, the last one perhaps unfinished: a
\* cancelled writer drops the connection it may have left a part on (comm.py:424, 437, 494).
THEOREM WireStaysAligned == Spec => AlignedWhileSole
  <1>1. Init => AlignInv /\ OneInv
    BY DEF Init, AlignInv, OneInv, Sole, Live, Writing, Ready, Level, WireAligned, Connected, schedClosed, Absent
  <1>2. TypeInv /\ TypeInv' /\ WireInv /\ OneInv /\ AlignInv /\ [Next]_vars => AlignInv'
    BY AlignStep
  <1>3. TypeInv /\ OneInv /\ Sole /\ Sole' /\ [Next]_vars => OneInv'
    BY OneStep
  <1>4. AlignInv => WireAligned
    BY DEF AlignInv
  <1>5. Spec => []TypeInv
    BY TypeInvariance
  <1>6. Spec => []WireInv
    BY WireKept
  <1>. QED  BY <1>1, <1>2, <1>3, <1>4, <1>5, <1>6, PTL DEF Spec, AlignedWhileSole

\* WireAligned: while no send is cancelled the peer has one writer at a time, so that every
\* behaviour keeps its connections aligned.
THEOREM UncancelledAligned ==
  ASSUME Cancellable = {}
  PROVE  Spec => []WireAligned
  <1>1. SoleInv => Sole
    BY DEF SoleInv, Sole, Live, Absent
  <1>2. Spec => []SoleInv
    BY SoleKept
  <1>. QED  BY <1>1, <1>2, WireStaysAligned, PTL DEF AlignedWhileSole

---------------------------------------------------------------------------
(* A writer for what is queued, while no send is cancelled                 *)

\* The connection can be written to: its transport takes the part or discards it.
Usable(c) == cstate[c] \in {"open", "lost"}

\* Before close(), a queue with messages has a writer, and no writer meets a transport
\* that raises an error nobody handles: connections are never lost, or, without a byte
\* scheduler, a writer writes a whole frame before anything else can happen.
ServedInv == cpc = "open" =>
    /\ queue # <<>> => \E w \in Writers : wpc[w] \notin Absent
    /\ writerTask # 0 => wpc[writerTask] # "none"
    /\ ~MayFail => \A c \in Conns : cstate[c] \in {"none", "open"}
    /\ ~Paced =>
         /\ \A c \in registered : Usable(c)
         /\ \A w \in Writers : wpc[w] \notin {"grant", "granted"}
         /\ \A w \in Writers, c \in Conns : wpc[w] = "locked" /\ wconn[w] = c => Usable(c)
         /\ \A w \in Writers, m \in Msgs : wpc[w] = "drain" /\ wmsg[w] = m => written[m] = Parts

\* A writer in use goes on with what it has (or takes another message), and the connections are fit for it.
LEMMA WriterServes ==
  ASSUME Cancellable = {}, Paced => ~MayFail, TypeInv, SoleInv, ServedInv, cpc = "open",
         NEW w \in Writers, Writer(w)
  PROVE  /\ wpc'[w] \notin Absent
         /\ ~MayFail => \A c \in Conns : cstate'[c] \in {"none", "open"}
         /\ ~Paced =>
              /\ \A c \in registered' : Usable(c)'
              /\ wpc'[w] \notin {"grant", "granted"}
              /\ \A c \in Conns : wpc'[w] = "locked" /\ wconn'[w] = c => Usable(c)'
              /\ \A m \in Msgs : wpc'[w] = "drain" /\ wmsg'[w] = m => written'[m] = Parts
  <1>. USE DEF connVars, wireVars, Usable
  <1>0. /\ wpc \in [Writers -> WriterStates] /\ wconn \in [Writers -> Conns \cup {0}] /\ cstate \in [Conns -> ConnStates]
        /\ wmsg \in [Writers -> Msgs \cup {NoMsg}] /\ written \in [Msgs -> Nat] /\ registered \subseteq Conns
        /\ wpc[w] \in Connected => wconn[w] \in Conns
        /\ wpc[w] \in Busy => wmsg[w] \in Msgs
    BY DEF TypeInv, TypeOK, WriterInv
  <1>1. /\ ~MayFail => \A c \in Conns : cstate[c] \in {"none", "open"}
        /\ ~Paced =>
             /\ \A c \in registered : Usable(c)
             /\ wpc[w] \notin {"grant", "granted"}
             /\ \A c \in Conns : wpc[w] = "locked" /\ wconn[w] = c => Usable(c)
             /\ \A m \in Msgs : wpc[w] = "drain" /\ wmsg[w] = m => written[m] = Parts
    BY DEF ServedInv
  <1>2. ~wcancel[w] /\ wpc[w] \notin {"drop", "lock"} /\ ~schedClosed /\ ~closed
    BY DEF SoleInv, schedClosed, closed
  <1>. DEFINE Serves ==
         /\ wpc'[w] \notin Absent
         /\ ~MayFail => \A c \in Conns : cstate'[c] \in {"none", "open"}
         /\ ~Paced =>
              /\ \A c \in registered' : cstate'[c] \in {"open", "lost"}
              /\ wpc'[w] \notin {"grant", "granted"}
              /\ \A c \in Conns : wpc'[w] = "locked" /\ wconn'[w] = c => cstate'[c] \in {"open", "lost"}
              /\ \A m \in Msgs : wpc'[w] = "drain" /\ wmsg'[w] = m => written'[m] = Parts
  <1>3. ASSUME cstate' = cstate, registered' \subseteq registered,
               wpc'[w] \in {"idle", "top", "connect", "connlock", "dial", "lock"}
        PROVE  Serves
    BY <1>1, <1>3 DEF Absent
  <1>4. CASE FindEmpty(w) \/ TakeNext(w) \/ NeedDial(w) \/ ConnectLock(w)
    BY <1>0, <1>2, <1>3, <1>4 DEF FindEmpty, TakeNext, NeedDial, ConnectLock, WriterMoves
  <1>5. ASSUME NEW o, Release(w, o, "top")
        PROVE  wpc'[w] = "top"
    BY <1>0, <1>5 DEF Release, NotifyWriters
  <1>6. CASE DialFails(w) \/ DrainedFrame(w) \/ DrainFails(w)
    BY <1>3, <1>5, <1>6 DEF DialFails, DrainedFrame, DrainFails
  <1>7. CASE UsePreferred(w)
    <2>1. Preferred \in registered
      BY <1>0, <1>7, PreferredType DEF UsePreferred
    <2>2. /\ wpc'[w] \in {"locked", "lock"} /\ wconn'[w] = Preferred
          /\ cstate' = cstate /\ registered' = registered
      BY <1>0, <1>7, <2>1 DEF UsePreferred, WriterMoves
    <2>. HIDE DEF Preferred
    <2>. QED  BY <1>1, <2>1, <2>2 DEF Absent
  <1>8. CASE DialOk(w)
    <2>1. PICK c \in Conns : /\ cstate' = [cstate EXCEPT ![c] = "open"] /\ registered' = registered \cup {c}
                             /\ wconn' = [wconn EXCEPT ![w] = c]
      BY <1>8 DEF DialOk
    <2>2. wpc'[w] = "locked" /\ wconn'[w] = c
      BY <1>0, <1>8, <2>1 DEF DialOk, WriterMoves
    <2>3. \A d \in Conns : cstate'[d] = IF d = c THEN "open" ELSE cstate[d]
      BY <1>0, <2>1
    <2>. QED  BY <1>0, <1>1, <2>1, <2>2, <2>3 DEF Absent
  <1>9. CASE Paced /\ (Acquire(w) \/ Grant(w) \/ DrainedPart(w))
    BY <1>0, <1>1, <1>9 DEF Acquire, Grant, DrainedPart, WriterMoves, Absent
  <1>10. CASE WriteFrame(w) \/ WriteGranted(w)
    <2>1. PICK c \in Conns, m \in Msgs : c = wconn[w] /\ m = wmsg[w] /\ wpc[w] \in {"locked", "granted"}
      BY <1>0, <1>10 DEF WriteFrame, WriteGranted, Resumes, Connected, Busy
    <2>2. cstate[c] # "flushed"
      BY <1>0, <1>1, <2>1
    <2>3. /\ wpc'[w] = "drain" /\ cstate' = cstate /\ registered' = registered /\ wmsg' = wmsg
          /\ WriteFrame(w) => written'[m] = Parts
      BY <1>0, <1>10, <2>1, <2>2 DEF WriteFrame, WriteGranted, WritePart, WriterMoves
    <2>4. ~Paced => WriteFrame(w)
      BY <1>1, <1>10 DEF WriteGranted, Resumes
    <2>. QED  BY <1>1, <2>1, <2>3, <2>4 DEF Absent
  <1>11. ~AcquireRaises(w)
    BY DEF AcquireRaises, SoleInv, Absent
  <1>12. /\ ~WriteLock(w) /\ ~AcquireRefused(w) /\ ~CancelledIdle(w) /\ ~CancelledAtOnce(w)
         /\ ~CancelledOnConnection(w) /\ ~Dropped(w) /\ ~CancelledInDrop(w)
    BY <1>2 DEF WriteLock, AcquireRefused, CancelledIdle, CancelledAtOnce, CancelledOnConnection, Dropped,
       CancelledInDrop, Resumes
  <1>13. ~Paced => ~Acquire(w) /\ ~Grant(w) /\ ~DrainedPart(w)
    BY <1>0, <1>1, PeerWriterAssumption DEF Acquire, Grant, DrainedPart, Resumes, Busy
  <1>. QED
    BY <1>4, <1>6, <1>7, <1>8, <1>9, <1>10, <1>11, <1>12, <1>13 DEF Writer

\* While one task is between two suspension points, the connections stay as they are.
LEMMA ServedStep ==
  ASSUME Cancellable = {}, Paced => ~MayFail, TypeInv, SoleInv, SoleInv', ServedInv, [Next]_vars
  PROVE  ServedInv'
  <1>. USE DEF senderVars, queueVars, taskVars, writerVars, wireVars, connVars, closeVars
  <1>0. /\ wpc \in [Writers -> WriterStates] /\ cstate \in [Conns -> ConnStates] /\ spawned \in Nat
        /\ writerTask \in Writers \cup {0} /\ 0 \notin Writers /\ registered \subseteq Conns
    BY DEF TypeInv, TypeOK, Writers
  <1>1. SUFFICES ASSUME cpc' = "open"  PROVE ServedInv'
    BY DEF ServedInv
  <1>2. ASSUME UNCHANGED <<queue, wpc, writerTask, cstate, registered, wconn, wmsg, written, cpc>>
        PROVE  ServedInv'
    BY <1>2 DEF ServedInv, Usable
  <1>3. ASSUME NEW m \in Msgs, Sender(m)  PROVE ServedInv'
    <2>1. ASSUME Enqueue(m), ~closed  PROVE ServedInv'
      <3>1. cpc = "open" /\ UNCHANGED <<cstate, registered, wconn, wmsg, written>>
        BY <2>1 DEF Enqueue, closed
      <3>2. /\ NotifyWriters(wpc) \in [Writers -> WriterStates]
            /\ \A w \in Writers : /\ NotifyWriters(wpc)[w] = wpc[w]
                                     \/ (wpc[w] = "idle" /\ NotifyWriters(wpc)[w] = "awake")
        BY <1>0 DEF NotifyWriters, WriterStates
      <3>3. CASE NeedsWriter
        <4>1. /\ spawned + 1 \in Writers /\ writerTask' = spawned + 1
              /\ wpc' = [NotifyWriters(wpc) EXCEPT ![spawned + 1] = "start"]
          BY <1>0, <2>1, <3>3, PeerWriterAssumption DEF Enqueue, SpawnWriter, Writers
        <4>2. /\ wpc'[writerTask'] = "start" /\ writerTask' \in Writers
              /\ \A w \in Writers : wpc'[w] \in {"locked", "drain", "grant", "granted"} => wpc'[w] = wpc[w]
          BY <3>2, <4>1
        <4>. QED  BY <1>1, <3>1, <4>2 DEF ServedInv, Usable, Absent
      <3>4. CASE ~NeedsWriter
        <4>1. /\ writerTask \in Writers /\ wpc[writerTask] \notin Absent /\ writerTask' = writerTask
              /\ wpc' = NotifyWriters(wpc)
          BY <1>0, <2>1, <3>1, <3>4 DEF Enqueue, NeedsWriter, ServedInv, Absent
        <4>2. /\ wpc'[writerTask] \notin Absent
              /\ \A w \in Writers : wpc'[w] \in {"locked", "drain", "grant", "granted"} => wpc'[w] = wpc[w]
          BY <3>2, <4>1 DEF Absent
        <4>. QED  BY <1>1, <3>1, <4>1, <4>2 DEF ServedInv, Usable, Absent
      <3>. QED  BY <3>3, <3>4
    <2>2. ASSUME NEW s, SenderMoves(m, s)  PROVE ServedInv'
      BY <1>2, <2>2 DEF SenderMoves
    <2>3. CASE SendAccepted(m) \/ CapacityFound(m)
      BY <2>1, <2>3 DEF SendAccepted, CapacityFound
    <2>4. CASE SendRefused(m) \/ SendWaits(m) \/ CapacityClosed(m) \/ CapacityStillFull(m) \/ SendReturns(m)
      BY <2>2, <2>4 DEF SendRefused, SendWaits, CapacityClosed, CapacityStillFull, SendReturns
    <2>. QED
      BY <1>3, <2>3, <2>4 DEF Sender, CapacityCancelled, CancelQueued, CancelActive, CancelFinished, CancelAgain, GatherDone,
         RegatherDone, SettleDone, SettleCancelled, SoleInv
  <1>4. ASSUME NEW w \in Writers, Writer(w)  PROVE ServedInv'
    <2>1. /\ wpc[w] \notin Absent /\ cpc' = cpc /\ writerTask' = writerTask
          /\ \A v \in Writers \ {w} : wpc'[v] \in {wpc[v], NotifyWriters(wpc)[v]}
      BY <1>4, WriterTouches
    <2>2. w = writerTask /\ \A v \in Writers \ {w} : wpc[v] \in Absent
      BY <2>1 DEF SoleInv
    <2>3. \A v \in Writers \ {w} : wpc'[v] \in Absent
      BY <1>0, <2>1, <2>2 DEF NotifyWriters, Absent
    <2>4. /\ wpc'[w] \notin Absent
          /\ ~MayFail => \A c \in Conns : cstate'[c] \in {"none", "open"}
          /\ ~Paced =>
               /\ \A c \in registered' : Usable(c)'
               /\ wpc'[w] \notin {"grant", "granted"}
               /\ \A c \in Conns : wpc'[w] = "locked" /\ wconn'[w] = c => Usable(c)'
               /\ \A m \in Msgs : wpc'[w] = "drain" /\ wmsg'[w] = m => written'[m] = Parts
      BY <1>1, <1>4, <2>1, WriterServes
    <2>. HIDE DEF Usable
    <2>. QED  BY <2>1, <2>2, <2>3, <2>4 DEF ServedInv, Absent
  <1>5. ASSUME NEW d \in Conns, Connection(d)  PROVE ServedInv'
    <2>1. /\ cpc = "open" /\ Free /\ UNCHANGED <<queue, writerTask, wpc, wmsg, wconn, written>>
      BY <1>1, <1>5 DEF Connection, PeerConnects, ConnectionLost, ReaderDrops, FlushDone, ConnMoves
    <2>2. \A w \in Writers : wpc[w] # "locked"
      BY <2>1 DEF Free, MidStep
    <2>3. ASSUME ~MayFail  PROVE \A c \in Conns : cstate'[c] \in {"none", "open"}
      BY <1>0, <1>5, <2>1, <2>3 DEF ServedInv, Connection, PeerConnects, ConnectionLost, ReaderDrops, FlushDone, ConnMoves, closed
    <2>4. ASSUME ~Paced  PROVE \A c \in registered' : Usable(c)'
      <3>1. \A c \in registered : Usable(c)
        BY <2>1, <2>4 DEF ServedInv
      <3>2. CASE PeerConnects(d) \/ ConnectionLost(d)
        BY <1>0, <3>1, <3>2 DEF PeerConnects, ConnectionLost, ConnMoves, Usable
      <3>3. CASE ReaderDrops(d)
        BY <1>0, <3>1, <3>3 DEF ReaderDrops, ConnMoves, Usable
      <3>4. CASE FlushDone(d)
        BY <1>0, <3>1, <3>4 DEF FlushDone, ConnMoves, Usable
      <3>. QED  BY <1>5, <3>2, <3>3, <3>4 DEF Connection
    <2>. QED  BY <2>1, <2>2, <2>3, <2>4 DEF ServedInv
  <1>6. ASSUME Close  PROVE FALSE
    BY <1>1, <1>6 DEF Close, CloseStart, CloseFailsQueued, CloseCancelsWriter, CloseScheduler, CloseConnections,
       CloseReturns, CloseMoves
  <1>7. CASE UNCHANGED vars
    BY <1>2, <1>7 DEF vars
  <1>. QED  BY <1>3, <1>4, <1>5, <1>6, <1>7 DEF Next

\* QueueServed: while no send is cancelled, a message in the queue has a writer, or close()
\* was called, provided that connections are not lost or that there is no byte scheduler:
\* otherwise a transport may be closed and flushed while the writer waits for its grant,
\* and the error it raises ends the writer (comm.py:368, 484, 489).
THEOREM QueueStaysServed ==
  ASSUME Cancellable = {}, Paced => ~MayFail
  PROVE  Spec => []QueueServed
  <1>1. Init => ServedInv
    BY DEF Init, ServedInv
  <1>2. TypeInv /\ SoleInv /\ SoleInv' /\ ServedInv /\ [Next]_vars => ServedInv'
    BY ServedStep
  <1>3. ServedInv => QueueServed
    BY DEF ServedInv, QueueServed, Live, closed, Absent
  <1>4. Spec => []SoleInv
    BY SoleKept
  <1>. QED  BY <1>1, <1>2, <1>3, <1>4, TypeInvariance, PTL DEF Spec
=============================================================================
