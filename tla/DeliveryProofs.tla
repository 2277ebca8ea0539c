--------------------------- MODULE DeliveryProofs ---------------------------
(* Theorems about Delivery for every value of its constants.               *)
EXTENDS Delivery, DataLemmas, SequenceTheorems, TLAPS

USE DeliveryAssumption

---------------------------------------------------------------------------
(* The search of the inbound queue                                         *)

\* Of the messages of a tag in the queue, one is the first.
LEMMA OldestIsFirst ==
  ASSUME inbound \in Seq(Msgs), NEW r \in Receivers, Matching(r) # {}
  PROVE  \E i \in Matching(r) : \A j \in Matching(r) : i <= j
  <1>1. Matching(r) \subseteq Nat
    BY DEF Matching
  <1>. QED  BY <1>1, HasLeast

\* The search finds a message of the tag when there is one.
LEMMA OldestMatches ==
  ASSUME inbound \in Seq(Msgs), NEW r \in Receivers, Matching(r) # {}
  PROVE  Oldest(r) \in Matching(r)
  BY OldestIsFirst, Zenon DEF Oldest

\* A sequence without its i-th element: what came later moves up by one.
LEMMA RemovedAt ==
  ASSUME NEW s \in Seq(Msgs), NEW i \in 1 .. Len(s)
  PROVE  /\ RemoveAt(s, i) \in Seq(Msgs)
         /\ Len(RemoveAt(s, i)) = Len(s) - 1
         /\ \A k \in 1 .. Len(s) - 1 : RemoveAt(s, i)[k] = IF k < i THEN s[k] ELSE s[k + 1]
  <1>. DEFINE a == SubSeq(s, 1, i - 1)
              b == SubSeq(s, i + 1, Len(s))
  <1>1. /\ a \in Seq(Msgs) /\ Len(a) = i - 1
        /\ \A k \in 1 .. i - 1 : a[k] = s[k]
    BY SubSeqProperties
  <1>2. /\ b \in Seq(Msgs) /\ Len(b) = Len(s) - i
        /\ \A k \in 1 .. Len(s) - i : b[k] = s[k + i]
    BY SubSeqProperties
  <1>3. RemoveAt(s, i) = a \o b
    BY DEF RemoveAt
  <1>4. \A x, y \in Seq(Msgs) :
          /\ x \o y \in Seq(Msgs)
          /\ Len(x \o y) = Len(x) + Len(y)
          /\ \A k \in 1 .. Len(x) + Len(y) : (x \o y)[k] = IF k <= Len(x) THEN x[k] ELSE y[k - Len(x)]
    BY ConcatProperties
  <1>. HIDE DEF a, b
  <1>5. a \in Seq(Msgs) /\ b \in Seq(Msgs)
    BY <1>1, <1>2, Zenon
  <1>6. /\ a \o b \in Seq(Msgs)
        /\ Len(a \o b) = Len(a) + Len(b)
        /\ \A k \in 1 .. Len(a) + Len(b) : (a \o b)[k] = IF k <= Len(a) THEN a[k] ELSE b[k - Len(a)]
    BY <1>4, <1>5, Zenon
  <1>7. i \in Int /\ Len(s) \in Nat /\ 1 <= i /\ i <= Len(s) /\ Len(a) + Len(b) = Len(s) - 1
    BY <1>1, <1>2
  <1>8. ASSUME NEW k \in 1 .. Len(s) - 1
        PROVE  (a \o b)[k] = IF k < i THEN s[k] ELSE s[k + 1]
    <2>1. k \in Int /\ k \in 1 .. Len(a) + Len(b)
      BY <1>7
    <2>2. CASE k < i
      BY <1>1, <1>6, <1>7, <2>1, <2>2
    <2>3. CASE ~(k < i)
      <3>1. ~(k <= Len(a)) /\ k - Len(a) \in 1 .. Len(s) - i /\ (k - Len(a)) + i = k + 1
        BY <1>1, <1>7, <2>1, <2>3
      <3>. QED  BY <1>2, <1>6, <2>1, <2>3, <3>1
    <2>. QED  BY <2>2, <2>3
  <1>. QED  BY <1>3, <1>6, <1>7, <1>8

\* What is left of a sequence without its i-th element was in it before.
LEMMA Removed ==
  ASSUME NEW s \in Seq(Msgs), NEW i \in 1 .. Len(s)
  PROVE  /\ RemoveAt(s, i) \in Seq(Msgs)
         /\ \A k \in 1 .. Len(RemoveAt(s, i)) : \E j \in 1 .. Len(s) : RemoveAt(s, i)[k] = s[j]
  <1>1. /\ RemoveAt(s, i) \in Seq(Msgs)
        /\ Len(RemoveAt(s, i)) = Len(s) - 1
        /\ \A k \in 1 .. Len(s) - 1 : RemoveAt(s, i)[k] = IF k < i THEN s[k] ELSE s[k + 1]
    BY RemovedAt
  <1>2. \A k \in 1 .. Len(s) - 1 : k \in 1 .. Len(s) /\ k + 1 \in 1 .. Len(s)
    OBVIOUS
  <1>. QED  BY <1>1, <1>2

---------------------------------------------------------------------------
(* Types                                                                   *)

HandStates == {"none", "dialling", "accepting", "cancelled", "done"}
NetStates  == {"none", "up", "eof", "reset", "closed"}
RxStates   == {"idle", "ready", "wait"}

\* notify_all maps states of receivers to states of receivers.
LEMMA WokenType ==
  ASSUME rx \in [Receivers -> RxStates]
  PROVE  Woken(rx) \in [Receivers -> RxStates] /\ \A r \in Receivers : Woken(rx)[r] # "wait"
  BY DEF Woken, RxStates

\* The end of a reader keeps every type.
LEMMA DropType ==
  ASSUME TypeOK, NEW c \in Conns, Drop(c),
         rx' \in [Receivers -> RxStates], inbound' \in Seq(Msgs),
         UNCHANGED <<hand, taken, closeVars, sent>>
  PROVE  TypeOK'
  <1>1. ErrorWith(registered \ {c}) \in BOOLEAN
    BY Zenon DEF TypeOK, ErrorWith
  <1>2. <<>> \in Seq(Msgs \cup OtherFrames)
    OBVIOUS
  <1>3. cancelled' \subseteq LiveReaders'
    BY DEF TypeOK, Drop, LiveReaders
  <1>. QED  BY <1>1, <1>2, <1>3 DEF TypeOK, Drop, closeVars, RxStates

\* The initial state has the types of TypeOK.
LEMMA InitType == Init => TypeOK
  <1>1. <<>> \in Seq(Msgs \cup OtherFrames) /\ <<>> \in Seq(Msgs)
    OBVIOUS
  <1>2. Init => peerError \in BOOLEAN
    BY Zenon DEF Init
  <1>. QED  BY <1>1, <1>2 DEF Init, TypeOK, LiveReaders

\* Every step of the peer and of a handshake keeps every type.
LEMMA ConnectionType ==
  ASSUME TypeOK, NEW c \in Conns, Peer(c) \/ Handshake(c) \/ WriterDrops(c)
  PROVE  TypeOK'
  <1>1. CASE Begins(c)
    BY <1>1 DEF TypeOK, Begins, LiveReaders, taskVars, rxVars, closeVars
  <1>2. CASE FrameArrives(c)
    <2>1. unread' \in [Conns -> Seq(Msgs \cup OtherFrames)] /\ sent' \in [Conns -> Seq(Msgs)]
      <3>1. CASE \E f \in OtherFrames : unread' = [unread EXCEPT ![c] = Append(@, f)] /\ UNCHANGED sent
        BY <3>1, AppendProperties DEF TypeOK
      <3>2. CASE \E m \in Msgs : /\ unread' = [unread EXCEPT ![c] = Append(@, m)]
                               /\ sent' = [sent EXCEPT ![c] = Append(@, m)]
        BY <3>2, AppendProperties DEF TypeOK
      <3>. QED  BY <1>2, <3>1, <3>2 DEF FrameArrives
    <2>. QED  BY <1>2, <2>1 DEF TypeOK, FrameArrives, LiveReaders, connVars, taskVars, rxVars, closeVars
  <1>3. CASE PeerEnds(c)
    BY <1>3 DEF TypeOK, PeerEnds, LiveReaders, taskVars, rxVars, closeVars
  <1>4. CASE Register(c)
    <2>1. peerError' \in BOOLEAN
      BY <1>4, Zenon DEF Register
    <2>. QED  BY <1>4, <2>1 DEF TypeOK, Register, LiveReaders, rxVars, closeVars
  <1>5. CASE HandshakeFails(c)
    <2>1. <<>> \in Seq(Msgs \cup OtherFrames)
      OBVIOUS
    <2>. QED  BY <1>5, <2>1 DEF TypeOK, HandshakeFails, LiveReaders, taskVars, rxVars, closeVars
  <1>6. CASE WriterDrops(c)
    BY <1>6 DEF TypeOK, WriterDrops, Shut, LiveReaders, taskVars, rxVars, closeVars
  <1>. QED  BY <1>1, <1>2, <1>3, <1>4, <1>5, <1>6 DEF Peer, Handshake

\* Every step of a reader task keeps every type.
LEMMA ReaderType ==
  ASSUME TypeOK, NEW c \in Conns, Reader(c)
  PROVE  TypeOK'
  <1>. rx \in [Receivers -> RxStates]
    BY DEF TypeOK, RxStates
  <1>1. TellIfLast(c) => rx' \in [Receivers -> RxStates]
    BY WokenType DEF TellIfLast
  <1>2. UNCHANGED inbound => inbound' \in Seq(Msgs)
    BY DEF TypeOK
  <1>3. CASE ReaderStarts(c)
    <2>1. CASE closed
      BY <1>1, <1>2, <1>3, <2>1, DropType DEF ReaderStarts
    <2>2. CASE ~closed
      BY <1>3, <2>2 DEF TypeOK, ReaderStarts, LiveReaders, closeVars
    <2>. QED  BY <2>1, <2>2
  <1>4. CASE ReadData(c)
    <2>1. unread[c] \in Seq(Msgs \cup OtherFrames) /\ unread[c] # <<>> /\ Head(unread[c]) \in Msgs
      BY <1>4 DEF TypeOK, ReadData
    <2>2. inbound' \in Seq(Msgs) /\ rx' \in [Receivers -> RxStates]
      BY <1>4, <2>1, AppendProperties, WokenType DEF TypeOK, ReadData, QueueInbound
    <2>3. CASE closed
      BY <1>4, <2>2, <2>3, DropType DEF ReadData
    <2>4. CASE ~closed
      <3>1. unread' \in [Conns -> Seq(Msgs \cup OtherFrames)]
        <4>1. Tail(unread[c]) \in Seq(Msgs \cup OtherFrames)
          BY <2>1, HeadTailProperties
        <4>. QED  BY <1>4, <2>4, <4>1 DEF TypeOK, ReadData
      <3>. QED  BY <1>4, <2>2, <2>4, <3>1 DEF TypeOK, ReadData, RxStates, LiveReaders, taskVars, closeVars
    <2>. QED  BY <2>3, <2>4
  <1>5. CASE ReadEnds(c)
    BY <1>1, <1>2, <1>5, DropType DEF ReadEnds
  <1>6. CASE CancelledUnstarted(c)
    BY <1>6 DEF TypeOK, CancelledUnstarted, LiveReaders, connVars, rxVars, closeVars
  <1>7. CASE CancelledReading(c)
    BY <1>1, <1>2, <1>7, DropType DEF CancelledReading
  <1>. QED  BY <1>3, <1>4, <1>5, <1>6, <1>7 DEF Reader

\* Every step of a receiver keeps every type.
LEMMA ReceiverType ==
  ASSUME TypeOK, NEW r \in Receivers, Scan(r) \/ GivesUp(r)
  PROVE  TypeOK'
  <1>1. CASE Scan(r)
    <2>1. CASE Matching(r) # {}
      <3>1. Oldest(r) \in 1 .. Len(inbound)
        BY <2>1, OldestMatches DEF TypeOK, Matching
      <3>2. RemoveAt(inbound, Oldest(r)) \in Seq(Msgs)
        BY <3>1, Removed DEF TypeOK
      <3>3. inbound[Oldest(r)] \in Msgs
        BY <3>1 DEF TypeOK
      <3>4. Append(taken, inbound[Oldest(r)]) \in Seq(Msgs)
        BY <3>3, AppendProperties DEF TypeOK
      <3>. QED
        BY <1>1, <2>1, <3>2, <3>4
        DEF TypeOK, Scan, LiveReaders, connVars, taskVars, closeVars
    <2>2. CASE Matching(r) = {}
      <3>1. peerError' \in BOOLEAN
        BY <1>1, <2>2, Zenon DEF Scan
      <3>. QED  BY <1>1, <2>2, <3>1 DEF TypeOK, Scan, LiveReaders, connVars, taskVars, closeVars
    <2>. QED  BY <2>1, <2>2
  <1>2. CASE GivesUp(r)
    BY <1>2 DEF TypeOK, GivesUp, LiveReaders, connVars, taskVars, closeVars
  <1>. QED  BY <1>1, <1>2

\* Every step of close() keeps every type.
LEMMA CloseType ==
  ASSUME TypeOK, Close
  PROVE  TypeOK'
  <1>1. CASE CloseStart
    BY <1>1 DEF TypeOK, CloseStart, LiveReaders, taskVars, rxVars
  <1>2. CASE CloseConnections
    <2>1. net' \in [Conns -> NetStates]
      BY <1>2 DEF TypeOK, CloseConnections, Shut, NetStates
    <2>2. awaited' \subseteq Conns /\ cancelled' \subseteq LiveReaders'
      BY <1>2 DEF TypeOK, CloseConnections, CancelReaders, LiveReaders
    <2>3. cpc' \in {"wait", "gather"}
      BY <1>2 DEF CloseConnections, CancelReaders
    <2>. QED  BY <1>2, <2>1, <2>2, <2>3 DEF TypeOK, CloseConnections, NetStates, rxVars
  <1>3. CASE CloseTasks
    BY <1>3 DEF TypeOK, CloseTasks, CancelReaders, LiveReaders, connVars, rxVars
  <1>4. CASE CloseReturns
    <2>1. rx' \in [Receivers -> RxStates]
      BY <1>4, WokenType DEF TypeOK, CloseReturns, RxStates
    <2>. QED  BY <1>4, <2>1 DEF TypeOK, CloseReturns, RxStates, LiveReaders, connVars, taskVars
  <1>. QED  BY <1>1, <1>2, <1>3, <1>4 DEF Close

\* A step that changes nothing keeps every type.
LEMMA StutterType ==
  ASSUME TypeOK, UNCHANGED vars
  PROVE  TypeOK'
  BY DEF TypeOK, vars, LiveReaders, connVars, taskVars, rxVars, closeVars

\* TypeOK of Delivery: whatever the peer, receivers, writers and close() do,
\* every variable keeps its type, and only readers that have not ended are
\* owed a cancellation.
THEOREM DeliveryTypes == Spec => []TypeOK
  <1>1. TypeOK /\ [Next]_vars => TypeOK'
    BY ConnectionType, ReaderType, ReceiverType, CloseType, StutterType, Zenon DEF Next
  <1>. QED  BY <1>1, InitType, PTL DEF Spec

---------------------------------------------------------------------------
(* Errors and connections                                                  *)

(* The ways in which a step can touch the error and the connections of the *)
(* peer.                                                                   *)
ErrorKept     == UNCHANGED <<peerError, registered>>
ErrorCleared  == peerError' = FALSE
ErrorOfDrop   == \E c \in Conns : registered' = registered \ {c} /\ peerError' = ErrorWith(registered \ {c})
ErrorOfWriter == registered' \subseteq registered /\ UNCHANGED peerError

\* Every step is one of these.
LEMMA ErrorSteps ==
  ASSUME [Next]_vars
  PROVE  ErrorKept \/ ErrorCleared \/ ErrorOfDrop \/ ErrorOfWriter
  <1>1. ASSUME NEW c \in Conns, Peer(c) \/ Handshake(c) \/ WriterDrops(c)
        PROVE  ErrorKept \/ ErrorCleared \/ ErrorOfWriter
    <2>1. CASE WriterDrops(c)
      BY <2>1 DEF WriterDrops, ErrorOfWriter
    <2>2. CASE Peer(c) \/ Handshake(c)
      BY <2>2, Zenon
      DEF Peer, Begins, FrameArrives, PeerEnds, Handshake, Register, HandshakeFails,
          ErrorKept, ErrorCleared, connVars
    <2>. QED  BY <1>1, <2>1, <2>2
  <1>2. ASSUME NEW c \in Conns, Reader(c)
        PROVE  ErrorKept \/ ErrorOfDrop
    <2>1. CASE Drop(c)
      BY <2>1, Zenon DEF Drop, ErrorOfDrop
    <2>2. CASE ~Drop(c)
      BY <1>2, <2>2, Zenon
      DEF Reader, ReaderStarts, ReadData, ReadEnds, CancelledUnstarted, CancelledReading, ErrorKept, connVars
    <2>. QED  BY <2>1, <2>2
  <1>3. ASSUME NEW r \in Receivers, Scan(r) \/ GivesUp(r)
        PROVE  ErrorKept \/ ErrorCleared
    <2>1. CASE Scan(r)
      BY <2>1, Zenon DEF Scan, ErrorKept, ErrorCleared, connVars
    <2>2. CASE GivesUp(r)
      BY <2>2, Zenon DEF GivesUp, ErrorKept, connVars
    <2>. QED  BY <1>3, <2>1, <2>2
  <1>4. ASSUME Close
        PROVE  ErrorKept
    BY <1>4, Zenon
    DEF Close, CloseStart, CloseConnections, CloseTasks, CloseReturns, ErrorKept, connVars
  <1>5. ASSUME UNCHANGED vars
        PROVE  ErrorKept
    BY <1>5, Zenon DEF vars, connVars, ErrorKept
  <1>. QED  BY <1>1, <1>2, <1>3, <1>4, <1>5, Zenon DEF Next

\* ErrorMeansDown of Delivery: recv never raises the error of a connection that
\* has been replaced, however late its reader ends (_drop_connection looks at the
\* connections, _register_connection erases the error).
THEOREM ErrorsAreCurrent == Spec => []ErrorMeansDown
  <1>1. Init => ErrorMeansDown
    BY DEF Init, ErrorMeansDown
  <1>2. ErrorMeansDown /\ [Next]_vars => ErrorMeansDown'
    <2>. SUFFICES ASSUME ErrorMeansDown, [Next]_vars, peerError'
                  PROVE  registered' = {}
      BY Zenon DEF ErrorMeansDown
    <2>1. CASE ErrorKept
      BY <2>1, Zenon DEF ErrorKept, ErrorMeansDown
    <2>2. CASE ErrorCleared
      BY <2>2, Zenon DEF ErrorCleared
    <2>3. CASE ErrorOfDrop
      <3>1. PICK c \in Conns : registered' = registered \ {c} /\ peerError' = ErrorWith(registered \ {c})
        BY <2>3, Zenon DEF ErrorOfDrop
      <3>2. peerError \/ registered \ {c} = {}
        BY <3>1, Zenon DEF ErrorWith
      <3>3. registered = {} => registered \ {c} = {}
        OBVIOUS
      <3>. QED  BY <3>1, <3>2, <3>3, Zenon DEF ErrorMeansDown
    <2>4. CASE ErrorOfWriter
      <3>1. registered = {}
        BY <2>4, Zenon DEF ErrorOfWriter, ErrorMeansDown
      <3>. QED  BY <2>4, <3>1 DEF ErrorOfWriter
    <2>. QED  BY <2>1, <2>2, <2>3, <2>4, ErrorSteps, Zenon
  <1>. QED  BY <1>1, <1>2, PTL DEF Spec

\* Readers are cancelled by the last part of close() only.
ReadInv ==
    /\ TypeOK
    /\ ConnectionsAreRead
    /\ cpc \notin {"gather", "done"} => cancelled = {}

\* ConnectionsAreRead of Delivery: _register_connection creates a reader for
\* each connection, and a reader that ends takes its connection along.
THEOREM ReadersStay == Spec => []ConnectionsAreRead
  <1>1. Init => ReadInv
    BY InitType DEF Init, ReadInv, ConnectionsAreRead
  <1>2. ReadInv /\ [Next]_vars => ReadInv'
    <2>. SUFFICES ASSUME ReadInv, [Next]_vars
                  PROVE  ReadInv'
      OBVIOUS
    <2>. DEFINE Early == cpc \notin {"gather", "done"}
    <2>0. TypeOK'
      BY ConnectionType, ReaderType, ReceiverType, CloseType, StutterType, Zenon DEF Next, ReadInv
    <2>. SUFFICES ASSUME Early'
                  PROVE  registered' \subseteq LiveReaders' /\ cancelled' = {}
      BY <2>0, Zenon DEF ReadInv, ConnectionsAreRead
    <2>1. Early => registered \subseteq LiveReaders /\ cancelled = {}
      BY DEF ReadInv, ConnectionsAreRead
    <2>2. ASSUME NEW c \in Conns, Peer(c) \/ Handshake(c) \/ WriterDrops(c)
          PROVE  registered' \subseteq LiveReaders' /\ cancelled' = {}
      BY <2>1, <2>2
      DEF Peer, Begins, FrameArrives, PeerEnds, Handshake, Register, HandshakeFails, WriterDrops,
          LiveReaders, ReadInv, TypeOK, connVars, taskVars, closeVars
    <2>3. ASSUME NEW c \in Conns, Reader(c)
          PROVE  registered' \subseteq LiveReaders' /\ cancelled' = {}
      <3>1. Early
        BY <2>3 DEF Reader, ReaderStarts, ReadData, ReadEnds, CancelledUnstarted, CancelledReading, closeVars
      <3>2. CASE Drop(c)
        BY <2>1, <3>1, <3>2 DEF Drop, LiveReaders, ReadInv, TypeOK
      <3>3. CASE ~Drop(c)
        BY <2>1, <2>3, <3>1, <3>3
        DEF Reader, ReaderStarts, ReadData, ReadEnds, CancelledUnstarted, CancelledReading,
            LiveReaders, ReadInv, TypeOK, taskVars
      <3>. QED  BY <3>2, <3>3
    <2>4. ASSUME NEW r \in Receivers, Scan(r) \/ GivesUp(r)
          PROVE  registered' \subseteq LiveReaders' /\ cancelled' = {}
      BY <2>1, <2>4 DEF Scan, GivesUp, LiveReaders, connVars, taskVars, closeVars
    <2>5. ASSUME Close
          PROVE  registered' \subseteq LiveReaders' /\ cancelled' = {}
      BY <2>1, <2>5
      DEF Close, CloseStart, CloseConnections, CloseTasks, CancelReaders, CloseReturns,
          LiveReaders, connVars, taskVars
    <2>6. ASSUME UNCHANGED vars
          PROVE  registered' \subseteq LiveReaders' /\ cancelled' = {}
      BY <2>1, <2>6 DEF vars, LiveReaders, connVars, taskVars, closeVars
    <2>. QED  BY <2>2, <2>3, <2>4, <2>5, <2>6, Zenon DEF Next
  <1>3. ReadInv => ConnectionsAreRead
    BY DEF ReadInv
  <1>. QED  BY <1>1, <1>2, <1>3, PTL DEF Spec

---------------------------------------------------------------------------
(* Wakeups                                                                 *)

\* What would let a waiting receiver leave its loop.
Nothing(r) == Matching(r) = {} /\ ~peerError /\ cpc # "done"

\* A receiver that does not wait, or that has nothing to leave for.
Rests(r) == rx[r] = "wait" => Nothing(r)

\* A step that changes nothing a receiver looks at.
LEMMA NothingKept ==
  ASSUME NEW r \in Receivers, Rests(r), UNCHANGED <<inbound, peerError>>,
         rx'[r] = "wait" => rx[r] = "wait",
         cpc' = "done" => cpc = "done"
  PROVE  Rests(r)'
  <1>. SUFFICES ASSUME rx'[r] = "wait"
                PROVE  Nothing(r)'
    BY Zenon DEF Rests
  <1>1. Nothing(r)
    BY Zenon DEF Rests
  <1>2. Matching(r)' = Matching(r)
    BY Zenon DEF Matching
  <1>. QED  BY <1>1, <1>2, Zenon DEF Nothing

\* A step that notifies every receiver.
LEMMA AllTold ==
  ASSUME TypeOK, NEW r \in Receivers, rx' = Woken(rx)
  PROVE  Rests(r)'
  BY WokenType DEF TypeOK, RxStates, Rests

\* The end of a reader.
LEMMA DropTells ==
  ASSUME TypeOK, NEW r \in Receivers, Rests(r), NEW c \in Conns,
         Drop(c), TellIfLast(c), UNCHANGED <<inbound, cpc>>
  PROVE  Rests(r)'
  <1>1. CASE registered \ {c} = {}
    BY <1>1, AllTold, Zenon DEF TellIfLast
  <1>2. CASE registered \ {c} # {}
    <2>1. rx' = rx
      BY <1>2, Zenon DEF TellIfLast
    <2>2. peerError' = ErrorWith(registered \ {c})
      BY Zenon DEF Drop
    <2>3. peerError' => peerError
      BY <1>2, <2>2, Zenon DEF ErrorWith
    <2>4. Matching(r)' = Matching(r)
      BY Zenon DEF Matching
    <2>. QED  BY <2>1, <2>3, <2>4, Zenon DEF Rests, Nothing
  <1>. QED  BY <1>1, <1>2

\* The step of a receiver leaves nothing new for the others.
LEMMA ScanTells ==
  ASSUME TypeOK, NEW r \in Receivers, Rests(r), NEW q \in Receivers, Scan(q)
  PROVE  Rests(r)'
  <1>. SUFFICES ASSUME rx'[r] = "wait"
                PROVE  Nothing(r)'
    BY Zenon DEF Rests
  <1>0. rx \in [Receivers -> RxStates] /\ inbound \in Seq(Msgs)
    BY DEF TypeOK, RxStates
  <1>1. cpc' = cpc
    BY DEF Scan, closeVars
  <1>2. CASE Matching(q) # {}
    <2>1. /\ inbound' = RemoveAt(inbound, Oldest(q))
          /\ rx' = [rx EXCEPT ![q] = "idle"]
          /\ peerError' = peerError
      BY <1>2, Zenon DEF Scan
    <2>2. rx[r] = "wait"
      BY <1>0, <2>1
    <2>3. Nothing(r)
      BY <2>2, Zenon DEF Rests
    <2>4. Oldest(q) \in 1 .. Len(inbound)
      BY <1>0, <1>2, OldestMatches DEF Matching
    <2>5. \A k \in 1 .. Len(inbound') : \E j \in 1 .. Len(inbound) : inbound'[k] = inbound[j]
      <3>1. \A k \in 1 .. Len(RemoveAt(inbound, Oldest(q))) :
              \E j \in 1 .. Len(inbound) : RemoveAt(inbound, Oldest(q))[k] = inbound[j]
        BY <1>0, <2>4, Removed
      <3>. QED  BY <2>1, <3>1, Zenon
    <2>6. Matching(r)' = {}
      BY <2>3, <2>5 DEF Nothing, Matching
    <2>. QED  BY <1>1, <2>1, <2>3, <2>6, Zenon DEF Nothing
  <1>3. CASE Matching(q) = {}
    <2>1. /\ rx' = [rx EXCEPT ![q] = IF peerError \/ closed THEN "idle" ELSE "wait"]
          /\ peerError' = FALSE
          /\ inbound' = inbound
      BY <1>3, Zenon DEF Scan
    <2>2. Matching(r)' = Matching(r)
      BY <2>1, Zenon DEF Matching
    <2>3. CASE r = q
      <3>1. rx'[q] = IF peerError \/ closed THEN "idle" ELSE "wait"
        BY <1>0, <2>1
      <3>2. ~closed
        BY <2>3, <3>1
      <3>. QED  BY <1>1, <1>3, <2>1, <2>2, <2>3, <3>2 DEF Nothing, closed
    <2>4. CASE r # q
      <3>1. rx[r] = "wait"
        BY <1>0, <2>1, <2>4
      <3>2. Nothing(r)
        BY <3>1, Zenon DEF Rests
      <3>. QED  BY <1>1, <2>1, <2>2, <3>2, Zenon DEF Nothing
    <2>. QED  BY <2>3, <2>4
  <1>. QED  BY <1>2, <1>3

\* NoReceiverForgotten of Delivery: every change that would let the loop of
\* _receive_matching leave notifies the receivers that wait, and a receiver looks
\* at all of them before it waits.
THEOREM ReceiversTold == Spec => []NoReceiverForgotten
  <1>1. Init => NoReceiverForgotten
    BY DEF Init, NoReceiverForgotten
  <1>2. TypeOK /\ NoReceiverForgotten /\ [Next]_vars => NoReceiverForgotten'
    <2>. SUFFICES ASSUME TypeOK, NoReceiverForgotten, [Next]_vars, NEW r \in Receivers
                  PROVE  Rests(r)'
      BY Zenon DEF NoReceiverForgotten, Rests, Nothing
    <2>1. Rests(r)
      BY Zenon DEF NoReceiverForgotten, Rests, Nothing
    <2>2. ASSUME NEW c \in Conns, Peer(c) \/ HandshakeFails(c) \/ WriterDrops(c)
          PROVE  Rests(r)'
      <3>1. UNCHANGED <<inbound, peerError, rx, cpc>>
        BY <2>2, Zenon
        DEF Peer, Begins, FrameArrives, PeerEnds, HandshakeFails, WriterDrops, rxVars, closeVars
      <3>. QED  BY <2>1, <3>1, NothingKept, Zenon
    <2>3. ASSUME NEW c \in Conns, Register(c)
          PROVE  Rests(r)'
      <3>1. UNCHANGED <<inbound, rx, cpc>> /\ peerError' = FALSE
        BY <2>3, Zenon DEF Register, rxVars, closeVars
      <3>2. Matching(r)' = Matching(r)
        BY <3>1, Zenon DEF Matching
      <3>. QED  BY <2>1, <3>1, <3>2, Zenon DEF Rests, Nothing
    <2>4. ASSUME NEW c \in Conns, Reader(c)
          PROVE  Rests(r)'
      <3>1. CASE ReadData(c)
        BY <3>1, AllTold, Zenon DEF ReadData
      <3>2. CASE Drop(c) /\ TellIfLast(c) /\ UNCHANGED <<inbound, cpc>>
        BY <2>1, <3>2, DropTells, Zenon
      <3>3. CASE UNCHANGED <<inbound, peerError, rx, cpc>>
        BY <2>1, <3>3, NothingKept, Zenon
      <3>4. \/ ReadData(c)
            \/ Drop(c) /\ TellIfLast(c) /\ UNCHANGED <<inbound, cpc>>
            \/ UNCHANGED <<inbound, peerError, rx, cpc>>
        BY <2>4, Zenon
        DEF Reader, ReaderStarts, ReadEnds, CancelledUnstarted, CancelledReading, rxVars, closeVars
      <3>. QED  BY <3>1, <3>2, <3>3, <3>4, Zenon
    <2>5. ASSUME NEW q \in Receivers, Scan(q)
          PROVE  Rests(r)'
      BY <2>1, <2>5, ScanTells, Zenon
    <2>6. ASSUME NEW q \in Receivers, GivesUp(q)
          PROVE  Rests(r)'
      <3>1. rx'[r] = "wait" => rx[r] = "wait"
        BY <2>6 DEF GivesUp, TypeOK
      <3>2. UNCHANGED <<inbound, peerError, cpc>>
        BY <2>6, Zenon DEF GivesUp, closeVars
      <3>. QED  BY <2>1, <3>1, <3>2, NothingKept, Zenon
    <2>7. ASSUME Close
          PROVE  Rests(r)'
      <3>1. CASE CloseReturns
        BY <3>1, AllTold, Zenon DEF CloseReturns
      <3>2. CASE CloseStart \/ CloseConnections \/ CloseTasks
        <4>1. UNCHANGED <<inbound, peerError, rx>>
          BY <3>2, Zenon DEF CloseStart, CloseConnections, CloseTasks, rxVars
        <4>2. cpc' # "done"
          BY <3>2 DEF CloseStart, CloseConnections, CloseTasks, CancelReaders
        <4>. QED  BY <2>1, <4>1, <4>2, NothingKept, Zenon
      <3>. QED  BY <2>7, <3>1, <3>2 DEF Close
    <2>8. ASSUME UNCHANGED vars
          PROVE  Rests(r)'
      BY <2>1, <2>8, NothingKept, Zenon DEF vars, rxVars, closeVars
    <2>. QED
      BY <2>2, <2>3, <2>4, <2>5, <2>6, <2>7, <2>8, Zenon DEF Next, Handshake
  <1>. QED  BY <1>1, <1>2, DeliveryTypes, PTL DEF Spec

---------------------------------------------------------------------------
(* The order of messages                                                   *)

(* A message is put on one connection once, what a connection or a queue   *)
(* holds was put on one, and nothing was put on one that was not opened.   *)
SentOnce ==
    \A c, d \in Conns : \A i \in 1 .. Len(sent[c]), j \in 1 .. Len(sent[d]) :
        sent[c][i] = sent[d][j] => c = d /\ i = j

WasSent(m) == \E c \in Conns : Contains(sent[c], m)

AllWereSent(s) == \A k \in 1 .. Len(s) : WasSent(s[k])

UnreadWasSent ==
    \A c \in Conns : \A k \in 1 .. Len(unread[c]) : unread[c][k] \in Msgs => Contains(sent[c], unread[c][k])

NoneBeforeOpening == \A c \in Conns : hand[c] = "none" => sent[c] = <<>> /\ net[c] # "up"

(* While a connection is up, each of its messages is with a receiver, in   *)
(* the queue, or still to be read.                                         *)
Somewhere(c, m) == Contains(taken, m) \/ Contains(inbound, m) \/ Contains(unread[c], m)

NothingLost ==
    \A c \in Conns : \A m \in Msgs : net[c] = "up" /\ Contains(sent[c], m) => Somewhere(c, m)

(* b was put on c after a message a of its tag.                            *)
Follows(c, a, b) ==
    /\ Tag[a] = Tag[b]
    /\ \E i, j \in 1 .. Len(sent[c]) : i < j /\ sent[c][i] = a /\ sent[c][j] = b

EarlierIn(s, k, m) == \E l \in 1 .. k - 1 : s[l] = m

(* Wherever b is, a is ahead of it.                                        *)
TakenAhead(a, b) == \A k \in 1 .. Len(taken) : taken[k] = b => EarlierIn(taken, k, a)

QueuedAhead(a, b) ==
    \A k \in 1 .. Len(inbound) : inbound[k] = b => Contains(taken, a) \/ EarlierIn(inbound, k, a)

UnreadAhead(c, a, b) ==
    \A k \in 1 .. Len(unread[c]) :
        unread[c][k] = b => Contains(taken, a) \/ Contains(inbound, a) \/ EarlierIn(unread[c], k, a)

InOrder(c, a, b) == TakenAhead(a, b) /\ QueuedAhead(a, b) /\ UnreadAhead(c, a, b)

Ordered == \A c \in Conns : \A a, b \in Msgs : Follows(c, a, b) => InOrder(c, a, b)

History == SentOnce /\ AllWereSent(taken) /\ AllWereSent(inbound) /\ UnreadWasSent /\ NoneBeforeOpening

OrderInv == TypeOK /\ History /\ NothingLost /\ Ordered

(* What a step can do to messages: nothing but forgetting what a           *)
(* connection that ends had not been read, put one on a connection, read   *)
(* one, or take one.                                                       *)
KeptAt(c) ==
    /\ unread'[c] = unread[c] \/ (unread'[c] = <<>> /\ net'[c] # "up")
    /\ net'[c] = "up" => net[c] = "up" \/ hand[c] = "none"
    /\ hand'[c] = "none" => hand[c] = "none" /\ (net'[c] = "up" => net[c] = "up")

FlowKept == UNCHANGED <<inbound, taken, sent>> /\ \A c \in Conns : KeptAt(c)

\* Steps of connections that move no message.
LEMMA ConnectionKeeps ==
  ASSUME TypeOK, NEW c \in Conns, Begins(c) \/ PeerEnds(c) \/ Handshake(c) \/ WriterDrops(c)
  PROVE  FlowKept
  <1>1. UNCHANGED <<inbound, taken, sent>>
    BY Zenon DEF Begins, PeerEnds, Handshake, Register, HandshakeFails, WriterDrops, rxVars
  <1>2. ASSUME NEW d \in Conns
        PROVE  KeptAt(d)
    <2>1. CASE Begins(c)
      BY <2>1 DEF TypeOK, Begins, KeptAt
    <2>2. CASE PeerEnds(c)
      BY <2>2 DEF TypeOK, PeerEnds, KeptAt
    <2>3. CASE Register(c)
      BY <2>3 DEF TypeOK, Register, KeptAt
    <2>4. CASE HandshakeFails(c)
      BY <2>4 DEF TypeOK, HandshakeFails, KeptAt
    <2>5. CASE WriterDrops(c)
      BY <2>5 DEF TypeOK, WriterDrops, Shut, KeptAt
    <2>. QED  BY <2>1, <2>2, <2>3, <2>4, <2>5 DEF Handshake
  <1>. QED  BY <1>1, <1>2, Zenon DEF FlowKept

\* Steps of readers that read no message.
LEMMA ReaderKeeps ==
  ASSUME TypeOK, NEW c \in Conns, Reader(c), ~ReadData(c)
  PROVE  FlowKept
  <1>1. UNCHANGED <<hand, inbound, taken, sent>>
    BY Zenon DEF Reader, ReaderStarts, ReadEnds, CancelledUnstarted, CancelledReading, connVars, rxVars
  <1>2. Drop(c) \/ UNCHANGED <<unread, net>>
    BY Zenon DEF Reader, ReaderStarts, ReadEnds, CancelledUnstarted, CancelledReading, connVars
  <1>3. ASSUME NEW d \in Conns
        PROVE  KeptAt(d)
    <2>1. CASE Drop(c)
      BY <1>1, <2>1 DEF TypeOK, Drop, KeptAt
    <2>2. CASE UNCHANGED <<unread, net>>
      BY <1>1, <2>2, Zenon DEF KeptAt
    <2>. QED  BY <1>2, <2>1, <2>2
  <1>. QED  BY <1>1, <1>3, Zenon DEF FlowKept

\* Steps of close().
LEMMA CloseKeeps ==
  ASSUME TypeOK, Close
  PROVE  FlowKept
  <1>1. UNCHANGED <<inbound, taken, sent, unread>>
    BY Zenon DEF Close, CloseStart, CloseConnections, CloseTasks, CloseReturns, connVars, rxVars
  <1>2. ASSUME NEW d \in Conns
        PROVE  KeptAt(d)
    <2>1. CASE CloseStart
      BY <1>1, <2>1 DEF TypeOK, CloseStart, KeptAt
    <2>2. CASE CloseConnections
      BY <1>1, <2>2 DEF TypeOK, CloseConnections, Shut, KeptAt
    <2>3. CASE CloseTasks \/ CloseReturns
      BY <1>1, <2>3, Zenon DEF CloseTasks, CloseReturns, KeptAt, connVars
    <2>. QED  BY <2>1, <2>2, <2>3 DEF Close
  <1>. QED  BY <1>1, <1>2, Zenon DEF FlowKept

\* Every step moves no message, or is one of the three that do.
LEMMA FlowSteps ==
  ASSUME TypeOK, [Next]_vars
  PROVE  \/ FlowKept
         \/ \E c \in Conns : FrameArrives(c) \/ ReadData(c)
         \/ \E r \in Receivers : Scan(r) /\ Matching(r) # {}
  <1>1. ASSUME UNCHANGED <<hand, net, unread, inbound, taken, sent>>
        PROVE  FlowKept
    BY <1>1, Zenon DEF FlowKept, KeptAt
  <1>2. ASSUME NEW r \in Receivers, Scan(r) \/ GivesUp(r), ~(Scan(r) /\ Matching(r) # {})
        PROVE  UNCHANGED <<hand, net, unread, inbound, taken, sent>>
    <2>1. CASE Scan(r) /\ Matching(r) = {}
      BY <2>1, Zenon DEF Scan, connVars
    <2>2. CASE GivesUp(r)
      BY <2>2, Zenon DEF GivesUp, connVars
    <2>. QED  BY <1>2, <2>1, <2>2, Zenon
  <1>3. UNCHANGED vars => UNCHANGED <<hand, net, unread, inbound, taken, sent>>
    BY Zenon DEF vars, connVars, rxVars
  <1>. QED
    BY <1>1, <1>2, <1>3, ConnectionKeeps, ReaderKeeps, CloseKeeps, Zenon DEF Next, Peer, Reader

\* A step that moves no message keeps the order.
LEMMA KeptOrder ==
  ASSUME OrderInv, FlowKept
  PROVE  History' /\ NothingLost' /\ Ordered'
  <1>0. UNCHANGED <<inbound, taken, sent>>
    BY Zenon DEF FlowKept
  <1>1. \A c \in Conns : unread'[c] = unread[c] \/ 1 .. Len(unread'[c]) = {}
    <2>1. 1 .. Len(<<>>) = {}
      OBVIOUS
    <2>2. \A c \in Conns : unread'[c] = unread[c] \/ unread'[c] = <<>>
      BY Zenon DEF FlowKept, KeptAt
    <2>3. \A c \in Conns : unread'[c] = <<>> => 1 .. Len(unread'[c]) = {}
      BY <2>1, Zenon
    <2>. QED  BY <2>2, <2>3, Zenon
  <1>2. SentOnce' /\ AllWereSent(taken)' /\ AllWereSent(inbound)'
    <2>1. SentOnce'
      BY <1>0 DEF OrderInv, History, SentOnce
    <2>2. AllWereSent(taken)'
      BY <1>0, Zenon DEF OrderInv, History, AllWereSent, WasSent
    <2>3. AllWereSent(inbound)'
      BY <1>0, Zenon DEF OrderInv, History, AllWereSent, WasSent
    <2>. QED  BY <2>1, <2>2, <2>3
  <1>3. UnreadWasSent'
    BY <1>0, <1>1 DEF OrderInv, History, UnreadWasSent
  <1>4. NoneBeforeOpening'
    BY <1>0, Zenon DEF OrderInv, History, NoneBeforeOpening, FlowKept, KeptAt
  <1>5. NothingLost'
    <2>. SUFFICES ASSUME NEW c \in Conns, NEW m \in Msgs, net'[c] = "up", Contains(sent[c], m)
                  PROVE  Somewhere(c, m)'
      BY <1>0, Zenon DEF NothingLost
    <2>1. sent[c] # <<>>
      BY DEF Contains
    <2>2. net[c] = "up" /\ unread'[c] = unread[c]
      BY <2>1, Zenon DEF FlowKept, KeptAt, OrderInv, History, NoneBeforeOpening
    <2>. QED  BY <1>0, <2>2, Zenon DEF OrderInv, NothingLost, Somewhere
  <1>6. Ordered'
    <2>. SUFFICES ASSUME NEW c \in Conns, NEW a \in Msgs, NEW b \in Msgs, Follows(c, a, b)'
                  PROVE  InOrder(c, a, b)'
      BY Zenon DEF Ordered
    <2>1. InOrder(c, a, b)
      BY <1>0, Zenon DEF OrderInv, Ordered, Follows
    <2>2. UnreadAhead(c, a, b)'
      BY <1>0, <1>1, <2>1 DEF InOrder, UnreadAhead
    <2>. QED  BY <1>0, <2>1, <2>2, Zenon DEF InOrder, TakenAhead, QueuedAhead
  <1>. QED  BY <1>2, <1>3, <1>4, <1>5, <1>6, Zenon DEF History

\* What Append does, element by element.
LEMMA Appended ==
  ASSUME NEW S, NEW s \in Seq(S), NEW e \in S
  PROVE  /\ Append(s, e) \in Seq(S)
         /\ Len(Append(s, e)) = Len(s) + 1
         /\ \A k \in 1 .. Len(s) : Append(s, e)[k] = s[k]
         /\ Append(s, e)[Len(s) + 1] = e
  BY AppendProperties

\* A frame that is not a message follows nothing.
LEMMA OtherOrder ==
  ASSUME OrderInv, NEW c \in Conns, FrameArrives(c), NEW f \in OtherFrames,
         unread' = [unread EXCEPT ![c] = Append(@, f)], UNCHANGED sent
  PROVE  History' /\ NothingLost' /\ Ordered'
  <1>0. TypeOK /\ UNCHANGED <<hand, net, inbound, taken, sent>>
    BY Zenon DEF FrameArrives, OrderInv, connVars, rxVars
  <1>1. /\ unread[c] \in Seq(Msgs \cup OtherFrames) /\ f \in Msgs \cup OtherFrames /\ f \notin Msgs
        /\ unread'[c] = Append(unread[c], f)
        /\ \A d \in Conns : d # c => unread'[d] = unread[d]
    BY <1>0 DEF TypeOK
  <1>2. /\ Len(unread'[c]) = Len(unread[c]) + 1
        /\ \A k \in 1 .. Len(unread[c]) : unread'[c][k] = unread[c][k]
        /\ unread'[c][Len(unread[c]) + 1] = f
        /\ Len(unread[c]) \in Nat
    BY <1>1, Appended, LenProperties
  <1>3. SentOnce' /\ AllWereSent(taken)' /\ AllWereSent(inbound)' /\ NoneBeforeOpening'
    <2>1. SentOnce'
      BY <1>0 DEF OrderInv, History, SentOnce
    <2>2. AllWereSent(taken)'
      BY <1>0, Zenon DEF OrderInv, History, AllWereSent, WasSent
    <2>3. AllWereSent(inbound)'
      BY <1>0, Zenon DEF OrderInv, History, AllWereSent, WasSent
    <2>4. NoneBeforeOpening'
      BY <1>0, Zenon DEF OrderInv, History, NoneBeforeOpening
    <2>. QED  BY <2>1, <2>2, <2>3, <2>4
  <1>4. UnreadWasSent'
    <2>. SUFFICES ASSUME NEW d \in Conns, NEW k \in 1 .. Len(unread'[d]), unread'[d][k] \in Msgs
                  PROVE  Contains(sent[d], unread'[d][k])
      BY <1>0, Zenon DEF UnreadWasSent
    <2>1. k \in 1 .. Len(unread[d]) /\ unread'[d][k] = unread[d][k]
      BY <1>1, <1>2
    <2>. QED  BY <2>1, Zenon DEF OrderInv, History, UnreadWasSent
  <1>5. NothingLost'
    <2>. SUFFICES ASSUME NEW d \in Conns, NEW m \in Msgs, net[d] = "up", Contains(sent[d], m)
                  PROVE  Somewhere(d, m)'
      BY <1>0, Zenon DEF NothingLost
    <2>1. Somewhere(d, m)
      BY Zenon DEF OrderInv, NothingLost
    <2>2. Contains(unread[d], m) => Contains(unread'[d], m)
      BY <1>1, <1>2 DEF Contains
    <2>. QED  BY <1>0, <2>1, <2>2, Zenon DEF Somewhere
  <1>6. Ordered'
    <2>. SUFFICES ASSUME NEW d \in Conns, NEW a \in Msgs, NEW b \in Msgs, Follows(d, a, b)'
                  PROVE  InOrder(d, a, b)'
      BY Zenon DEF Ordered
    <2>1. InOrder(d, a, b)
      BY <1>0, Zenon DEF OrderInv, Ordered, Follows
    <2>2. UnreadAhead(d, a, b)'
      <3>. SUFFICES ASSUME NEW k \in 1 .. Len(unread'[d]), unread'[d][k] = b
                    PROVE  Contains(taken, a) \/ Contains(inbound, a) \/ EarlierIn(unread'[d], k, a)
        BY <1>0, Zenon DEF UnreadAhead
      <3>1. k \in 1 .. Len(unread[d]) /\ unread[d][k] = b
        BY <1>1, <1>2
      <3>2. EarlierIn(unread[d], k, a) => EarlierIn(unread'[d], k, a)
        BY <1>1, <1>2, <3>1 DEF EarlierIn
      <3>. QED  BY <2>1, <3>1, <3>2, Zenon DEF InOrder, UnreadAhead
    <2>. QED  BY <1>0, <2>1, <2>2, Zenon DEF InOrder, TakenAhead, QueuedAhead
  <1>. QED  BY <1>3, <1>4, <1>5, <1>6, Zenon DEF History

\* A message that is put on a connection comes after all that are there, and
\* what was there before it is not lost.
LEMMA ArrivalOrder ==
  ASSUME OrderInv, NEW c \in Conns, FrameArrives(c), NEW m \in Msgs,
         \A d \in Conns : ~Contains(sent[d], m),
         unread' = [unread EXCEPT ![c] = Append(@, m)],
         sent' = [sent EXCEPT ![c] = Append(@, m)]
  PROVE  History' /\ NothingLost' /\ Ordered'
  <1>0. TypeOK /\ UNCHANGED <<hand, net, inbound, taken>> /\ net[c] = "up"
    BY Zenon DEF FrameArrives, OrderInv, connVars, rxVars
  <1>1. /\ unread[c] \in Seq(Msgs \cup OtherFrames) /\ m \in Msgs \cup OtherFrames
        /\ unread'[c] = Append(unread[c], m)
        /\ sent[c] \in Seq(Msgs) /\ sent'[c] = Append(sent[c], m)
        /\ \A d \in Conns : d # c => unread'[d] = unread[d] /\ sent'[d] = sent[d]
    BY <1>0 DEF TypeOK
  <1>2. /\ Len(unread'[c]) = Len(unread[c]) + 1
        /\ \A k \in 1 .. Len(unread[c]) : unread'[c][k] = unread[c][k]
        /\ unread'[c][Len(unread[c]) + 1] = m
        /\ Len(unread[c]) \in Nat
    BY <1>1, Appended, LenProperties
  <1>3. /\ Len(sent'[c]) = Len(sent[c]) + 1
        /\ \A k \in 1 .. Len(sent[c]) : sent'[c][k] = sent[c][k]
        /\ sent'[c][Len(sent[c]) + 1] = m
        /\ Len(sent[c]) \in Nat
    BY <1>1, Appended, LenProperties
  <1>4. \A d \in Conns : \A i \in 1 .. Len(sent[d]) : sent[d][i] # m
    BY Zenon DEF Contains
  <1>5. \A d \in Conns : \A e : Contains(sent[d], e) => Contains(sent'[d], e)
    BY <1>1, <1>3 DEF Contains
  <1>6. Contains(sent'[c], m)
    BY <1>3 DEF Contains
  <1>7. SentOnce'
    <2>. SUFFICES ASSUME NEW d \in Conns, NEW e \in Conns,
                         NEW i \in 1 .. Len(sent'[d]), NEW j \in 1 .. Len(sent'[e]),
                         sent'[d][i] = sent'[e][j]
                  PROVE  d = e /\ i = j
      BY Zenon DEF SentOnce
    <2>1. \A x \in Conns : \A k \in 1 .. Len(sent'[x]) :
            \/ k \in 1 .. Len(sent[x]) /\ sent'[x][k] = sent[x][k]
            \/ x = c /\ k = Len(sent[c]) + 1 /\ sent'[x][k] = m
      BY <1>1, <1>3
    <2>2. CASE i \in 1 .. Len(sent[d]) /\ sent'[d][i] = sent[d][i]
      <3>1. j \in 1 .. Len(sent[e]) /\ sent'[e][j] = sent[e][j]
        BY <1>4, <2>1, <2>2, Zenon
      <3>. QED  BY <2>2, <3>1 DEF OrderInv, History, SentOnce
    <2>3. CASE d = c /\ i = Len(sent[c]) + 1 /\ sent'[d][i] = m
      <3>1. e = c /\ j = Len(sent[c]) + 1
        BY <1>4, <2>1, <2>3, Zenon
      <3>. QED  BY <2>3, <3>1
    <2>. QED  BY <2>1, <2>2, <2>3, Zenon
  <1>8. AllWereSent(taken)' /\ AllWereSent(inbound)'
    <2>1. \A e : WasSent(e) => WasSent(e)'
      BY <1>5, Zenon DEF WasSent
    <2>2. AllWereSent(taken)'
      BY <1>0, <2>1, Zenon DEF OrderInv, History, AllWereSent
    <2>3. AllWereSent(inbound)'
      BY <1>0, <2>1, Zenon DEF OrderInv, History, AllWereSent
    <2>. QED  BY <2>2, <2>3
  <1>9. UnreadWasSent'
    <2>. SUFFICES ASSUME NEW d \in Conns, NEW k \in 1 .. Len(unread'[d]), unread'[d][k] \in Msgs
                  PROVE  Contains(sent'[d], unread'[d][k])
      BY Zenon DEF UnreadWasSent
    <2>1. \/ k \in 1 .. Len(unread[d]) /\ unread'[d][k] = unread[d][k]
          \/ d = c /\ unread'[d][k] = m
      BY <1>1, <1>2
    <2>. QED  BY <1>5, <1>6, <2>1, Zenon DEF OrderInv, History, UnreadWasSent
  <1>10. NoneBeforeOpening'
    <2>1. hand[c] # "none"
      BY <1>0, Zenon DEF OrderInv, History, NoneBeforeOpening
    <2>. QED  BY <1>0, <1>1, <2>1, Zenon DEF OrderInv, History, NoneBeforeOpening
  <1>11. NothingLost'
    <2>. SUFFICES ASSUME NEW d \in Conns, NEW e \in Msgs, net[d] = "up", Contains(sent'[d], e)
                  PROVE  Somewhere(d, e)'
      BY <1>0, Zenon DEF NothingLost
    <2>1. Contains(unread[d], e) => Contains(unread'[d], e)
      BY <1>1, <1>2 DEF Contains
    <2>2. CASE Contains(sent[d], e)
      BY <1>0, <2>1, <2>2, Zenon DEF OrderInv, NothingLost, Somewhere
    <2>3. CASE d = c /\ e = m
      <3>1. Contains(unread'[c], m)
        BY <1>2 DEF Contains
      <3>. QED  BY <2>3, <3>1, Zenon DEF Somewhere
    <2>. QED  BY <1>1, <1>3, <2>2, <2>3 DEF Contains
  <1>12. Ordered'
    <2>. SUFFICES ASSUME NEW d \in Conns, NEW a \in Msgs, NEW b \in Msgs, Follows(d, a, b)'
                  PROVE  InOrder(d, a, b)'
      BY Zenon DEF Ordered
    <2>0. Tag[a] = Tag[b]
      BY Zenon DEF Follows
    <2>1. PICK i, j \in 1 .. Len(sent'[d]) : i < j /\ sent'[d][i] = a /\ sent'[d][j] = b
      BY Zenon DEF Follows
    <2>2. i \in 1 .. Len(sent[d]) /\ sent[d][i] = a
      BY <1>1, <1>3, <2>1
    <2>3. CASE b = m
      <3>1. d = c
        BY <1>1, <1>4, <2>1, <2>3, Zenon
      <3>2. \A k \in 1 .. Len(taken) : taken[k] # b
        BY <2>3, Zenon DEF OrderInv, History, AllWereSent, WasSent
      <3>3. \A k \in 1 .. Len(inbound) : inbound[k] # b
        BY <2>3, Zenon DEF OrderInv, History, AllWereSent, WasSent
      <3>4. \A k \in 1 .. Len(unread[c]) : unread[c][k] # b
        BY <2>3, Zenon DEF OrderInv, History, UnreadWasSent
      <3>5. Somewhere(c, a)
        BY <1>0, <2>2, <3>1, Zenon DEF OrderInv, NothingLost, Contains
      <3>6. UnreadAhead(c, a, b)'
        <4>. SUFFICES ASSUME NEW k \in 1 .. Len(unread'[c]), unread'[c][k] = b,
                             ~Contains(taken, a), ~Contains(inbound, a)
                      PROVE  EarlierIn(unread'[c], k, a)
          BY <1>0, Zenon DEF UnreadAhead
        <4>1. k = Len(unread[c]) + 1
          BY <1>2, <3>4
        <4>2. PICK l \in 1 .. Len(unread[c]) : unread[c][l] = a
          BY <3>5, Zenon DEF Somewhere, Contains
        <4>. QED  BY <1>2, <4>1, <4>2 DEF EarlierIn
      <3>. QED  BY <1>0, <3>1, <3>2, <3>3, <3>6, Zenon DEF InOrder, TakenAhead, QueuedAhead
    <2>4. CASE b # m
      <3>1. j \in 1 .. Len(sent[d]) /\ sent[d][j] = b
        BY <1>1, <1>3, <2>1, <2>4
      <3>2. Follows(d, a, b)
        BY <2>0, <2>1, <2>2, <3>1, Zenon DEF Follows
      <3>3. InOrder(d, a, b)
        BY <3>2, Zenon DEF OrderInv, Ordered
      <3>4. UnreadAhead(d, a, b)'
        <4>. SUFFICES ASSUME NEW k \in 1 .. Len(unread'[d]), unread'[d][k] = b
                      PROVE  Contains(taken, a) \/ Contains(inbound, a) \/ EarlierIn(unread'[d], k, a)
          BY <1>0, Zenon DEF UnreadAhead
        <4>1. k \in 1 .. Len(unread[d]) /\ unread[d][k] = b
          BY <1>1, <1>2, <2>4
        <4>2. EarlierIn(unread[d], k, a) => EarlierIn(unread'[d], k, a)
          BY <1>1, <1>2, <4>1 DEF EarlierIn
        <4>. QED  BY <3>3, <4>1, <4>2, Zenon DEF InOrder, UnreadAhead
      <3>. QED  BY <1>0, <3>3, <3>4, Zenon DEF InOrder, TakenAhead, QueuedAhead
    <2>. QED  BY <2>3, <2>4
  <1>. QED  BY <1>7, <1>8, <1>9, <1>10, <1>11, <1>12, Zenon DEF History

\* The message that is read goes to the end of the queue; what was ahead of it
\* has left the connection before.
LEMMA ReadOrder ==
  ASSUME OrderInv, NEW c \in Conns, ReadData(c)
  PROVE  History' /\ NothingLost' /\ Ordered'
  <1>. DEFINE m == Head(unread[c])
  <1>0. TypeOK /\ UNCHANGED <<hand, taken, sent>> /\ m \in Msgs /\ unread[c] # <<>>
    BY Zenon DEF ReadData, OrderInv
  <1>1. /\ inbound \in Seq(Msgs) /\ inbound' = Append(inbound, m)
        /\ unread[c] \in Seq(Msgs \cup OtherFrames)
    BY <1>0, Zenon DEF TypeOK, ReadData, QueueInbound
  <1>2. /\ Len(inbound') = Len(inbound) + 1
        /\ \A k \in 1 .. Len(inbound) : inbound'[k] = inbound[k]
        /\ inbound'[Len(inbound) + 1] = m
        /\ Len(inbound) \in Nat
    BY <1>0, <1>1, Appended, LenProperties
  <1>3. /\ (unread'[c] = <<>> /\ net'[c] # "up") \/ unread'[c] = Tail(unread[c])
        /\ \A d \in Conns : d # c => unread'[d] = unread[d]
        /\ \A d \in Conns : net'[d] = "up" => net[d] = "up"
    BY <1>0 DEF TypeOK, ReadData, Drop
  <1>4. /\ m = unread[c][1] /\ 1 \in 1 .. Len(unread[c])
        /\ \A k \in 1 .. Len(unread'[c]) :
             k + 1 \in 1 .. Len(unread[c]) /\ unread'[c][k] = unread[c][k + 1]
        /\ unread'[c] = Tail(unread[c]) => Len(unread'[c]) = Len(unread[c]) - 1
        /\ Len(unread[c]) \in Nat
    <2>1. /\ Tail(unread[c]) \in Seq(Msgs \cup OtherFrames) /\ Len(Tail(unread[c])) = Len(unread[c]) - 1
          /\ \A k \in 1 .. Len(Tail(unread[c])) : Tail(unread[c])[k] = unread[c][k + 1]
          /\ m = unread[c][1] /\ Len(unread[c]) \in Nat /\ Len(unread[c]) # 0
      BY <1>0, <1>1, HeadTailProperties, LenProperties, EmptySeq
    <2>. HIDE DEF m
    <2>2. CASE unread'[c] = Tail(unread[c])
      BY <2>1, <2>2
    <2>3. CASE unread'[c] = <<>>
      <3>1. Len(unread'[c]) = 0
        BY <2>3
      <3>2. unread'[c] # Tail(unread[c]) \/ Len(unread[c]) - 1 = 0
        BY <2>1, <3>1
      <3>. QED  BY <2>1, <3>1, <3>2
    <2>. QED  BY <1>3, <2>2, <2>3
  <1>. HIDE DEF m
  <1>5. Contains(sent[c], m)
    BY <1>0, <1>4, Zenon DEF OrderInv, History, UnreadWasSent
  <1>6. \A e : Contains(inbound, e) => Contains(inbound', e)
    BY <1>2 DEF Contains
  <1>7. Contains(inbound', m)
    BY <1>2 DEF Contains
  <1>8. History'
    <2>1. SentOnce'
      BY <1>0 DEF OrderInv, History, SentOnce
    <2>2. AllWereSent(taken)'
      BY <1>0, Zenon DEF OrderInv, History, AllWereSent, WasSent
    <2>3. AllWereSent(inbound)'
      <3>. SUFFICES ASSUME NEW k \in 1 .. Len(inbound')
                    PROVE  \E d \in Conns : Contains(sent[d], inbound'[k])
        BY <1>0, Zenon DEF AllWereSent, WasSent
      <3>1. (k \in 1 .. Len(inbound) /\ inbound'[k] = inbound[k]) \/ inbound'[k] = m
        BY <1>2
      <3>. QED  BY <1>5, <3>1, Zenon DEF OrderInv, History, AllWereSent, WasSent
    <2>4. UnreadWasSent'
      <3>. SUFFICES ASSUME NEW d \in Conns, NEW k \in 1 .. Len(unread'[d]), unread'[d][k] \in Msgs
                    PROVE  Contains(sent[d], unread'[d][k])
        BY <1>0, Zenon DEF UnreadWasSent
      <3>1. \E l \in 1 .. Len(unread[d]) : unread'[d][k] = unread[d][l]
        BY <1>3, <1>4
      <3>. QED  BY <3>1, Zenon DEF OrderInv, History, UnreadWasSent
    <2>5. NoneBeforeOpening'
      BY <1>0, <1>3, Zenon DEF OrderInv, History, NoneBeforeOpening
    <2>. QED  BY <2>1, <2>2, <2>3, <2>4, <2>5, Zenon DEF History
  <1>9. NothingLost'
    <2>. SUFFICES ASSUME NEW d \in Conns, NEW e \in Msgs, net'[d] = "up", Contains(sent[d], e)
                  PROVE  Somewhere(d, e)'
      BY <1>0, Zenon DEF NothingLost
    <2>1. Somewhere(d, e)
      BY <1>3, Zenon DEF OrderInv, NothingLost
    <2>2. Contains(unread[d], e) => Contains(unread'[d], e) \/ e = m
      <3>1. CASE d = c
        <4>1. unread'[c] = Tail(unread[c]) /\ Len(unread'[c]) = Len(unread[c]) - 1
          BY <1>3, <1>4, <3>1
        <4>2. ASSUME NEW l \in 1 .. Len(unread[c]), l # 1
              PROVE  l - 1 \in 1 .. Len(unread'[c]) /\ unread'[c][l - 1] = unread[c][l]
          <5>1. l - 1 \in 1 .. Len(unread'[c]) /\ (l - 1) + 1 = l
            BY <1>4, <4>1, <4>2
          <5>. QED  BY <1>4, <5>1
        <4>. QED  BY <1>4, <3>1, <4>2 DEF Contains
      <3>2. CASE d # c
        BY <1>3, <3>2, Zenon
      <3>. QED  BY <3>1, <3>2
    <2>. QED  BY <1>0, <1>6, <1>7, <2>1, <2>2, Zenon DEF Somewhere
  <1>10. Ordered'
    <2>. SUFFICES ASSUME NEW d \in Conns, NEW a \in Msgs, NEW b \in Msgs, Follows(d, a, b)'
                  PROVE  InOrder(d, a, b)'
      BY Zenon DEF Ordered
    <2>1. Follows(d, a, b)
      BY <1>0, Zenon DEF Follows
    <2>2. InOrder(d, a, b)
      BY <2>1, Zenon DEF OrderInv, Ordered
    <2>3. ASSUME b = m
          PROVE  Contains(taken, a) \/ Contains(inbound, a)
      <3>1. d = c
        BY <1>5, <2>1, <2>3 DEF Follows, Contains, OrderInv, History, SentOnce
      <3>2. ~EarlierIn(unread[c], 1, a)
        BY DEF EarlierIn
      <3>. QED  BY <1>4, <2>2, <2>3, <3>1, <3>2, Zenon DEF InOrder, UnreadAhead
    <2>4. QueuedAhead(a, b)'
      <3>. SUFFICES ASSUME NEW k \in 1 .. Len(inbound'), inbound'[k] = b
                    PROVE  Contains(taken, a) \/ EarlierIn(inbound', k, a)
        BY <1>0, Zenon DEF QueuedAhead
      <3>1. CASE k \in 1 .. Len(inbound)
        <4>1. Contains(taken, a) \/ EarlierIn(inbound, k, a)
          BY <1>2, <2>2, <3>1, Zenon DEF InOrder, QueuedAhead
        <4>. QED  BY <1>2, <3>1, <4>1 DEF EarlierIn
      <3>2. CASE k = Len(inbound) + 1
        <4>1. Contains(inbound, a) => EarlierIn(inbound', k, a)
          BY <1>2, <3>2 DEF Contains, EarlierIn
        <4>. QED  BY <1>2, <2>3, <3>2, <4>1
      <3>. QED  BY <1>2, <3>1, <3>2
    <2>5. UnreadAhead(d, a, b)'
      <3>. SUFFICES ASSUME NEW k \in 1 .. Len(unread'[d]), unread'[d][k] = b,
                           ~Contains(taken, a), ~Contains(inbound', a)
                    PROVE  EarlierIn(unread'[d], k, a)
        BY <1>0, Zenon DEF UnreadAhead
      <3>1. ~Contains(inbound, a)
        BY <1>6
      <3>2. CASE d = c
        <4>1. k + 1 \in 1 .. Len(unread[c]) /\ unread[c][k + 1] = b
          BY <1>4, <3>2
        <4>2. PICK l \in 1 .. (k + 1) - 1 : unread[c][l] = a
          BY <2>2, <3>1, <3>2, <4>1, Zenon DEF InOrder, UnreadAhead, EarlierIn
        <4>3. l # 1
          BY <1>4, <1>7, <4>2
        <4>4. l - 1 \in 1 .. k - 1 /\ l - 1 \in 1 .. Len(unread'[c]) /\ (l - 1) + 1 = l
          BY <3>2, <4>3
        <4>5. unread'[c][l - 1] = a
          BY <1>4, <4>2, <4>4
        <4>. QED  BY <3>2, <4>4, <4>5, Zenon DEF EarlierIn
      <3>3. CASE d # c
        BY <1>3, <2>2, <3>1, <3>3, Zenon DEF InOrder, UnreadAhead
      <3>. QED  BY <3>2, <3>3
    <2>. QED  BY <1>0, <2>2, <2>4, <2>5, Zenon DEF InOrder, TakenAhead
  <1>. QED  BY <1>8, <1>9, <1>10

\* What taking a message does: the first of its tag leaves the queue, and the
\* others stay in order.
LEMMA Taking ==
  ASSUME TypeOK, NEW r \in Receivers, Scan(r), Matching(r) # {}
  PROVE  \E o \in 1 .. Len(inbound) :
           /\ inbound[o] \in Msgs
           /\ taken' = Append(taken, inbound[o])
           /\ \A k \in 1 .. Len(inbound) : Tag[inbound[k]] = Tag[inbound[o]] => o <= k
           /\ \A k \in 1 .. Len(inbound') :
                \/ k < o /\ k \in 1 .. Len(inbound) /\ inbound'[k] = inbound[k]
                \/ k >= o /\ k + 1 \in 1 .. Len(inbound) /\ inbound'[k] = inbound[k + 1]
           /\ \A k \in 1 .. Len(inbound) :
                \/ k = o
                \/ k < o /\ k \in 1 .. Len(inbound') /\ inbound'[k] = inbound[k]
                \/ k > o /\ k - 1 \in 1 .. Len(inbound') /\ inbound'[k - 1] = inbound[k]
  <1>. DEFINE o == Oldest(r)
  <1>1. /\ inbound \in Seq(Msgs)
        /\ inbound' = RemoveAt(inbound, o) /\ taken' = Append(taken, inbound[o])
    BY Zenon DEF Scan, TypeOK
  <1>2. o \in Matching(r)
    BY <1>1, OldestMatches, Zenon
  <1>3. o \in 1 .. Len(inbound) /\ Tag[inbound[o]] = RTag[r] /\ inbound[o] \in Msgs
    BY <1>1, <1>2 DEF Matching
  <1>4. \A k \in 1 .. Len(inbound) : Tag[inbound[k]] = Tag[inbound[o]] => o <= k
    <2>1. \E k \in Matching(r) : \A j \in Matching(r) : k <= j
      BY <1>1, OldestIsFirst, Zenon
    <2>2. \A k \in Matching(r) : o <= k
      BY <2>1, Zenon DEF Oldest
    <2>. HIDE DEF o
    <2>. QED  BY <1>3, <2>2, Zenon DEF Matching
  <1>5. /\ Len(inbound') = Len(inbound) - 1
        /\ \A k \in 1 .. Len(inbound) - 1 : inbound'[k] = IF k < o THEN inbound[k] ELSE inbound[k + 1]
        /\ Len(inbound) \in Nat
    BY <1>1, <1>3, RemovedAt, LenProperties
  <1>. HIDE DEF o
  <1>6. \A k \in 1 .. Len(inbound') :
          \/ k < o /\ k \in 1 .. Len(inbound) /\ inbound'[k] = inbound[k]
          \/ k >= o /\ k + 1 \in 1 .. Len(inbound) /\ inbound'[k] = inbound[k + 1]
    BY <1>3, <1>5
  <1>7. ASSUME NEW k \in 1 .. Len(inbound), k > o
        PROVE  k - 1 \in 1 .. Len(inbound') /\ inbound'[k - 1] = inbound[k]
    <2>1. k - 1 \in 1 .. Len(inbound) - 1 /\ ~(k - 1 < o) /\ (k - 1) + 1 = k
      BY <1>3, <1>5, <1>7
    <2>. QED  BY <1>5, <2>1
  <1>8. \A k \in 1 .. Len(inbound) :
          \/ k = o
          \/ k < o /\ k \in 1 .. Len(inbound') /\ inbound'[k] = inbound[k]
          \/ k > o /\ k - 1 \in 1 .. Len(inbound') /\ inbound'[k - 1] = inbound[k]
    BY <1>3, <1>5, <1>7
  <1>. QED  BY <1>1, <1>3, <1>4, <1>6, <1>8, Zenon

\* The search takes the oldest message of a tag: what was sent before it with
\* that tag was taken before.
LEMMA TakeOrder ==
  ASSUME OrderInv, NEW r \in Receivers, Scan(r), Matching(r) # {}
  PROVE  History' /\ NothingLost' /\ Ordered'
  <1>1. TypeOK /\ taken \in Seq(Msgs) /\ UNCHANGED <<hand, net, unread, sent>>
    BY Zenon DEF Scan, OrderInv, TypeOK, connVars
  <1>2. PICK o \in 1 .. Len(inbound) :
          /\ inbound[o] \in Msgs
          /\ taken' = Append(taken, inbound[o])
          /\ \A k \in 1 .. Len(inbound) : Tag[inbound[k]] = Tag[inbound[o]] => o <= k
          /\ \A k \in 1 .. Len(inbound') :
               \/ k < o /\ k \in 1 .. Len(inbound) /\ inbound'[k] = inbound[k]
               \/ k >= o /\ k + 1 \in 1 .. Len(inbound) /\ inbound'[k] = inbound[k + 1]
          /\ \A k \in 1 .. Len(inbound) :
               \/ k = o
               \/ k < o /\ k \in 1 .. Len(inbound') /\ inbound'[k] = inbound[k]
               \/ k > o /\ k - 1 \in 1 .. Len(inbound') /\ inbound'[k - 1] = inbound[k]
    BY <1>1, Taking, Zenon
  <1>. DEFINE m == inbound[o]
  <1>3. /\ Len(taken') = Len(taken) + 1
        /\ \A k \in 1 .. Len(taken) : taken'[k] = taken[k]
        /\ taken'[Len(taken) + 1] = m
        /\ Len(taken) \in Nat
    BY <1>1, <1>2, Appended, LenProperties
  <1>. HIDE DEF m
  <1>4. m \in Msgs /\ \A k \in 1 .. Len(inbound) : k = o => inbound[k] = m
    BY <1>2 DEF m
  <1>5. \A e : Contains(taken, e) => Contains(taken', e)
    BY <1>3 DEF Contains
  <1>6. Contains(taken', m)
    BY <1>3 DEF Contains
  <1>7. \A e : Contains(inbound, e) => Contains(inbound', e) \/ e = m
    BY <1>2, <1>4 DEF Contains
  <1>8. History'
    <2>1. SentOnce'
      BY <1>1 DEF OrderInv, History, SentOnce
    <2>2. \A e : WasSent(e)' = WasSent(e)
      BY <1>1, Zenon DEF WasSent
    <2>3. WasSent(m)
      BY <1>2, Zenon DEF OrderInv, History, AllWereSent, m
    <2>4. AllWereSent(taken)'
      <3>. SUFFICES ASSUME NEW k \in 1 .. Len(taken')
                    PROVE  WasSent(taken'[k])
        BY <1>1, Zenon DEF AllWereSent, WasSent
      <3>1. (k \in 1 .. Len(taken) /\ taken'[k] = taken[k]) \/ taken'[k] = m
        BY <1>3
      <3>. QED  BY <2>3, <3>1, Zenon DEF OrderInv, History, AllWereSent
    <2>5. AllWereSent(inbound)'
      <3>. SUFFICES ASSUME NEW k \in 1 .. Len(inbound')
                    PROVE  WasSent(inbound'[k])
        BY <1>1, Zenon DEF AllWereSent, WasSent
      <3>1. \E l \in 1 .. Len(inbound) : inbound'[k] = inbound[l]
        BY <1>2
      <3>. QED  BY <3>1, Zenon DEF OrderInv, History, AllWereSent
    <2>6. UnreadWasSent' /\ NoneBeforeOpening'
      BY <1>1, Zenon DEF OrderInv, History, UnreadWasSent, NoneBeforeOpening
    <2>. QED  BY <2>1, <2>4, <2>5, <2>6, Zenon DEF History
  <1>9. NothingLost'
    <2>. SUFFICES ASSUME NEW d \in Conns, NEW e \in Msgs, net[d] = "up", Contains(sent[d], e)
                  PROVE  Somewhere(d, e)'
      BY <1>1, Zenon DEF NothingLost
    <2>1. Somewhere(d, e)
      BY Zenon DEF OrderInv, NothingLost
    <2>. QED  BY <1>1, <1>5, <1>6, <1>7, <2>1, Zenon DEF Somewhere
  <1>10. Ordered'
    <2>. SUFFICES ASSUME NEW d \in Conns, NEW a \in Msgs, NEW b \in Msgs, Follows(d, a, b)'
                  PROVE  InOrder(d, a, b)'
      BY Zenon DEF Ordered
    <2>1. Follows(d, a, b)
      BY <1>1, Zenon DEF Follows
    <2>2. InOrder(d, a, b)
      BY <2>1, Zenon DEF OrderInv, Ordered
    <2>3. TakenAhead(a, b)'
      <3>. SUFFICES ASSUME NEW k \in 1 .. Len(taken'), taken'[k] = b
                    PROVE  EarlierIn(taken', k, a)
        BY Zenon DEF TakenAhead
      <3>1. CASE k \in 1 .. Len(taken)
        <4>1. EarlierIn(taken, k, a)
          BY <1>3, <2>2, <3>1, Zenon DEF InOrder, TakenAhead
        <4>. QED  BY <1>3, <3>1, <4>1 DEF EarlierIn
      <3>2. CASE k = Len(taken) + 1
        <4>1. b = m
          BY <1>3, <3>2
        <4>2. ~EarlierIn(inbound, o, a)
          <5>. SUFFICES ASSUME NEW l \in 1 .. o - 1, inbound[l] = a
                        PROVE  FALSE
            BY Zenon DEF EarlierIn
          <5>1. l \in 1 .. Len(inbound) /\ l < o
            BY <1>2
          <5>2. Tag[inbound[l]] = Tag[inbound[o]]
            BY <2>1, <4>1, Zenon DEF Follows, m
          <5>. QED  BY <1>2, <5>1, <5>2
        <4>3. Contains(taken, a)
          BY <1>2, <1>4, <2>2, <4>1, <4>2, Zenon DEF InOrder, QueuedAhead
        <4>. QED  BY <1>3, <3>2, <4>3 DEF Contains, EarlierIn
      <3>. QED  BY <1>3, <3>1, <3>2
    <2>4. QueuedAhead(a, b)'
      <3>. SUFFICES ASSUME NEW k \in 1 .. Len(inbound'), inbound'[k] = b, ~Contains(taken', a)
                    PROVE  EarlierIn(inbound', k, a)
        BY Zenon DEF QueuedAhead
      <3>0. ~Contains(taken, a) /\ a # m
        BY <1>5, <1>6, Zenon
      <3>1. PICK l \in 1 .. Len(inbound) : inbound[l] = b /\ ((l = k /\ k < o) \/ (l = k + 1 /\ k >= o))
        BY <1>2
      <3>2. PICK p \in 1 .. l - 1 : inbound[p] = a
        BY <2>2, <3>0, <3>1, Zenon DEF InOrder, QueuedAhead, EarlierIn
      <3>3. p \in 1 .. Len(inbound) /\ p # o
        BY <1>4, <3>0, <3>2
      <3>4. \/ p < o /\ p \in 1 .. k - 1 /\ inbound'[p] = a
            \/ p > o /\ p - 1 \in 1 .. k - 1 /\ inbound'[p - 1] = a
        BY <1>2, <3>1, <3>2, <3>3
      <3>. QED  BY <3>4, Zenon DEF EarlierIn
    <2>5. UnreadAhead(d, a, b)'
      BY <1>1, <1>5, <1>6, <1>7, <2>2, Zenon DEF InOrder, UnreadAhead
    <2>. QED  BY <2>3, <2>4, <2>5, Zenon DEF InOrder
  <1>. QED  BY <1>8, <1>9, <1>10

\* Initially there is no message.
LEMMA InitOrder == Init => OrderInv
  <1>. SUFFICES ASSUME Init
                PROVE  OrderInv
    OBVIOUS
  <1>1. TypeOK
    BY InitType
  <1>2. /\ \A c \in Conns : sent[c] = <<>> /\ unread[c] = <<>> /\ net[c] = "none"
        /\ taken = <<>> /\ inbound = <<>>
    BY DEF Init
  <1>3. 1 .. Len(<<>>) = {}
    OBVIOUS
  <1>4. History
    BY <1>2, <1>3 DEF History, SentOnce, AllWereSent, UnreadWasSent, NoneBeforeOpening
  <1>5. NothingLost
    BY <1>2 DEF NothingLost
  <1>6. Ordered
    BY <1>2, <1>3, Zenon DEF Ordered, Follows
  <1>. QED  BY <1>1, <1>4, <1>5, <1>6 DEF OrderInv

\* Every step keeps the order of messages.
LEMMA StepOrder == OrderInv /\ [Next]_vars => OrderInv'
  <1>. SUFFICES ASSUME OrderInv, [Next]_vars
                PROVE  OrderInv'
    OBVIOUS
  <1>1. TypeOK
    BY Zenon DEF OrderInv
  <1>2. TypeOK'
    BY <1>1, ConnectionType, ReaderType, ReceiverType, CloseType, StutterType, Zenon DEF Next
  <1>3. CASE FlowKept
    BY <1>2, <1>3, KeptOrder, Zenon DEF OrderInv
  <1>4. ASSUME NEW c \in Conns, FrameArrives(c)
        PROVE  History' /\ NothingLost' /\ Ordered'
    BY <1>4, OtherOrder, ArrivalOrder, Zenon DEF FrameArrives
  <1>5. ASSUME NEW c \in Conns, ReadData(c)
        PROVE  History' /\ NothingLost' /\ Ordered'
    BY <1>5, ReadOrder, Zenon
  <1>6. ASSUME NEW r \in Receivers, Scan(r), Matching(r) # {}
        PROVE  History' /\ NothingLost' /\ Ordered'
    BY <1>6, TakeOrder, Zenon
  <1>. QED  BY <1>1, <1>2, <1>3, <1>4, <1>5, <1>6, FlowSteps, Zenon DEF OrderInv

\* FifoPerTag of Delivery: however many receivers search the queue, give up and
\* come back, and whatever becomes of the connection, a message is received only
\* after every message of its tag that was sent before it on that connection.
THEOREM MessagesInOrder == Spec => []FifoPerTag
  <1>1. OrderInv => FifoPerTag
    <2>. SUFFICES ASSUME OrderInv, NEW c \in Conns,
                         NEW i \in 1 .. Len(sent[c]), NEW j \in 1 .. Len(sent[c]),
                         i < j, Tag[sent[c][i]] = Tag[sent[c][j]],
                         NEW l \in 1 .. Len(taken), taken[l] = sent[c][j]
                  PROVE  \E k \in 1 .. l - 1 : taken[k] = sent[c][i]
      BY Zenon DEF FifoPerTag
    <2>1. sent[c][i] \in Msgs /\ sent[c][j] \in Msgs
      BY DEF OrderInv, TypeOK
    <2>2. Follows(c, sent[c][i], sent[c][j])
      BY Zenon DEF Follows
    <2>. QED  BY <2>1, <2>2, Zenon DEF OrderInv, Ordered, InOrder, TakenAhead, EarlierIn
  <1>. QED  BY <1>1, InitOrder, StepOrder, PTL DEF Spec

---------------------------------------------------------------------------
(* A channel for each tag                                                  *)

(* A message is in one place at a time, and there once.                    *)
Once(s) == \A i, j \in 1 .. Len(s) : s[i] = s[j] /\ s[i] \in Msgs => i = j

Apart ==
    /\ Once(inbound)
    /\ \A c \in Conns : Once(unread[c])
    /\ \A m \in Msgs : Contains(inbound, m) => ~Contains(taken, m)
    /\ \A c \in Conns : \A m \in Msgs :
         Contains(unread[c], m) => ~Contains(inbound, m) /\ ~Contains(taken, m)

PlaceInv == OrderInv /\ Apart

\* A step that moves no message keeps the places.
LEMMA KeptApart ==
  ASSUME PlaceInv, FlowKept
  PROVE  Apart'
  <1>1. UNCHANGED <<inbound, taken>> /\ \A c \in Conns : unread'[c] = unread[c] \/ unread'[c] = <<>>
    BY Zenon DEF FlowKept, KeptAt
  <1>2. Once(<<>>) /\ \A m : ~Contains(<<>>, m)
    BY DEF Once, Contains
  <1>3. \A c \in Conns : Once(unread[c])'
    <2>. SUFFICES ASSUME NEW c \in Conns
                  PROVE  Once(unread'[c])
      BY Zenon DEF Once
    <2>. QED  BY <1>1, <1>2, Zenon DEF PlaceInv, Apart
  <1>4. ASSUME NEW c \in Conns, NEW m \in Msgs, Contains(unread'[c], m)
        PROVE  ~Contains(inbound, m) /\ ~Contains(taken, m)
    BY <1>1, <1>2, <1>4, Zenon DEF PlaceInv, Apart
  <1>5. Once(inbound)' /\ \A m \in Msgs : Contains(inbound, m)' => ~Contains(taken, m)'
    BY <1>1, Zenon DEF PlaceInv, Apart, Once, Contains
  <1>. QED  BY <1>1, <1>3, <1>4, <1>5, Zenon DEF Apart

\* A frame that arrives is a message that was nowhere, or none at all.
LEMMA ArrivalApart ==
  ASSUME PlaceInv, NEW c \in Conns, FrameArrives(c)
  PROVE  Apart'
  <1>0. TypeOK /\ UNCHANGED <<inbound, taken>>
    BY Zenon DEF FrameArrives, PlaceInv, OrderInv, rxVars
  <1>1. PICK f \in Msgs \cup OtherFrames :
          /\ unread' = [unread EXCEPT ![c] = Append(@, f)]
          /\ f \in Msgs => \A d \in Conns : ~Contains(sent[d], f)
    BY DEF FrameArrives
  <1>2. /\ unread[c] \in Seq(Msgs \cup OtherFrames)
        /\ unread'[c] = Append(unread[c], f)
        /\ \A d \in Conns : d # c => unread'[d] = unread[d]
    BY <1>0, <1>1 DEF TypeOK
  <1>3. /\ Len(unread'[c]) = Len(unread[c]) + 1
        /\ \A k \in 1 .. Len(unread[c]) : unread'[c][k] = unread[c][k]
        /\ unread'[c][Len(unread[c]) + 1] = f
        /\ Len(unread[c]) \in Nat
    BY <1>2, Appended, LenProperties
  <1>4. f \in Msgs => ~Contains(taken, f) /\ ~Contains(inbound, f)
    <2>1. (\A k \in 1 .. Len(taken) : WasSent(taken[k])) /\ (\A k \in 1 .. Len(inbound) : WasSent(inbound[k]))
      BY Zenon DEF PlaceInv, OrderInv, History, AllWereSent
    <2>2. \A m \in Msgs : Contains(taken, m) \/ Contains(inbound, m) => WasSent(m)
      BY <2>1, Zenon DEF Contains
    <2>. QED  BY <1>1, <2>2, Zenon DEF WasSent
  <1>5. f \in Msgs => \A k \in 1 .. Len(unread[c]) : unread[c][k] # f
    BY <1>1, Zenon DEF PlaceInv, OrderInv, History, UnreadWasSent
  <1>6. Once(unread'[c])
    <2>1. Once(unread[c])
      BY Zenon DEF PlaceInv, Apart
    <2>. SUFFICES ASSUME NEW i \in 1 .. Len(unread'[c]), NEW j \in 1 .. Len(unread'[c]),
                         unread'[c][i] = unread'[c][j], unread'[c][i] \in Msgs
                  PROVE  i = j
      BY Zenon DEF Once
    <2>2. \A k \in 1 .. Len(unread'[c]) :
            \/ k \in 1 .. Len(unread[c]) /\ unread'[c][k] = unread[c][k]
            \/ k = Len(unread[c]) + 1 /\ unread'[c][k] = f
      BY <1>3
    <2>3. CASE i \in 1 .. Len(unread[c]) /\ unread'[c][i] = unread[c][i]
      <3>1. j \in 1 .. Len(unread[c]) /\ unread'[c][j] = unread[c][j]
        BY <1>5, <2>2, <2>3, Zenon
      <3>. QED  BY <2>1, <2>3, <3>1, Zenon DEF Once
    <2>4. CASE i = Len(unread[c]) + 1 /\ unread'[c][i] = f
      BY <1>5, <2>2, <2>4, Zenon
    <2>. QED  BY <2>2, <2>3, <2>4, Zenon
  <1>7. ASSUME NEW d \in Conns
        PROVE  Once(unread'[d])
    BY <1>2, <1>6, Zenon DEF PlaceInv, Apart
  <1>8. ASSUME NEW d \in Conns, NEW m \in Msgs, Contains(unread'[d], m)
        PROVE  ~Contains(inbound, m) /\ ~Contains(taken, m)
    <2>1. Contains(unread[d], m) \/ m = f
      <3>1. PICK k \in 1 .. Len(unread'[d]) : unread'[d][k] = m
        BY <1>8, Zenon DEF Contains
      <3>2. (k \in 1 .. Len(unread[d]) /\ unread'[d][k] = unread[d][k]) \/ unread'[d][k] = f
        BY <1>2, <1>3
      <3>. QED  BY <3>1, <3>2, Zenon DEF Contains
    <2>. QED  BY <1>4, <2>1, Zenon DEF PlaceInv, Apart
  <1>9. Once(inbound)' /\ \A m \in Msgs : Contains(inbound, m)' => ~Contains(taken, m)'
    BY <1>0, Zenon DEF PlaceInv, Apart, Once, Contains
  <1>. QED  BY <1>0, <1>7, <1>8, <1>9, Zenon DEF Apart, Once

\* What reading a message does to the frames of its connection.
LEMMA HeadRead ==
  ASSUME TypeOK, NEW c \in Conns, ReadData(c)
  PROVE  /\ Head(unread[c]) \in Msgs
         /\ inbound' = Append(inbound, Head(unread[c]))
         /\ 1 \in 1 .. Len(unread[c]) /\ Head(unread[c]) = unread[c][1]
         /\ \A k \in 1 .. Len(unread'[c]) :
              k + 1 \in 1 .. Len(unread[c]) /\ unread'[c][k] = unread[c][k + 1]
         /\ \A d \in Conns : d # c => unread'[d] = unread[d]
         /\ UNCHANGED <<taken, sent>>
  <1>0. UNCHANGED <<taken, sent>> /\ Head(unread[c]) \in Msgs /\ unread[c] # <<>>
    BY Zenon DEF ReadData
  <1>1. unread[c] \in Seq(Msgs \cup OtherFrames) /\ inbound' = Append(inbound, Head(unread[c]))
    BY Zenon DEF TypeOK, ReadData, QueueInbound
  <1>2. /\ unread'[c] = <<>> \/ unread'[c] = Tail(unread[c])
        /\ \A d \in Conns : d # c => unread'[d] = unread[d]
    BY DEF TypeOK, ReadData, Drop
  <1>3. /\ Len(Tail(unread[c])) = Len(unread[c]) - 1
        /\ \A k \in 1 .. Len(Tail(unread[c])) : Tail(unread[c])[k] = unread[c][k + 1]
        /\ Head(unread[c]) = unread[c][1] /\ Len(unread[c]) \in Nat /\ Len(unread[c]) # 0
    BY <1>0, <1>1, HeadTailProperties, LenProperties, EmptySeq
  <1>4. ASSUME NEW k \in 1 .. Len(unread'[c])
        PROVE  k + 1 \in 1 .. Len(unread[c]) /\ unread'[c][k] = unread[c][k + 1]
    <2>1. unread'[c] = Tail(unread[c])
      <3>1. Len(<<>>) = 0
        OBVIOUS
      <3>2. unread'[c] # <<>>
        BY <3>1
      <3>. QED  BY <1>2, <3>2, Zenon
    <2>. QED  BY <1>3, <2>1
  <1>. QED  BY <1>0, <1>1, <1>2, <1>3, <1>4

\* A message that is read moves from its connection to the queue.
LEMMA ReadApart ==
  ASSUME PlaceInv, NEW c \in Conns, ReadData(c)
  PROVE  Apart'
  <1>. DEFINE m == Head(unread[c])
  <1>0. TypeOK /\ inbound \in Seq(Msgs)
    BY Zenon DEF PlaceInv, OrderInv, TypeOK
  <1>1. /\ m \in Msgs
        /\ inbound' = Append(inbound, m)
        /\ 1 \in 1 .. Len(unread[c]) /\ m = unread[c][1]
        /\ \A k \in 1 .. Len(unread'[c]) :
             k + 1 \in 1 .. Len(unread[c]) /\ unread'[c][k] = unread[c][k + 1]
        /\ \A d \in Conns : d # c => unread'[d] = unread[d]
        /\ UNCHANGED <<taken, sent>>
    BY <1>0, HeadRead, Zenon
  <1>. HIDE DEF m
  <1>2. /\ Len(inbound') = Len(inbound) + 1
        /\ \A k \in 1 .. Len(inbound) : inbound'[k] = inbound[k]
        /\ inbound'[Len(inbound) + 1] = m
        /\ Len(inbound) \in Nat
    BY <1>0, <1>1, Appended, LenProperties
  <1>3. Contains(unread[c], m)
    BY <1>1, Zenon DEF Contains
  <1>4. ~Contains(inbound, m) /\ ~Contains(taken, m)
    BY <1>1, <1>3, Zenon DEF PlaceInv, Apart
  <1>5. Once(inbound)'
    <2>1. \A k \in 1 .. Len(inbound) : inbound[k] # m
      BY <1>4, Zenon DEF Contains
    <2>2. Once(inbound)
      BY Zenon DEF PlaceInv, Apart
    <2>. QED  BY <1>2, <2>1, <2>2 DEF Once
  <1>6. ASSUME NEW e \in Msgs, Contains(inbound', e)
        PROVE  Contains(inbound, e) \/ e = m
    BY <1>2, <1>6 DEF Contains
  <1>7. ASSUME NEW d \in Conns
        PROVE  Once(unread'[d])
    <2>1. Once(unread[d])
      BY Zenon DEF PlaceInv, Apart
    <2>2. CASE d = c
      <3>. SUFFICES ASSUME NEW i \in 1 .. Len(unread'[c]), NEW j \in 1 .. Len(unread'[c]),
                           unread'[c][i] = unread'[c][j], unread'[c][i] \in Msgs
                    PROVE  i = j
        BY <2>2, Zenon DEF Once
      <3>1. /\ i + 1 \in 1 .. Len(unread[c]) /\ j + 1 \in 1 .. Len(unread[c])
            /\ unread[c][i + 1] = unread[c][j + 1] /\ unread[c][i + 1] \in Msgs
        BY <1>1
      <3>2. i + 1 = j + 1
        BY <2>1, <2>2, <3>1, Zenon DEF Once
      <3>. QED  BY <3>2
    <2>3. CASE d # c
      BY <1>1, <2>1, <2>3, Zenon
    <2>. QED  BY <2>2, <2>3
  <1>8. ASSUME NEW d \in Conns, NEW e \in Msgs, Contains(unread'[d], e)
        PROVE  ~Contains(inbound', e) /\ ~Contains(taken, e)
    <2>1. Contains(unread[d], e) /\ e # m
      <3>1. CASE d = c
        <4>1. PICK k \in 1 .. Len(unread'[c]) : unread'[c][k] = e
          BY <1>8, <3>1, Zenon DEF Contains
        <4>2. k + 1 \in 1 .. Len(unread[c]) /\ unread[c][k + 1] = e /\ k + 1 # 1
          BY <1>1, <4>1
        <4>3. e # m
          BY <1>1, <4>2, Zenon DEF PlaceInv, Apart, Once
        <4>. QED  BY <3>1, <4>2, <4>3, Zenon DEF Contains
      <3>2. CASE d # c
        <4>1. Contains(unread[d], e)
          BY <1>1, <1>8, <3>2, Zenon
        <4>2. e # m
          <5>. SUFFICES ASSUME e = m
                        PROVE  FALSE
            OBVIOUS
          <5>0. Contains(unread[d], m)
            BY <4>1
          <5>1. Contains(sent[c], m) /\ Contains(sent[d], m)
            <6>1. \A x \in Conns : Contains(unread[x], m) => \E k \in 1 .. Len(unread[x]) : unread[x][k] = m
              BY Zenon DEF Contains
            <6>. QED  BY <1>1, <1>3, <4>1, <5>0, <6>1, Zenon DEF PlaceInv, OrderInv, History, UnreadWasSent
          <5>. QED  BY <3>2, <5>1, Zenon DEF PlaceInv, OrderInv, History, SentOnce, Contains
        <4>. QED  BY <4>1, <4>2
      <3>. QED  BY <3>1, <3>2
    <2>. QED  BY <1>6, <2>1, Zenon DEF PlaceInv, Apart
  <1>9. ASSUME NEW e \in Msgs, Contains(inbound', e)
        PROVE  ~Contains(taken, e)
    BY <1>4, <1>6, <1>9, Zenon DEF PlaceInv, Apart
  <1>. QED  BY <1>1, <1>5, <1>7, <1>8, <1>9, Zenon DEF Apart, Once

\* A message that is taken leaves the queue for good.
LEMMA TakeApart ==
  ASSUME PlaceInv, NEW r \in Receivers, Scan(r), Matching(r) # {}
  PROVE  Apart'
  <1>1. TypeOK /\ taken \in Seq(Msgs) /\ UNCHANGED unread
    BY Zenon DEF Scan, PlaceInv, OrderInv, TypeOK
  <1>2. PICK o \in 1 .. Len(inbound) :
          /\ inbound[o] \in Msgs
          /\ taken' = Append(taken, inbound[o])
          /\ \A k \in 1 .. Len(inbound) : Tag[inbound[k]] = Tag[inbound[o]] => o <= k
          /\ \A k \in 1 .. Len(inbound') :
               \/ k < o /\ k \in 1 .. Len(inbound) /\ inbound'[k] = inbound[k]
               \/ k >= o /\ k + 1 \in 1 .. Len(inbound) /\ inbound'[k] = inbound[k + 1]
          /\ \A k \in 1 .. Len(inbound) :
               \/ k = o
               \/ k < o /\ k \in 1 .. Len(inbound') /\ inbound'[k] = inbound[k]
               \/ k > o /\ k - 1 \in 1 .. Len(inbound') /\ inbound'[k - 1] = inbound[k]
    BY <1>1, Taking, Zenon
  <1>3. /\ Len(taken') = Len(taken) + 1
        /\ \A k \in 1 .. Len(taken) : taken'[k] = taken[k]
        /\ taken'[Len(taken) + 1] = inbound[o]
        /\ Len(taken) \in Nat
    BY <1>1, <1>2, Appended, LenProperties
  <1>4. ASSUME NEW e \in Msgs, Contains(taken', e)
        PROVE  Contains(taken, e) \/ e = inbound[o]
    BY <1>3, <1>4 DEF Contains
  <1>5. Once(inbound)
    BY Zenon DEF PlaceInv, Apart
  <1>6. ASSUME NEW k \in 1 .. Len(inbound')
        PROVE  \E l \in 1 .. Len(inbound) :
                 inbound'[k] = inbound[l] /\ l # o /\ l = IF k < o THEN k ELSE k + 1
    <2>1. CASE k < o
      BY <1>2, <2>1
    <2>2. CASE ~(k < o)
      BY <1>2, <2>2
    <2>. QED  BY <2>1, <2>2
  <1>7. Once(inbound)'
    <2>. SUFFICES ASSUME NEW i \in 1 .. Len(inbound'), NEW j \in 1 .. Len(inbound'),
                         inbound'[i] = inbound'[j], inbound'[i] \in Msgs
                  PROVE  i = j
      BY Zenon DEF Once
    <2>1. PICK k \in 1 .. Len(inbound) : inbound'[i] = inbound[k] /\ k = IF i < o THEN i ELSE i + 1
      BY <1>6
    <2>2. PICK l \in 1 .. Len(inbound) : inbound'[j] = inbound[l] /\ l = IF j < o THEN j ELSE j + 1
      BY <1>6
    <2>3. k = l
      BY <1>5, <2>1, <2>2, Zenon DEF Once
    <2>. QED  BY <2>1, <2>2, <2>3
  <1>8. ASSUME NEW e \in Msgs, Contains(inbound', e)
        PROVE  Contains(inbound, e) /\ e # inbound[o]
    <2>1. PICK k \in 1 .. Len(inbound') : inbound'[k] = e
      BY <1>8, Zenon DEF Contains
    <2>2. PICK l \in 1 .. Len(inbound) : inbound[l] = e /\ l # o
      BY <1>6, <2>1
    <2>. QED  BY <1>5, <2>2, Zenon DEF Once, Contains
  <1>9. Contains(inbound, inbound[o])
    BY Zenon DEF Contains
  <1>10. \A e \in Msgs : Contains(inbound', e) => ~Contains(taken', e)
    BY <1>4, <1>8, Zenon DEF PlaceInv, Apart
  <1>11. ASSUME NEW d \in Conns, NEW e \in Msgs, Contains(unread[d], e)
         PROVE  ~Contains(inbound', e) /\ ~Contains(taken', e)
    BY <1>4, <1>8, <1>9, <1>11, Zenon DEF PlaceInv, Apart
  <1>12. \A d \in Conns : Once(unread'[d])
    BY <1>1, Zenon DEF PlaceInv, Apart
  <1>. QED  BY <1>1, <1>7, <1>10, <1>11, <1>12, Zenon DEF Apart, Once

\* Every step leaves every message in one place.
LEMMA StepPlaces == PlaceInv /\ [Next]_vars => PlaceInv'
  <1>. SUFFICES ASSUME PlaceInv, [Next]_vars
                PROVE  PlaceInv'
    OBVIOUS
  <1>1. OrderInv'
    BY StepOrder, Zenon DEF PlaceInv
  <1>2. Apart'
    BY FlowSteps, KeptApart, ArrivalApart, ReadApart, TakeApart, Zenon DEF PlaceInv, OrderInv
  <1>. QED  BY <1>1, <1>2 DEF PlaceInv

\* A step that moves no message is a stutter of the channels.
LEMMA KeptChannels ==
  ASSUME UNCHANGED <<inbound, taken>>
  PROVE  UNCHANGED <<Waiting, Ahead, ToSet(taken)>>
  <1>1. Waiting' = Waiting
    BY Zenon DEF Waiting
  <1>2. Ahead' = Ahead
    BY <1>1, Zenon DEF Ahead
  <1>. QED  BY <1>1, <1>2, Zenon

\* The elements of a sequence.
LEMMA Elements ==
  ASSUME NEW S, NEW s \in Seq(S)
  PROVE  \A e : e \in ToSet(s) <=> Contains(s, e)
  BY DEF ToSet, Contains

\* A pair of the order.
LEMMA AheadPairs ==
  \A a, b : <<a, b>> \in Ahead <=>
      /\ a \in Waiting /\ b \in Waiting /\ Tag[a] = Tag[b]
      /\ \E i, j \in 1 .. Len(inbound) : i < j /\ inbound[i] = a /\ inbound[j] = b
  BY DEF Ahead

\* The order is made of pairs.
LEMMA AheadIsPairs ==
  /\ \A p \in Ahead : \E a, b : p = <<a, b>>
  /\ \A p \in Ahead' : \E a, b : p = <<a, b>>
  <1>1. ASSUME NEW S, NEW p \in S \X S
        PROVE  \E a, b : p = <<a, b>>
    OBVIOUS
  <1>2. Ahead \subseteq Waiting \X Waiting /\ Ahead' \subseteq Waiting' \X Waiting'
    BY Zenon DEF Ahead
  <1>. QED  BY <1>1, <1>2, Zenon

\* A reader puts the message it reads at the end of the channel of its tag.
LEMMA ReadPuts ==
  ASSUME PlaceInv, NEW c \in Conns, ReadData(c)
  PROVE  Channels!Put(Head(unread[c]))
  <1>. DEFINE m == Head(unread[c])
  <1>1. TypeOK /\ inbound \in Seq(Msgs) /\ taken \in Seq(Msgs)
    BY Zenon DEF PlaceInv, OrderInv, TypeOK
  <1>2. /\ m \in Msgs
        /\ inbound' = Append(inbound, m) /\ taken' = taken
        /\ 1 \in 1 .. Len(unread[c]) /\ m = unread[c][1]
    BY <1>1, HeadRead, Zenon
  <1>. HIDE DEF m
  <1>3. /\ inbound' \in Seq(Msgs)
        /\ Len(inbound') = Len(inbound) + 1
        /\ \A k \in 1 .. Len(inbound) : inbound'[k] = inbound[k]
        /\ inbound'[Len(inbound) + 1] = m
        /\ Len(inbound) \in Nat
    BY <1>1, <1>2, Appended, LenProperties
  <1>4. ~Contains(inbound, m) /\ ~Contains(taken, m)
    BY <1>2, Zenon DEF PlaceInv, Apart, Contains
  <1>5. \A e : e \in Waiting <=> Contains(inbound, e)
    BY <1>1, Elements DEF Waiting
  <1>6. \A e : e \in Waiting' <=> Contains(inbound', e)
    BY <1>3, Elements DEF Waiting
  <1>7. m \notin Waiting \cup ToSet(taken)
    BY <1>1, <1>4, <1>5, Elements, Zenon
  <1>8. \A e : Contains(inbound', e) <=> Contains(inbound, e) \/ e = m
    <2>. SUFFICES ASSUME NEW e
                  PROVE  Contains(inbound', e) <=> Contains(inbound, e) \/ e = m
      OBVIOUS
    <2>. QED  BY <1>3 DEF Contains
  <1>9. Waiting' = Waiting \cup {m}
    BY <1>5, <1>6, <1>8, Zenon
  <1>10. ASSUME NEW a, NEW b
         PROVE  <<a, b>> \in Ahead' <=> <<a, b>> \in Ahead \/ (b = m /\ a \in Waiting /\ Tag[a] = Tag[m])
    <2>1. <<a, b>> \in Ahead' <=>
            /\ a \in Waiting' /\ b \in Waiting' /\ Tag[a] = Tag[b]
            /\ \E i, j \in 1 .. Len(inbound') : i < j /\ inbound'[i] = a /\ inbound'[j] = b
      BY DEF Ahead
    <2>2. (\E i, j \in 1 .. Len(inbound') : i < j /\ inbound'[i] = a /\ inbound'[j] = b) <=>
            \/ \E i, j \in 1 .. Len(inbound) : i < j /\ inbound[i] = a /\ inbound[j] = b
            \/ b = m /\ Contains(inbound, a)
      BY <1>3 DEF Contains
    <2>3. (\E i, j \in 1 .. Len(inbound) : i < j /\ inbound[i] = a /\ inbound[j] = b) =>
            a \in Waiting /\ b \in Waiting
      BY <1>5, Zenon DEF Contains
    <2>4. ASSUME <<a, b>> \in Ahead'
          PROVE  <<a, b>> \in Ahead \/ (b = m /\ a \in Waiting /\ Tag[a] = Tag[m])
      BY <1>5, <2>1, <2>2, <2>3, <2>4, AheadPairs, Zenon
    <2>5. ASSUME <<a, b>> \in Ahead
          PROVE  <<a, b>> \in Ahead'
      <3>1. /\ a \in Waiting /\ b \in Waiting /\ Tag[a] = Tag[b]
            /\ \E i, j \in 1 .. Len(inbound) : i < j /\ inbound[i] = a /\ inbound[j] = b
        BY <2>5, AheadPairs
      <3>. QED  BY <1>9, <2>1, <2>2, <3>1, Zenon
    <2>6. ASSUME b = m, a \in Waiting, Tag[a] = Tag[m]
          PROVE  <<a, b>> \in Ahead'
      BY <1>5, <1>9, <2>1, <2>2, <2>6, Zenon
    <2>. QED  BY <2>4, <2>5, <2>6, Zenon
  <1>11. Ahead' = Ahead \cup {<<a, m>> : a \in {e \in Waiting : Tag[e] = Tag[m]}}
    <2>. DEFINE New == {<<a, m>> : a \in {e \in Waiting : Tag[e] = Tag[m]}}
    <2>1. \A a, b : <<a, b>> \in New <=> b = m /\ a \in Waiting /\ Tag[a] = Tag[m]
      OBVIOUS
    <2>2. \A p \in New : \E a, b : p = <<a, b>>
      OBVIOUS
    <2>. HIDE DEF New
    <2>3. \A p \in Ahead \cup Ahead' : \E a, b : p = <<a, b>>
      BY AheadIsPairs, Zenon
    <2>4. ASSUME NEW p
          PROVE  p \in Ahead' <=> p \in Ahead \cup New
      <3>1. CASE \E a, b : p = <<a, b>>
        <4>1. PICK a, b : p = <<a, b>>
          BY <3>1
        <4>2. <<a, b>> \in New <=> b = m /\ a \in Waiting /\ Tag[a] = Tag[m]
          BY <2>1, Zenon
        <4>3. <<a, b>> \in Ahead' <=> <<a, b>> \in Ahead \/ (b = m /\ a \in Waiting /\ Tag[a] = Tag[m])
          BY <1>10, Zenon
        <4>. QED  BY <4>1, <4>2, <4>3, Zenon
      <3>2. CASE ~(\E a, b : p = <<a, b>>)
        BY <2>2, <2>3, <3>2, Zenon
      <3>. QED  BY <3>1, <3>2
    <2>5. Ahead' = Ahead \cup New
      BY <2>4, Zenon
    <2>. QED  BY <2>5 DEF New
  <1>. QED  BY <1>2, <1>7, <1>9, <1>11, Zenon DEF Channels!Put, Channels!Channel, m

\* A receiver takes the head of the channel of its tag.
LEMMA ScanTakes ==
  ASSUME PlaceInv, NEW r \in Receivers, Scan(r), Matching(r) # {}
  PROVE  \E m \in Msgs : Channels!Take(m)
  <1>1. TypeOK /\ inbound \in Seq(Msgs) /\ taken \in Seq(Msgs)
    BY Zenon DEF PlaceInv, OrderInv, TypeOK
  <1>2. PICK o \in 1 .. Len(inbound) :
          /\ inbound[o] \in Msgs
          /\ taken' = Append(taken, inbound[o])
          /\ \A k \in 1 .. Len(inbound) : Tag[inbound[k]] = Tag[inbound[o]] => o <= k
          /\ \A k \in 1 .. Len(inbound') :
               \/ k < o /\ k \in 1 .. Len(inbound) /\ inbound'[k] = inbound[k]
               \/ k >= o /\ k + 1 \in 1 .. Len(inbound) /\ inbound'[k] = inbound[k + 1]
          /\ \A k \in 1 .. Len(inbound) :
               \/ k = o
               \/ k < o /\ k \in 1 .. Len(inbound') /\ inbound'[k] = inbound[k]
               \/ k > o /\ k - 1 \in 1 .. Len(inbound') /\ inbound'[k - 1] = inbound[k]
    BY <1>1, Taking, Zenon
  <1>. DEFINE m == inbound[o]
  <1>3. inbound' \in Seq(Msgs)
    BY <1>1, ReceiverType, Zenon DEF TypeOK
  <1>4. /\ \A e : e \in Waiting <=> Contains(inbound, e)
        /\ \A e : e \in Waiting' <=> Contains(inbound', e)
    BY <1>1, <1>3, Elements DEF Waiting
  <1>5. m \in Msgs /\ o \in Int /\ \A i, j \in 1 .. Len(inbound) : inbound[i] = inbound[j] => i = j
    BY <1>1, <1>2 DEF PlaceInv, Apart, Once
  <1>6. \A k \in 1 .. Len(inbound) : inbound[k] = m <=> k = o
    BY <1>5, Zenon
  <1>. HIDE DEF m
  <1>7. \A i \in 1 .. Len(inbound') : \E k \in 1 .. Len(inbound) :
          k # o /\ inbound[k] = inbound'[i] /\ k = IF i < o THEN i ELSE i + 1
    BY <1>2
  <1>8. \A k \in 1 .. Len(inbound) : k # o =>
          \E i \in 1 .. Len(inbound') : inbound'[i] = inbound[k] /\ i = IF k < o THEN k ELSE k - 1
    BY <1>2
  <1>9. Waiting' = Waiting \ {m}
    <2>1. ASSUME NEW e
          PROVE  Contains(inbound', e) <=> Contains(inbound, e) /\ e # m
      BY <1>6, <1>7, <1>8 DEF Contains
    <2>. QED  BY <1>4, <2>1, Zenon
  <1>10. ASSUME NEW a
         PROVE  <<a, m>> \notin Ahead
    <2>. SUFFICES ASSUME <<a, m>> \in Ahead
                  PROVE  FALSE
      OBVIOUS
    <2>1. PICK i, j \in 1 .. Len(inbound) : i < j /\ inbound[i] = a /\ inbound[j] = m
      BY AheadPairs
    <2>2. Tag[a] = Tag[m]
      BY AheadPairs, Zenon
    <2>3. j = o
      BY <1>6, <2>1, Zenon
    <2>4. o <= i
      BY <1>2, <2>1, <2>2 DEF m
    <2>. QED  BY <1>5, <2>1, <2>3, <2>4
  <1>11. ASSUME NEW a, NEW b
         PROVE  <<a, b>> \in Ahead' <=> <<a, b>> \in Ahead /\ a # m
    <2>1. <<a, b>> \in Ahead' <=>
            /\ a \in Waiting' /\ b \in Waiting' /\ Tag[a] = Tag[b]
            /\ \E i, j \in 1 .. Len(inbound') : i < j /\ inbound'[i] = a /\ inbound'[j] = b
      BY DEF Ahead
    <2>2. ASSUME NEW i \in 1 .. Len(inbound'), NEW j \in 1 .. Len(inbound'),
                 i < j, inbound'[i] = a, inbound'[j] = b
          PROVE  \E k, l \in 1 .. Len(inbound) : k < l /\ inbound[k] = a /\ inbound[l] = b
      <3>1. PICK k \in 1 .. Len(inbound) : inbound[k] = a /\ k = IF i < o THEN i ELSE i + 1
        BY <1>7, <2>2
      <3>2. PICK l \in 1 .. Len(inbound) : inbound[l] = b /\ l = IF j < o THEN j ELSE j + 1
        BY <1>7, <2>2
      <3>3. k < l
        BY <1>5, <2>2, <3>1, <3>2
      <3>. QED  BY <3>1, <3>2, <3>3
    <2>3. ASSUME NEW k \in 1 .. Len(inbound), NEW l \in 1 .. Len(inbound),
                 k < l, inbound[k] = a, inbound[l] = b, k # o, l # o
          PROVE  \E i, j \in 1 .. Len(inbound') : i < j /\ inbound'[i] = a /\ inbound'[j] = b
      <3>1. PICK i \in 1 .. Len(inbound') : inbound'[i] = a /\ i = IF k < o THEN k ELSE k - 1
        BY <1>8, <2>3
      <3>2. PICK j \in 1 .. Len(inbound') : inbound'[j] = b /\ j = IF l < o THEN l ELSE l - 1
        BY <1>8, <2>3
      <3>3. i < j
        BY <1>5, <2>3, <3>1, <3>2
      <3>. QED  BY <3>1, <3>2, <3>3
    <2>4. <<a, b>> \in Ahead' => <<a, b>> \in Ahead /\ a # m
      BY <1>9, <2>1, <2>2, AheadPairs, Zenon
    <2>5. ASSUME <<a, b>> \in Ahead, a # m
          PROVE  <<a, b>> \in Ahead'
      <3>1. b # m
        BY <1>10, <2>5
      <3>. QED  BY <1>6, <1>9, <2>1, <2>3, <2>5, <3>1, AheadPairs, Zenon
    <2>. QED  BY <2>4, <2>5
  <1>12. Ahead' = {p \in Ahead : p[1] # m}
    <2>1. ASSUME NEW p
          PROVE  p \in Ahead' <=> p \in Ahead /\ p[1] # m
      <3>1. ASSUME NEW a, NEW b, p = <<a, b>>
            PROVE  p \in Ahead' <=> p \in Ahead /\ p[1] # m
        <4>1. p[1] = a
          BY <3>1
        <4>. QED  BY <1>11, <3>1, <4>1, Zenon
      <3>. QED  BY <3>1, AheadIsPairs, Zenon
    <2>. QED  BY <2>1, Zenon
  <1>13. ToSet(taken') = ToSet(taken) \cup {m}
    <2>1. /\ taken' \in Seq(Msgs)
          /\ Len(taken') = Len(taken) + 1
          /\ \A k \in 1 .. Len(taken) : taken'[k] = taken[k]
          /\ taken'[Len(taken) + 1] = m
          /\ Len(taken) \in Nat
      BY <1>1, <1>2, Appended, LenProperties DEF m
    <2>2. ASSUME NEW e
          PROVE  Contains(taken', e) <=> Contains(taken, e) \/ e = m
      BY <2>1 DEF Contains
    <2>. QED  BY <1>1, <2>1, <2>2, Elements, Zenon
  <1>14. m \in Waiting
    BY <1>4, Zenon DEF Contains, m
  <1>. QED  BY <1>5, <1>9, <1>10, <1>12, <1>13, <1>14, Zenon DEF Channels!Take

\* RefinesTagChannels of Delivery: the one queue that receivers of every tag
\* search and cut is a FIFO channel for each tag; a reader puts into it, a
\* receiver takes its head, and nothing else touches it.
THEOREM OneQueueManyChannels == Spec => RefinesTagChannels
  <1>1. Init => PlaceInv
    <2>. SUFFICES ASSUME Init
                  PROVE  Apart
      BY InitOrder, Zenon DEF PlaceInv
    <2>1. /\ \A c \in Conns : unread[c] = <<>>
          /\ taken = <<>> /\ inbound = <<>>
      BY DEF Init
    <2>2. Once(<<>>) /\ \A m : ~Contains(<<>>, m)
      BY DEF Once, Contains
    <2>. QED  BY <2>1, <2>2, Zenon DEF Apart
  <1>2. Init => Channels!Init
    <2>. SUFFICES ASSUME Init
                  PROVE  Channels!Init
      OBVIOUS
    <2>1. ToSet(<<>>) = {}
      BY DEF ToSet
    <2>2. Waiting = {} /\ ToSet(taken) = {}
      BY <2>1, Zenon DEF Init, Waiting
    <2>. QED  BY <2>2 DEF Channels!Init, Ahead
  <1>3. PlaceInv /\ [Next]_vars => [Channels!Next]_<<Waiting, Ahead, ToSet(taken)>>
    <2>. SUFFICES ASSUME PlaceInv, [Next]_vars
                  PROVE  [Channels!Next]_<<Waiting, Ahead, ToSet(taken)>>
      OBVIOUS
    <2>1. CASE FlowKept
      BY <2>1, KeptChannels, Zenon DEF FlowKept
    <2>2. ASSUME NEW c \in Conns, FrameArrives(c)
          PROVE  UNCHANGED <<Waiting, Ahead, ToSet(taken)>>
      BY <2>2, KeptChannels, Zenon DEF FrameArrives, rxVars
    <2>3. ASSUME NEW c \in Conns, ReadData(c)
          PROVE  Channels!Next
      BY <2>3, ReadPuts, Zenon DEF Channels!Next, ReadData
    <2>4. ASSUME NEW r \in Receivers, Scan(r), Matching(r) # {}
          PROVE  Channels!Next
      BY <2>4, ScanTakes, Zenon DEF Channels!Next
    <2>. QED  BY <2>1, <2>2, <2>3, <2>4, FlowSteps, Zenon DEF PlaceInv, OrderInv
  <1>. QED  BY <1>1, <1>2, <1>3, StepPlaces, PTL DEF Spec, RefinesTagChannels, Channels!Spec
=============================================================================
