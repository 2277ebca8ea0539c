------------------------------ MODULE Delivery ------------------------------
(***************************************************************************)
(* The receive side of Comm (comm.py) towards one peer: connections that   *)
(* are dialled or accepted, the reader task of each, the inbound queue     *)
(* that receivers of different tags share, _peer_errors, timeouts of recv, *)
(* and close().  Every action is what one task does between two suspension *)
(* points; the peer and the network act in between.                        *)
(***************************************************************************)
EXTENDS Naturals, Sequences, FiniteSets, SequencesExt

CONSTANTS
    Msgs,          \* DATA frames
    Tag,           \* the tag of each
    OtherFrames,   \* CLOSE and frames the reader rejects
    Conns,         \* connections, in the order of their identifiers
    Receivers,     \* coroutines that call recv
    RTag,          \* the tag each asks for
    MayTimeout,    \* receivers whose recv has a timeout or may be cancelled
    MaxUnread,     \* bound: frames on a connection that were not read yet
    MayClose

ASSUME DeliveryAssumption ==
    /\ Msgs \cap OtherFrames = {}
    /\ RTag \in [Receivers -> {Tag[m] : m \in Msgs}]
    /\ MayTimeout \subseteq Receivers
    /\ MaxUnread \in Nat \ {0}
    /\ MayClose \in BOOLEAN

VARIABLES
    hand,         \* where the handshake of a connection is
    net,          \* the TCP connection below it
    unread,       \* frames in the StreamReader
    registered,   \* _PeerState.connections
    reader,       \* where the reader task of each connection is
    cancelled,    \* readers with a cancellation to be delivered
    inbound,      \* _inbound of the peer
    peerError,    \* _peer_errors has an error for the peer
    rx,           \* where each receiver is
    cpc,          \* where close() is
    awaited,      \* connections or reader tasks close() waits for
    sent,         \* history: the messages put on each connection
    taken         \* history: the messages receivers got, in order

connVars == <<hand, net, registered>>
taskVars == <<reader, cancelled>>
rxVars   == <<rx, taken>>
closeVars == <<cpc, awaited>>
vars == <<connVars, unread, taskVars, inbound, peerError, rxVars, closeVars, sent>>

Init ==
    /\ hand = [c \in Conns |-> "none"]
    /\ net = [c \in Conns |-> "none"]
    /\ unread = [c \in Conns |-> <<>>]
    /\ registered = {}
    /\ reader = [c \in Conns |-> "none"]
    /\ cancelled = {}
    /\ inbound = <<>>
    /\ peerError = FALSE
    /\ rx = [r \in Receivers |-> "idle"]
    /\ cpc = "open"
    /\ awaited = {}
    /\ sent = [c \in Conns |-> <<>>]
    /\ taken = <<>>

---------------------------------------------------------------------------
(* Helpers                                                                 *)

closed == cpc # "open"

WokenNobody(states) == states

\* _inbound_condition.notify_all
Woken(states) == [r \in Receivers |-> IF states[r] = "wait" THEN "ready" ELSE states[r]]

\* StreamWriter.close: the stream ends for the reader unless it has failed already.
Shut(S) == [c \in Conns |-> IF c \in S /\ net[c] # "reset" THEN "closed" ELSE net[c]]

LiveReaders == {c \in Conns : reader[c] \in {"ready", "reading"}}

\* _drop_connection records the error when no connection is left.
ErrorWith(left) == peerError \/ left = {}

KeepRegistered(c) ==
    /\ net' = [net EXCEPT ![c] = "closed"]
    /\ unread' = [unread EXCEPT ![c] = <<>>]
    /\ reader' = [reader EXCEPT ![c] = "done"]
    /\ cancelled' = cancelled \ {c}
    /\ peerError' = ErrorWith(registered)
    /\ UNCHANGED registered

\* The finally block of _reader_loop.
Drop(c) ==
    /\ registered' = registered \ {c}
    /\ net' = [net EXCEPT ![c] = "closed"]
    /\ unread' = [unread EXCEPT ![c] = <<>>]
    /\ reader' = [reader EXCEPT ![c] = "done"]
    /\ cancelled' = cancelled \ {c}
    /\ peerError' = ErrorWith(registered \ {c})

\* The receivers are told of the error it recorded.
TellIfLast(c) == rx' = IF registered \ {c} = {} THEN Woken(rx) ELSE rx

---------------------------------------------------------------------------
(* The peer and the network                                                *)

\* A connection is dialled by a writer task, or accepted by the listener; its
\* handshake then waits for a frame of the peer.
Begins(c) ==
    /\ ~closed /\ hand[c] = "none"
    /\ \E how \in {"dialling", "accepting"} : hand' = [hand EXCEPT ![c] = how]
    /\ net' = [net EXCEPT ![c] = "up"]
    /\ UNCHANGED <<unread, registered, taskVars, inbound, peerError, rxVars, closeVars, sent>>

FrameArrives(c) ==
    /\ net[c] = "up" /\ Len(unread[c]) < MaxUnread
    /\ \/ \E f \in OtherFrames : unread' = [unread EXCEPT ![c] = Append(@, f)] /\ UNCHANGED sent
       \/ \E m \in Msgs :
            /\ \A d \in Conns : ~Contains(sent[d], m)
            /\ unread' = [unread EXCEPT ![c] = Append(@, m)]
            /\ sent' = [sent EXCEPT ![c] = Append(@, m)]
    /\ UNCHANGED <<connVars, taskVars, inbound, peerError, rxVars, closeVars>>

PeerEnds(c) ==
    /\ \/ net[c] = "up" /\ net' = [net EXCEPT ![c] = "eof"]
       \/ net[c] \in {"up", "eof"} /\ net' = [net EXCEPT ![c] = "reset"]
    /\ UNCHANGED <<hand, registered, unread, taskVars, inbound, peerError, rxVars, closeVars, sent>>

---------------------------------------------------------------------------
(* Handshakes                                                              *)

RegisterKeepsError(c) ==
    /\ hand[c] \in {"dialling", "accepting"} /\ net[c] \in {"up", "eof"}
    /\ hand' = [hand EXCEPT ![c] = "done"]
    /\ registered' = registered \cup {c}
    /\ reader' = [reader EXCEPT ![c] = "ready"]
    /\ UNCHANGED <<net, unread, cancelled, inbound, peerError, rxVars, closeVars, sent>>

\* The frame of the peer is read and, on the accepting side, answered.
Register(c) ==
    /\ hand[c] \in {"dialling", "accepting"} /\ net[c] \in {"up", "eof"}
    /\ hand' = [hand EXCEPT ![c] = "done"]
    /\ registered' = registered \cup {c}
    /\ peerError' = FALSE
    /\ reader' = [reader EXCEPT ![c] = "ready"]
    /\ UNCHANGED <<net, unread, cancelled, inbound, rxVars, closeVars, sent>>

\* The frame is not the one expected, the stream ended, or close() cancelled
\* the writer task that dials.
HandshakeFails(c) ==
    /\ hand[c] \in {"dialling", "accepting", "cancelled"}
    /\ hand' = [hand EXCEPT ![c] = "done"]
    /\ net' = [net EXCEPT ![c] = "closed"]
    /\ unread' = [unread EXCEPT ![c] = <<>>]
    /\ UNCHANGED <<registered, taskVars, inbound, peerError, rxVars, closeVars, sent>>

\* A writer task drops a connection and gives no error.
WriterDrops(c) ==
    /\ c \in registered /\ cpc \in {"open", "writers"}
    /\ registered' = registered \ {c}
    /\ net' = Shut({c})
    /\ UNCHANGED <<hand, unread, taskVars, inbound, peerError, rxVars, closeVars, sent>>

---------------------------------------------------------------------------
(* Reader tasks                                                            *)

ReaderStarts(c) ==
    /\ reader[c] = "ready" /\ c \notin cancelled
    /\ IF closed THEN Drop(c) /\ TellIfLast(c)
       ELSE /\ reader' = [reader EXCEPT ![c] = "reading"]
            /\ UNCHANGED <<net, registered, unread, cancelled, peerError, rx>>
    /\ UNCHANGED <<hand, inbound, taken, closeVars, sent>>

Reading(c) == reader[c] = "reading" /\ c \notin cancelled

QueueInFront(m) == inbound' = <<m>> \o inbound

QueueInbound(m) == inbound' = Append(inbound, m)

\* After a DATA frame the loop asks again whether Comm was closed.
ReadData(c) ==
    /\ Reading(c) /\ net[c] # "reset" /\ unread[c] # <<>> /\ Head(unread[c]) \in Msgs
    /\ QueueInbound(Head(unread[c]))
    /\ rx' = Woken(rx)
    /\ IF closed THEN Drop(c)
       ELSE /\ unread' = [unread EXCEPT ![c] = Tail(@)]
            /\ UNCHANGED <<net, registered, taskVars, peerError>>
    /\ UNCHANGED <<hand, taken, closeVars, sent>>

\* CLOSE, a frame that is refused, the end of the stream, or its failure.
ReadEnds(c) ==
    /\ Reading(c)
    /\ \/ net[c] = "reset"
       \/ net[c] # "reset" /\ unread[c] # <<>> /\ Head(unread[c]) \in OtherFrames
       \/ net[c] \in {"eof", "closed"} /\ unread[c] = <<>>
    /\ Drop(c) /\ TellIfLast(c)
    /\ UNCHANGED <<hand, inbound, taken, closeVars, sent>>

\* A task that is cancelled before its first step never enters its try block.
CancelledUnstarted(c) ==
    /\ c \in cancelled /\ reader[c] = "ready"
    /\ reader' = [reader EXCEPT ![c] = "done"]
    /\ cancelled' = cancelled \ {c}
    /\ UNCHANGED <<connVars, unread, inbound, peerError, rxVars, closeVars, sent>>

CancelledReading(c) ==
    /\ c \in cancelled /\ reader[c] = "reading"
    /\ Drop(c) /\ TellIfLast(c)
    /\ UNCHANGED <<hand, inbound, taken, closeVars, sent>>

---------------------------------------------------------------------------
(* Receivers                                                               *)

Matching(r) == {i \in 1 .. Len(inbound) : Tag[inbound[i]] = RTag[r]}

Newest(r) == CHOOSE i \in Matching(r) : \A j \in Matching(r) : j <= i

Oldest(r) == CHOOSE i \in Matching(r) : \A j \in Matching(r) : i <= j

\* recv is called, or wakes: one pass of the loop in _receive_matching.
Scan(r) ==
    /\ rx[r] \in {"idle", "ready"}
    /\ IF Matching(r) # {}
       THEN /\ inbound' = RemoveAt(inbound, Oldest(r))
            /\ taken' = Append(taken, inbound[Oldest(r)])
            /\ rx' = [rx EXCEPT ![r] = "idle"]
            /\ UNCHANGED peerError
       ELSE /\ rx' = [rx EXCEPT ![r] = IF peerError \/ closed THEN "idle" ELSE "wait"]
            /\ peerError' = FALSE
            /\ UNCHANGED <<inbound, taken>>
    /\ UNCHANGED <<connVars, unread, taskVars, closeVars, sent>>

\* The timeout of recv, or a cancellation, reaches a receiver that waits, or
\* that was woken and has not run yet.
GivesUp(r) ==
    /\ r \in MayTimeout /\ rx[r] \in {"wait", "ready"}
    /\ rx' = [rx EXCEPT ![r] = "idle"]
    /\ UNCHANGED <<connVars, unread, taskVars, inbound, peerError, taken, closeVars, sent>>

---------------------------------------------------------------------------
(* close()                                                                 *)

CloseStart ==
    /\ MayClose /\ cpc = "open"
    /\ cpc' = "writers"
    /\ hand' = [c \in Conns |-> IF hand[c] = "dialling" THEN "cancelled" ELSE hand[c]]
    /\ UNCHANGED <<net, registered, unread, taskVars, inbound, peerError, rxVars, awaited, sent>>

\* tasks = list(self._connection_tasks), each cancelled
CancelReaders ==
    /\ cpc' = "gather"
    /\ awaited' = LiveReaders
    /\ cancelled' = LiveReaders

\* The writer tasks have ended.  Without connections nothing is awaited here.
CloseConnections ==
    /\ cpc = "writers" /\ \A c \in Conns : hand[c] # "cancelled"
    /\ net' = Shut(registered)
    /\ IF registered = {} THEN CancelReaders
       ELSE cpc' = "wait" /\ awaited' = registered /\ UNCHANGED cancelled
    /\ UNCHANGED <<hand, registered, unread, reader, inbound, peerError, rxVars, sent>>

CloseTasks ==
    /\ cpc = "wait"
    /\ CancelReaders
    /\ UNCHANGED <<connVars, unread, reader, inbound, peerError, rxVars, sent>>

CloseReturns ==
    /\ cpc = "gather" /\ \A c \in awaited : reader[c] = "done"
    /\ cpc' = "done"
    /\ rx' = Woken(rx)
    /\ UNCHANGED <<connVars, unread, taskVars, inbound, peerError, taken, awaited, sent>>

---------------------------------------------------------------------------
Peer(c) == Begins(c) \/ FrameArrives(c) \/ PeerEnds(c)

Handshake(c) == Register(c) \/ HandshakeFails(c)

Reader(c) ==
    ReaderStarts(c) \/ ReadData(c) \/ ReadEnds(c) \/ CancelledUnstarted(c) \/ CancelledReading(c)

Close == CloseStart \/ CloseConnections \/ CloseTasks \/ CloseReturns

Next ==
    \/ \E c \in Conns : Peer(c) \/ Handshake(c) \/ WriterDrops(c) \/ Reader(c)
    \/ \E r \in Receivers : Scan(r) \/ GivesUp(r)
    \/ Close

Spec == Init /\ [][Next]_vars

---------------------------------------------------------------------------
(* Properties                                                              *)

TypeOK ==
    /\ hand \in [Conns -> {"none", "dialling", "accepting", "cancelled", "done"}]
    /\ net \in [Conns -> {"none", "up", "eof", "reset", "closed"}]
    /\ unread \in [Conns -> Seq(Msgs \cup OtherFrames)]
    /\ registered \subseteq Conns
    /\ reader \in [Conns -> {"none", "ready", "reading", "done"}]
    /\ cancelled \subseteq LiveReaders
    /\ inbound \in Seq(Msgs)
    /\ peerError \in BOOLEAN
    /\ rx \in [Receivers -> {"idle", "ready", "wait"}]
    /\ cpc \in {"open", "writers", "wait", "gather", "done"}
    /\ awaited \subseteq Conns
    /\ sent \in [Conns -> Seq(Msgs)]
    /\ taken \in Seq(Msgs)

\* No receiver sleeps while its message is in the inbound queue, an error of the
\* peer is recorded, or close() has returned: whatever makes the loop of
\* _receive_matching leave is followed by notify_all.
NoReceiverForgotten ==
    \A r \in Receivers : rx[r] = "wait" => Matching(r) = {} /\ ~peerError /\ cpc # "done"

\* An error is recorded only while the peer has no connection: recv never fails
\* on account of a connection that has been replaced since.
ErrorMeansDown == peerError => registered = {}

\* Every connection in use has a reader task that will read it and, at the end,
\* drop it, until close() cancels the readers.
ConnectionsAreRead ==
    cpc \notin {"gather", "done"} => registered \subseteq LiveReaders

\* The messages of one tag on one connection are received in the order in which
\* they were sent, and none is skipped, whatever the other tags and receivers do.
FifoPerTag ==
    \A c \in Conns : \A i, j \in 1 .. Len(sent[c]) :
        i < j /\ Tag[sent[c][i]] = Tag[sent[c][j]] =>
        \A l \in 1 .. Len(taken) : taken[l] = sent[c][j] =>
            \E k \in 1 .. l - 1 : taken[k] = sent[c][i]

(* The messages in the queue, and the order of those of one tag.           *)
Waiting == ToSet(inbound)

Ahead == {p \in Waiting \X Waiting :
            /\ Tag[p[1]] = Tag[p[2]]
            /\ \E i, j \in 1 .. Len(inbound) : i < j /\ inbound[i] = p[1] /\ inbound[j] = p[2]}

Channels == INSTANCE TagChannels WITH
    waiting <- Waiting, ahead <- Ahead, taken <- ToSet(taken)

\* The one queue that all receivers of a peer share and search is a FIFO channel
\* for each tag: no receiver takes a message of another tag, takes one twice, or
\* loses one to a timeout.
RefinesTagChannels == Channels!Spec
=============================================================================
