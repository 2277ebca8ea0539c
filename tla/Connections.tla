---------------------------- MODULE Connections ----------------------------
(***************************************************************************)
(* The connections between two nodes (comm.py, both ends): the writer task *)
(* of each node dials when it has no connection, the listener of the other *)
(* accepts, both may do so at once, and from then on each writes on the    *)
(* connection with the smallest identifier it has registered.  A fault is  *)
(* a failed dial, a refused handshake, a reset by the network, or the      *)
(* cancellation of an active send.  PeerWriter has the queue of a writer   *)
(* and Delivery the receivers of one node; here a node is its writer, its  *)
(* listener and its readers.                                               *)
(***************************************************************************)
EXTENDS Naturals, Sequences, FiniteSets, SequencesExt, FiniteSetsExt

CONSTANTS
    Nodes,      \* the two nodes
    Msgs,       \* DATA frames
    Outbox,     \* the messages each node sends, in order
    Conns,      \* connection identifiers: uuid4, so used in any order
    MaxFaults   \* bound: faults in a behaviour

\* HELLO and HELLO_ACK, and how a stream may end.
Control == {"HELLO", "ACK", "EOF", "RST"}

ASSUME ConnectionsAssumption ==
    /\ \E a, b \in Nodes : a # b /\ Nodes = {a, b}
    /\ "nobody" \notin Nodes
    /\ Outbox \in [Nodes -> Seq(Msgs)]
    /\ \A n, o \in Nodes : \A i \in 1 .. Len(Outbox[n]), j \in 1 .. Len(Outbox[o]) :
        Outbox[n][i] = Outbox[o][j] => n = o /\ i = j
    /\ Conns \subseteq Nat \ {0}
    /\ Msgs \cap (Control \cup {"nothing"}) = {}
    /\ MaxFaults \in Nat

VARIABLES
    dialler,   \* the node that dialled a connection
    end,       \* the state of the connection at each node
    stream,    \* frames on their way to each node, or in its StreamReader
    writer,    \* the writer task of each node
    outbox,    \* messages no writer has taken yet
    outcome,   \* how the send of a message ended
    received,  \* history: messages queued in _inbound, in order
    via,       \* history: the connection each message was written on
    hit,       \* history: connections a fault has struck
    faults     \* history: their number

endVars == <<end, stream>>
sendVars == <<writer, outbox, outcome, via>>
faultVars == <<hit, faults>>
vars == <<dialler, endVars, sendVars, received, faultVars>>

NoConn == 0
Nobody == "nobody"
Idle == [pc |-> "idle", conn |-> NoConn]

Init ==
    /\ dialler = [c \in Conns |-> Nobody]
    /\ end = [n \in Nodes |-> [c \in Conns |-> "none"]]
    /\ stream = [n \in Nodes |-> [c \in Conns |-> <<>>]]
    /\ writer = [n \in Nodes |-> Idle]
    /\ outbox = Outbox
    /\ outcome = [m \in Msgs |-> "queued"]
    /\ received = [n \in Nodes |-> <<>>]
    /\ via = [m \in Msgs |-> NoConn]
    /\ hit = {}
    /\ faults = 0

---------------------------------------------------------------------------
(* Helpers                                                                 *)

Other(n) == CHOOSE o \in Nodes : o # n

\* _PeerState.connections
Registered(n) == {c \in Conns : end[n][c] = "up"}

Latest(S) == Max(S)

\* _PeerState.preferred
Preferred(S) == Min(S)

\* An end that has been closed, or lost its connection, takes no more frames.
Open(n, c) == end[n][c] \in {"dialling", "accepting", "up"}

Struck(n, c) == stream[n][c] # <<>> /\ Head(stream[n][c]) = "RST"

\* Nothing follows the end of a stream.
Ended(n, c) == stream[n][c] # <<>> /\ Last(stream[n][c]) \in {"EOF", "RST"}

\* What the other end will read after frames were put on the connection.
Put(n, c, frames) ==
    IF Open(Other(n), c) /\ ~Ended(Other(n), c)
    THEN [stream EXCEPT ![Other(n)][c] = @ \o frames] ELSE stream

ForgetEnd(n, c) ==
    /\ end' = [end EXCEPT ![n][c] = "closed"]
    /\ stream' = [stream EXCEPT ![n][c] = <<>>]

\* writer.close(): what was written is still sent.  The frames in the
\* StreamReader are lost when nobody reads any more.
CloseEnd(n, c) ==
    /\ end' = [end EXCEPT ![n][c] = "closed"]
    /\ stream' = [Put(n, c, <<"EOF">>) EXCEPT ![n][c] = <<>>]

KeepEnd(n, c) == stream' = Put(n, c, <<"EOF">>) /\ UNCHANGED end

\* _drop_connection by the writer: the reader of the connection is still there.
DropEnd(n, c) ==
    /\ end' = [end EXCEPT ![n][c] = "dropped"]
    /\ stream' = Put(n, c, <<"EOF">>)

Fault(c) ==
    /\ faults < MaxFaults
    /\ faults' = faults + 1
    /\ hit' = hit \cup c

\* The send of the message the writer has taken is over.
Settle(n, how) ==
    /\ outbox' = [outbox EXCEPT ![n] = Tail(@)]
    /\ outcome' = [outcome EXCEPT ![Head(outbox[n])] = how]
    /\ writer' = [writer EXCEPT ![n] = Idle]

Goes(n, pc, c) == writer' = [writer EXCEPT ![n] = [pc |-> pc, conn |-> c]]

At(n, pc) == writer[n].pc = pc

First(n, c) == IF stream[n][c] = <<>> THEN "nothing" ELSE Head(stream[n][c])

---------------------------------------------------------------------------
(* The writer task: _connection_for and _dial                              *)

UsePreferred(n) ==
    /\ At(n, "idle") /\ outbox[n] # <<>> /\ Registered(n) # {}
    /\ Goes(n, "write", Preferred(Registered(n)))
    /\ UNCHANGED <<dialler, endVars, outbox, outcome, via, received, faultVars>>

\* The TCP connection is made and HELLO is written; the identifier is random.
Dial(n) ==
    /\ At(n, "idle") /\ outbox[n] # <<>> /\ Registered(n) = {}
    /\ \E c \in Conns :
        /\ dialler[c] = Nobody
        /\ dialler' = [dialler EXCEPT ![c] = n]
        /\ end' = [end EXCEPT ![n][c] = "dialling", ![Other(n)][c] = "accepting"]
        /\ stream' = [stream EXCEPT ![Other(n)][c] = <<"HELLO">>]
        /\ Goes(n, "dial", c)
    /\ UNCHANGED <<outbox, outcome, via, received, faultVars>>

\* open_connection fails.
DialRefused(n) ==
    /\ At(n, "idle") /\ outbox[n] # <<>> /\ Registered(n) = {}
    /\ Fault({}) /\ Settle(n, "failed")
    /\ UNCHANGED <<dialler, endVars, via, received>>

\* HELLO_ACK: the writer goes on with the connection it has dialled, whatever
\* else was registered since.
DialDone(n) ==
    /\ At(n, "dial")
    /\ LET c == writer[n].conn IN
        /\ First(n, c) = "ACK"
        /\ stream' = [stream EXCEPT ![n][c] = Tail(@)]
        /\ end' = [end EXCEPT ![n][c] = "up"]
        /\ Goes(n, "write", c)
    /\ UNCHANGED <<dialler, outbox, outcome, via, received, faultVars>>

\* The stream ended or failed before HELLO_ACK.
DialFails(n) ==
    /\ At(n, "dial") /\ First(n, writer[n].conn) \in {"EOF", "RST"}
    /\ CloseEnd(n, writer[n].conn)
    /\ Settle(n, "failed")
    /\ UNCHANGED <<dialler, via, received, faultVars>>

\* HELLO_ACK is not what was expected: the endpoint is another node.
AckRefused(n) ==
    /\ At(n, "dial") /\ First(n, writer[n].conn) = "ACK"
    /\ CloseEnd(n, writer[n].conn)
    /\ Fault({writer[n].conn}) /\ Settle(n, "failed")
    /\ UNCHANGED <<dialler, via, received>>

---------------------------------------------------------------------------
(* The writer task: _write_chunks                                          *)

\* The last chunk is written.  A transport that is closed, or lost, drops it.
Write(n) ==
    /\ At(n, "write")
    /\ LET c == writer[n].conn
           m == Head(outbox[n]) IN
        /\ stream' = IF end[n][c] = "up" /\ ~Struck(n, c) THEN Put(n, c, <<m>>) ELSE stream
        /\ via' = [via EXCEPT ![m] = c]
        /\ Goes(n, "drain", c)
    /\ UNCHANGED <<dialler, end, outbox, outcome, received, faultVars>>

Drained(n) ==
    /\ At(n, "drain")
    /\ Settle(n, "sent")
    /\ UNCHANGED <<dialler, endVars, via, received, faultVars>>

\* drain raises ConnectionResetError: the connection is dropped.
WriteFails(n) ==
    /\ At(n, "write") \/ At(n, "drain")
    /\ LET c == writer[n].conn IN
        /\ end[n][c] # "up" \/ Struck(n, c)
        /\ IF end[n][c] = "up" THEN DropEnd(n, c) ELSE UNCHANGED endVars
    /\ Settle(n, "failed")
    /\ UNCHANGED <<dialler, via, received, faultVars>>

\* A timeout cancels the active send, which drops the connection.  Of the frame
\* some part, not all of it, may have been written before.
CancelSend(n) ==
    /\ writer[n].pc \in {"dial", "write", "drain"}
    /\ LET c == writer[n].conn IN
        /\ IF ~Open(n, c) THEN UNCHANGED endVars
           ELSE IF At(n, "dial") THEN CloseEnd(n, c) ELSE DropEnd(n, c)
        /\ Fault({c})
    /\ Settle(n, "failed")
    /\ UNCHANGED <<dialler, via, received>>

---------------------------------------------------------------------------
(* The listener: _accept_connection                                        *)

AcceptReplaces(n, c) ==
    /\ end[n][c] = "accepting" /\ First(n, c) = "HELLO"
    /\ stream' = [Put(n, c, <<"ACK">>) EXCEPT ![n][c] = Tail(@)]
    /\ end' = [end EXCEPT ![n] = [d \in Conns |-> IF d = c THEN "up"
                                   ELSE IF @[d] = "up" THEN "closed" ELSE @[d]]]
    /\ UNCHANGED <<dialler, sendVars, received, faultVars>>

Accept(n, c) ==
    /\ end[n][c] = "accepting" /\ First(n, c) = "HELLO"
    /\ stream' = [Put(n, c, <<"ACK">>) EXCEPT ![n][c] = Tail(@)]
    /\ end' = [end EXCEPT ![n][c] = "up"]
    /\ UNCHANGED <<dialler, sendVars, received, faultVars>>

\* The dialler gave up before HELLO was read, or before it was answered.
AcceptFails(n, c) ==
    /\ end[n][c] = "accepting"
    /\ \/ First(n, c) \in {"EOF", "RST"}
       \/ First(n, c) = "HELLO" /\ ~Open(Other(n), c)
    /\ CloseEnd(n, c)
    /\ UNCHANGED <<dialler, sendVars, received, faultVars>>

\* HELLO does not name a peer of this node.
HelloRefused(n, c) ==
    /\ end[n][c] = "accepting" /\ First(n, c) = "HELLO"
    /\ CloseEnd(n, c) /\ Fault({c})
    /\ UNCHANGED <<dialler, sendVars, received>>

---------------------------------------------------------------------------
(* The reader tasks                                                        *)

\* A reader whose connection was dropped by the writer still reads what is in
\* its StreamReader.
Read(n, c) ==
    /\ end[n][c] \in {"up", "dropped"} /\ First(n, c) \in Msgs
    /\ received' = [received EXCEPT ![n] = Append(@, First(n, c))]
    /\ stream' = [stream EXCEPT ![n][c] = Tail(@)]
    /\ UNCHANGED <<dialler, end, sendVars, faultVars>>

ReadEnds(n, c) ==
    /\ \/ end[n][c] = "up" /\ First(n, c) \in {"EOF", "RST"}
       \/ end[n][c] = "dropped"
    /\ CloseEnd(n, c)
    /\ UNCHANGED <<dialler, sendVars, received, faultVars>>

\* The connection is lost: each end that is still open finds out by itself.
Reset(c) ==
    /\ \E n \in Nodes : Open(n, c)
    /\ c \notin hit /\ Fault({c})
    /\ stream' = [n \in Nodes |->
                    [stream[n] EXCEPT ![c] = IF Open(n, c) THEN <<"RST">> ELSE @]]
    /\ UNCHANGED <<dialler, end, sendVars, received>>

---------------------------------------------------------------------------
Writer(n) ==
    UsePreferred(n) \/ Dial(n) \/ DialDone(n) \/ DialFails(n) \/ Write(n) \/ Drained(n) \/ WriteFails(n)

Listener(n, c) == Accept(n, c) \/ AcceptFails(n, c)

Reader(n, c) == Read(n, c) \/ ReadEnds(n, c)

Receives(n) == \E c \in Conns : Listener(n, c) \/ Reader(n, c)

Faulty ==
    \/ \E n \in Nodes : DialRefused(n) \/ AckRefused(n) \/ CancelSend(n)
    \/ \E n \in Nodes, c \in Conns : HelloRefused(n, c)
    \/ \E c \in Conns : Reset(c)

Runs == \E n \in Nodes : Writer(n) \/ Receives(n)

Next == Runs \/ Faulty

\* While a task of a node can run, some task does; no fault has to happen.  No
\* task is favoured: every step uses up a frame, a message or a connection.
Fairness == WF_vars(Runs)

Spec == Init /\ [][Next]_vars /\ Fairness

---------------------------------------------------------------------------
(* Properties                                                              *)

TypeOK ==
    /\ dialler \in [Conns -> Nodes \cup {Nobody}]
    /\ end \in [Nodes -> [Conns -> {"none", "dialling", "accepting", "up", "dropped", "closed"}]]
    /\ stream \in [Nodes -> [Conns -> Seq(Msgs \cup Control)]]
    /\ writer \in [Nodes -> [pc : {"idle", "dial", "write", "drain"}, conn : Conns \cup {NoConn}]]
    /\ outbox \in [Nodes -> Seq(Msgs)]
    /\ outcome \in [Msgs -> {"queued", "sent", "failed"}]
    /\ received \in [Nodes -> Seq(Msgs)]
    /\ via \in [Msgs -> Conns \cup {NoConn}]
    /\ hit \subseteq Conns
    /\ faults \in 0 .. MaxFaults

\* A message whose send was completed is at the other node, or on its way on a
\* connection the other node reads, unless a fault struck the very connection it
\* was written on: neither two dials at once nor the loss of another connection
\* loses it.
SentArrives ==
    \A n \in Nodes : \A m \in ToSet(Outbox[n]) :
        outcome[m] = "sent" /\ via[m] \notin hit =>
            \/ Contains(received[Other(n)], m)
            \/ Contains(stream[Other(n)][via[m]], m) /\ Open(Other(n), via[m])

\* "Each peer has one FIFO writer" (README.md:254), but the order survives only
\* on one connection: a message overtakes an earlier one of its node only when
\* the writer has moved to a connection with a smaller identifier, which the
\* other node dialled at the same time, or has lost the connection it used.
OvertakesOnSwitch ==
    \A n \in Nodes : \A j \in 1 .. Len(Outbox[n]) : \A i \in 1 .. j - 1 :
        LET early == Outbox[n][i]
            late == Outbox[n][j]
            got == received[Other(n)] IN
        Contains(got, early) /\ Contains(got, late) =>
            \/ \E k, l \in 1 .. Len(got) : k < l /\ got[k] = early /\ got[l] = late
            \/ via[early] \in hit
            \/ via[late] < via[early] /\ dialler[via[late]] = Other(n) /\ dialler[via[early]] = n

\* A fault costs each node at most the one send that met it: the writer leaves a
\* connection that failed, and the messages behind it go over another.  Counted are
\* the sends that failed.  A send that completed may be lost, too, with what its
\* connection still carried when the fault struck it (SentArrives): of those a
\* fault may cost several.
OneSendPerFault ==
    \A n \in Nodes : Cardinality({m \in ToSet(Outbox[n]) : outcome[m] = "failed"}) <= faults

Converges == <>[](\A n \in Nodes : Registered(n) = Registered(Other(n)))

AllArrive == \A n \in Nodes : ToSet(received[Other(n)]) = ToSet(Outbox[n])

\* Once faults stop, both nodes use the same connections, and so prefer the same;
\* and without a fault every message arrives, however the dials of the two meet.
ConnectionsSettle == Converges /\ <>(faults > 0 \/ AllArrive)
=============================================================================
