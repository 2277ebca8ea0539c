-------------------------- MODULE ConnectionsProofs --------------------------
(* Theorems about Connections for every value of its constants.            *)
EXTENDS Connections, DataLemmas, SequenceTheorems, FiniteSetTheorems, TLAPS

Frames == Msgs \cup Control

\* The two ends of a connection come and go together.
Used ==
    \A c \in Conns :
        \/ dialler[c] = Nobody /\ \A n \in Nodes : end[n][c] = "none"
        \/ dialler[c] # Nobody /\ \A n \in Nodes : end[n][c] # "none"

\* A connection that no fault has struck has not been left by either node.
Clean ==
    \A n \in Nodes, c \in Conns : c \notin hit =>
        /\ end[n][c] \in {"none", "dialling", "accepting", "up"}
        /\ \A i \in 1 .. Len(stream[n][c]) : stream[n][c][i] \notin {"EOF", "RST"}

\* The writer has a message, and uses a connection its node has.
Writing ==
    \A n \in Nodes : writer[n].pc # "idle" =>
        LET c == writer[n].conn IN
        /\ c \in Conns /\ dialler[c] # Nobody /\ outbox[n] # <<>>
        /\ c \notin hit => end[n][c] = (IF writer[n].pc = "dial" THEN "dialling" ELSE "up")

\* The messages no writer has taken are the last ones of the node.
Queued ==
    \A n \in Nodes :
        LET gone == Len(Outbox[n]) - Len(outbox[n]) IN
        /\ gone \in Nat
        /\ \A i \in 1 .. Len(outbox[n]) :
            outbox[n][i] = Outbox[n][i + gone] /\ outcome[outbox[n][i]] = "queued"

Delivered(n, m) ==
    /\ via[m] \in Conns
    /\ via[m] \notin hit =>
        \/ Contains(received[Other(n)], m)
        \/ Contains(stream[Other(n)][via[m]], m) /\ Open(Other(n), via[m])

Deliveries ==
    \A n \in Nodes :
        /\ \A m \in ToSet(Outbox[n]) : outcome[m] = "sent" => Delivered(n, m)
        /\ writer[n].pc = "drain" =>
            LET m == Head(outbox[n]) IN via[m] = writer[n].conn /\ Delivered(n, m)

IInv == TypeOK /\ Used /\ Clean /\ Writing /\ Queued /\ Deliveries

---------------------------------------------------------------------------
(* Lemmas about nodes and streams                                          *)

LEMMA Others ==
  /\ \A n \in Nodes : Other(n) \in Nodes /\ Other(n) # n /\ Other(Other(n)) = n
  /\ \A n, o \in Nodes : o = n \/ o = Other(n)
  <1>1. PICK a, b \in Nodes : a # b /\ Nodes = {a, b}
    BY ConnectionsAssumption
  <1>2. \A n \in Nodes : Other(n) \in Nodes /\ Other(n) # n
    BY <1>1 DEF Other
  <1>. QED  BY <1>1, <1>2

\* The writer prefers the least of the connections it has registered.
LEMMA PreferredExists ==
  ASSUME NEW ids, ids \subseteq Conns, ids # {}
  PROVE  Preferred(ids) \in ids /\ \A j \in ids : Preferred(ids) <= j
  <1>1. ids \subseteq Nat
    BY ConnectionsAssumption
  <1>2. PICK i \in ids : \A j \in ids : i <= j
    BY <1>1, HasLeast
  <1>. QED  BY <1>2 DEF Preferred, Min

\* Put touches one stream of the other node.
LEMMA PutElsewhere ==
  ASSUME TypeOK, NEW n \in Nodes, NEW c \in Conns, NEW f \in Frames, NEW o \in Nodes, NEW d \in Conns,
         o = n \/ d # c
  PROVE  Put(n, c, <<f>>)[o][d] = stream[o][d]
  <1>1. stream \in [Nodes -> [Conns -> Seq(Frames)]]
    BY DEF TypeOK, Frames
  <1>2. Other(n) \in Nodes /\ Other(n) # n
    BY Others
  <1>3. CASE Open(Other(n), c) /\ ~Ended(Other(n), c)
    <2>1. Put(n, c, <<f>>) = [stream EXCEPT ![Other(n)][c] = stream[Other(n)][c] \o <<f>>]
      BY <1>3 DEF Put
    <2>2. CASE o = Other(n)
      <3>1. Put(n, c, <<f>>)[o] = [stream[o] EXCEPT ![c] = stream[o][c] \o <<f>>]
        BY <1>1, <2>1, <2>2
      <3>2. stream[o] \in [Conns -> Seq(Frames)] /\ d # c
        BY <1>1, <1>2, <2>2
      <3>. QED  BY <3>1, <3>2
    <2>3. CASE o # Other(n)
      BY <1>1, <2>1, <2>3
    <2>. QED  BY <2>2, <2>3
  <1>4. CASE ~(Open(Other(n), c) /\ ~Ended(Other(n), c))
    BY <1>4 DEF Put
  <1>. QED  BY <1>3, <1>4

\* Put appends to what the other end reads, or changes nothing.
LEMMA PutStreams ==
  ASSUME TypeOK, NEW n \in Nodes, NEW c \in Conns, NEW f \in Frames
  PROVE  /\ Put(n, c, <<f>>) \in [Nodes -> [Conns -> Seq(Frames)]]
         /\ \A o \in Nodes, d \in Conns : o = n \/ d # c => Put(n, c, <<f>>)[o][d] = stream[o][d]
         /\ \/ Put(n, c, <<f>>)[Other(n)][c] = stream[Other(n)][c]
            \/ Put(n, c, <<f>>)[Other(n)][c] = stream[Other(n)][c] \o <<f>>
         /\ Open(Other(n), c) /\ ~Ended(Other(n), c) =>
                Put(n, c, <<f>>)[Other(n)][c] = stream[Other(n)][c] \o <<f>>
  <1>1. stream \in [Nodes -> [Conns -> Seq(Frames)]]
    BY DEF TypeOK, Frames
  <1>2. Other(n) \in Nodes /\ Other(n) # n
    BY Others
  <1>3. stream[Other(n)][c] \o <<f>> \in Seq(Frames)
    BY <1>1, <1>2
  <1>4. CASE Open(Other(n), c) /\ ~Ended(Other(n), c)
    <2>1. Put(n, c, <<f>>) = [stream EXCEPT ![Other(n)][c] = stream[Other(n)][c] \o <<f>>]
      BY <1>4 DEF Put
    <2>2. \A o \in Nodes, d \in Conns :
            Put(n, c, <<f>>)[o][d] = IF o = Other(n) /\ d = c THEN stream[o][d] \o <<f>> ELSE stream[o][d]
      <3>. TAKE o \in Nodes, d \in Conns
      <3>1. CASE o = Other(n)
        <4>1. Put(n, c, <<f>>)[o] = [stream[o] EXCEPT ![c] = stream[o][c] \o <<f>>]
          BY <1>1, <2>1, <3>1
        <4>2. stream[o] \in [Conns -> Seq(Frames)]
          BY <1>1
        <4>. QED  BY <3>1, <4>1, <4>2
      <3>2. CASE o # Other(n)
        BY <1>1, <2>1, <3>2
      <3>. QED  BY <3>1, <3>2
    <2>3. Put(n, c, <<f>>) \in [Nodes -> [Conns -> Seq(Frames)]]
      <3>1. [stream[Other(n)] EXCEPT ![c] = stream[Other(n)][c] \o <<f>>] \in [Conns -> Seq(Frames)]
        BY <1>1, <1>2, <1>3
      <3>. QED  BY <1>1, <1>2, <2>1, <3>1
    <2>. QED  BY <1>2, <2>2, <2>3
  <1>5. CASE ~(Open(Other(n), c) /\ ~Ended(Other(n), c))
    BY <1>1, <1>2, <1>5 DEF Put
  <1>. QED  BY <1>4, <1>5

\* Replacing one stream, or one end, leaves the others alone.
LEMMA OneStream ==
  ASSUME NEW S, NEW f \in [Nodes -> [Conns -> S]], NEW n \in Nodes, NEW c \in Conns, NEW v \in S
  PROVE  /\ [f EXCEPT ![n][c] = v] \in [Nodes -> [Conns -> S]]
         /\ \A o \in Nodes, d \in Conns :
                [f EXCEPT ![n][c] = v][o][d] = IF o = n /\ d = c THEN v ELSE f[o][d]
  <1>. DEFINE g == [f EXCEPT ![n][c] = v]
  <1>1. f[n] \in [Conns -> S] /\ DOMAIN f = Nodes /\ DOMAIN f[n] = Conns
    OBVIOUS
  <1>2. g[n] = [f[n] EXCEPT ![c] = v] /\ \A o \in Nodes : o # n => g[o] = f[o]
    BY <1>1
  <1>3. g[n] \in [Conns -> S]
    BY <1>1, <1>2
  <1>4. g \in [Nodes -> [Conns -> S]]
    BY <1>1, <1>2, <1>3
  <1>5. \A o \in Nodes, d \in Conns : g[o][d] = IF o = n /\ d = c THEN v ELSE f[o][d]
    BY <1>1, <1>2
  <1>. QED  BY <1>4, <1>5

\* A node that leaves a connection touches no other connection.
LEMMA Leaves ==
  ASSUME TypeOK, NEW n \in Nodes, NEW c \in Conns,
         CloseEnd(n, c) \/ DropEnd(n, c) \/ UNCHANGED endVars
  PROVE  /\ end' \in [Nodes -> [Conns -> {"none", "dialling", "accepting", "up", "dropped", "closed"}]]
         /\ stream' \in [Nodes -> [Conns -> Seq(Frames)]]
         /\ \A o \in Nodes, d \in Conns :
                /\ d # c => end'[o][d] = end[o][d] /\ stream'[o][d] = stream[o][d]
                /\ end'[o][d] \in {end[o][d], "closed", "dropped"}
  <1>. DEFINE Ends == {"none", "dialling", "accepting", "up", "dropped", "closed"}
  <1>1. end \in [Nodes -> [Conns -> Ends]] /\ stream \in [Nodes -> [Conns -> Seq(Frames)]]
    BY DEF TypeOK, Frames
  <1>2. "EOF" \in Frames
    BY DEF Frames, Control
  <1>. DEFINE put == Put(n, c, <<"EOF">>)
  <1>3. /\ put \in [Nodes -> [Conns -> Seq(Frames)]]
        /\ \A o \in Nodes, d \in Conns : d # c => put[o][d] = stream[o][d]
    <2>1. put \in [Nodes -> [Conns -> Seq(Frames)]]
      BY <1>2, PutStreams
    <2>2. \A o \in Nodes, d \in Conns : o = n \/ d # c => put[o][d] = stream[o][d]
      BY <1>2, PutElsewhere
    <2>. QED  BY <2>1, <2>2
  <1>4. <<>> \in Seq(Frames) /\ "closed" \in Ends /\ "dropped" \in Ends
    OBVIOUS
  <1>. HIDE DEF put, Ends
  <1>5. CASE CloseEnd(n, c)
    <2>1. end' = [end EXCEPT ![n][c] = "closed"] /\ stream' = [put EXCEPT ![n][c] = <<>>]
      BY <1>5 DEF CloseEnd, put
    <2>2. /\ end' \in [Nodes -> [Conns -> Ends]]
          /\ \A o \in Nodes, d \in Conns : end'[o][d] = IF o = n /\ d = c THEN "closed" ELSE end[o][d]
      BY <1>1, <1>4, <2>1, OneStream
    <2>3. /\ stream' \in [Nodes -> [Conns -> Seq(Frames)]]
          /\ \A o \in Nodes, d \in Conns : stream'[o][d] = IF o = n /\ d = c THEN <<>> ELSE put[o][d]
      BY <1>3, <1>4, <2>1, OneStream
    <2>. QED  BY <1>3, <2>2, <2>3 DEF Ends
  <1>6. CASE DropEnd(n, c)
    <2>1. end' = [end EXCEPT ![n][c] = "dropped"] /\ stream' = put
      BY <1>6 DEF DropEnd, put
    <2>2. /\ end' \in [Nodes -> [Conns -> Ends]]
          /\ \A o \in Nodes, d \in Conns : end'[o][d] = IF o = n /\ d = c THEN "dropped" ELSE end[o][d]
      BY <1>1, <1>4, <2>1, OneStream
    <2>. QED  BY <1>3, <2>1, <2>2 DEF Ends
  <1>7. CASE UNCHANGED endVars
    BY <1>1, <1>7 DEF endVars, Ends
  <1>. QED  BY <1>5, <1>6, <1>7

\* Settle ends the send of the message at the head of the outbox.
LEMMA Settles ==
  ASSUME TypeOK, NEW n \in Nodes, outbox[n] # <<>>, NEW how \in {"sent", "failed"}, Settle(n, how)
  PROVE  /\ outbox' \in [Nodes -> Seq(Msgs)]
         /\ outcome' \in [Msgs -> {"queued", "sent", "failed"}]
         /\ writer' \in [Nodes -> [pc : {"idle", "dial", "write", "drain"}, conn : Conns \cup {NoConn}]]
         /\ writer'[n].pc = "idle"
         /\ outbox'[n] = Tail(outbox[n])
         /\ \A o \in Nodes : o # n => outbox'[o] = outbox[o] /\ writer'[o] = writer[o]
         /\ \A m \in Msgs : outcome'[m] = IF m = Head(outbox[n]) THEN how ELSE outcome[m]
  <1>1. /\ outbox \in [Nodes -> Seq(Msgs)]
        /\ outcome \in [Msgs -> {"queued", "sent", "failed"}]
        /\ writer \in [Nodes -> [pc : {"idle", "dial", "write", "drain"}, conn : Conns \cup {NoConn}]]
    BY DEF TypeOK
  <1>2. Tail(outbox[n]) \in Seq(Msgs) /\ Head(outbox[n]) \in Msgs
    BY <1>1
  <1>3. Idle \in [pc : {"idle", "dial", "write", "drain"}, conn : Conns \cup {NoConn}] /\ Idle.pc = "idle"
    BY DEF Idle
  <1>4. outbox' = [outbox EXCEPT ![n] = Tail(outbox[n])]
    BY DEF Settle
  <1>5. outcome' = [outcome EXCEPT ![Head(outbox[n])] = how]
    BY DEF Settle
  <1>6. writer' = [writer EXCEPT ![n] = Idle]
    BY DEF Settle
  <1>. QED  BY <1>1, <1>2, <1>3, <1>4, <1>5, <1>6

LEMMA GoesTo ==
  ASSUME TypeOK, NEW n \in Nodes, NEW pc \in {"idle", "dial", "write", "drain"}, NEW c \in Conns,
         Goes(n, pc, c)
  PROVE  /\ writer' \in [Nodes -> [pc : {"idle", "dial", "write", "drain"}, conn : Conns \cup {NoConn}]]
         /\ writer'[n].pc = pc /\ writer'[n].conn = c
         /\ \A o \in Nodes : o # n => writer'[o] = writer[o]
  BY DEF TypeOK, Goes

---------------------------------------------------------------------------
(* What a step does to the two ends of every connection                    *)

EndType == [Nodes -> [Conns -> {"none", "dialling", "accepting", "up", "dropped", "closed"}]]
StreamType == [Nodes -> [Conns -> Seq(Frames)]]

\* What may happen at one end of a connection that no fault has struck.
Moves(o, c) ==
    \/ stream'[o][c] = stream[o][c] /\ end'[o][c] = end[o][c]
    \/ /\ \E f \in Msgs \cup {"ACK"} : stream'[o][c] = stream[o][c] \o <<f>>
       /\ end'[o][c] = end[o][c]
    \/ /\ stream[o][c] # <<>> /\ Head(stream[o][c]) \in {"HELLO", "ACK"}
       /\ stream'[o][c] = Tail(stream[o][c]) /\ end'[o][c] = "up"
       /\ end[o][c] = "accepting" \/ writer'[o].pc # writer[o].pc
    \/ /\ stream[o][c] # <<>> /\ Head(stream[o][c]) \in Msgs
       /\ stream'[o][c] = Tail(stream[o][c]) /\ end'[o][c] = end[o][c]
       /\ received'[o] = Append(received[o], Head(stream[o][c]))
    \/ /\ end[o][c] = "none" /\ end'[o][c] \in {"dialling", "accepting"}
       /\ stream'[o][c] \in {stream[o][c], <<"HELLO">>}

\* Whether the two ends exist.
Exists(c) ==
    \/ dialler'[c] = dialler[c] /\ \A o \in Nodes : end'[o][c] = "none" <=> end[o][c] = "none"
    \/ dialler'[c] \in Nodes /\ \A o \in Nodes : end'[o][c] # "none"

EndsMove ==
    /\ end' \in EndType /\ stream' \in StreamType
    /\ \A c \in Conns : Exists(c)
    /\ \A o \in Nodes, c \in Conns : c \notin hit' => Moves(o, c)

LEMMA EndTypes == TypeOK => end \in EndType /\ stream \in StreamType
  BY DEF TypeOK, EndType, StreamType, Frames

\* On a connection without a fault no stream ends.
LEMMA NotEnded ==
  ASSUME TypeOK, Clean, NEW n \in Nodes, NEW c \in Conns, c \notin hit
  PROVE  First(n, c) \notin {"EOF", "RST"} /\ ~Struck(n, c) /\ ~Ended(n, c) /\ end[n][c] \notin {"dropped", "closed"}
  <1>1. stream[n][c] \in Seq(Frames)
    BY EndTypes DEF StreamType
  <1>2. \A i \in 1 .. Len(stream[n][c]) : stream[n][c][i] \notin {"EOF", "RST"}
    BY DEF Clean
  <1>3. stream[n][c] # <<>> =>
            /\ Head(stream[n][c]) \notin {"EOF", "RST"}
            /\ stream[n][c][Len(stream[n][c])] \notin {"EOF", "RST"}
    BY <1>1, <1>2
  <1>4. end[n][c] \notin {"dropped", "closed"}
    BY DEF Clean
  <1>. QED  BY <1>3, <1>4 DEF First, Struck, Ended, Last

LEMMA NoEndMoves ==
  ASSUME TypeOK, UNCHANGED <<dialler, endVars>>
  PROVE  EndsMove
  BY EndTypes DEF EndsMove, Moves, Exists, endVars

\* A node leaves a connection only after a fault has struck it.
LEMMA LeavingMoves ==
  ASSUME TypeOK, Used, UNCHANGED dialler, NEW n \in Nodes, NEW c \in Conns,
         CloseEnd(n, c) \/ DropEnd(n, c) \/ UNCHANGED endVars,
         UNCHANGED endVars \/ (c \in hit' /\ dialler[c] # Nobody)
  PROVE  EndsMove
  <1>1. CASE UNCHANGED endVars
    BY <1>1, NoEndMoves
  <1>2. CASE c \in hit' /\ dialler[c] # Nobody
    <2>1. /\ end' \in EndType /\ stream' \in StreamType
          /\ \A o \in Nodes, d \in Conns :
                /\ d # c => end'[o][d] = end[o][d] /\ stream'[o][d] = stream[o][d]
                /\ end'[o][d] \in {end[o][d], "closed", "dropped"}
      BY Leaves DEF EndType, StreamType
    <2>2. \A o \in Nodes : end[o][c] # "none"
      BY <1>2 DEF Used
    <2>3. \A d \in Conns : Exists(d)
      BY <2>1, <2>2 DEF Exists
    <2>. QED  BY <1>2, <2>1, <2>3 DEF EndsMove, Moves
  <1>. QED  BY <1>1, <1>2

LEMMA DialMoves ==
  ASSUME TypeOK, Used, NEW n \in Nodes, Dial(n)
  PROVE  EndsMove
  <1>1. PICK c \in Conns :
            /\ dialler[c] = Nobody /\ dialler' = [dialler EXCEPT ![c] = n]
            /\ end' = [end EXCEPT ![n][c] = "dialling", ![Other(n)][c] = "accepting"]
            /\ stream' = [stream EXCEPT ![Other(n)][c] = <<"HELLO">>]
    BY DEF Dial
  <1>2. Other(n) \in Nodes /\ Other(n) # n /\ \A o \in Nodes : o = n \/ o = Other(n)
    BY Others
  <1>. DEFINE Ends == {"none", "dialling", "accepting", "up", "dropped", "closed"}
              half == [end EXCEPT ![n][c] = "dialling"]
  <1>3. /\ end \in [Nodes -> [Conns -> Ends]] /\ stream \in [Nodes -> [Conns -> Seq(Frames)]]
        /\ "dialling" \in Ends /\ "accepting" \in Ends /\ <<"HELLO">> \in Seq(Frames)
    BY EndTypes DEF EndType, StreamType, Frames, Control
  <1>4. end' = [half EXCEPT ![Other(n)][c] = "accepting"]
    BY <1>1
  <1>. HIDE DEF Ends
  <1>5. /\ half \in [Nodes -> [Conns -> Ends]]
        /\ \A o \in Nodes, d \in Conns : half[o][d] = IF o = n /\ d = c THEN "dialling" ELSE end[o][d]
    BY <1>3, OneStream
  <1>. HIDE DEF half
  <1>6. /\ end' \in [Nodes -> [Conns -> Ends]]
        /\ \A o \in Nodes, d \in Conns : end'[o][d] = IF o = Other(n) /\ d = c THEN "accepting" ELSE half[o][d]
    BY <1>2, <1>3, <1>4, <1>5, OneStream
  <1>7. /\ stream' \in [Nodes -> [Conns -> Seq(Frames)]]
        /\ \A o \in Nodes, d \in Conns : stream'[o][d] = IF o = Other(n) /\ d = c THEN <<"HELLO">> ELSE stream[o][d]
    BY <1>1, <1>2, <1>3, OneStream
  <1>8. \A o \in Nodes : end[o][c] = "none"
    BY <1>1 DEF Used
  <1>9. dialler'[c] = n /\ \A d \in Conns : d # c => dialler'[d] = dialler[d]
    BY <1>1 DEF TypeOK
  <1>10. \A d \in Conns : Exists(d)
    BY <1>2, <1>5, <1>6, <1>9 DEF Exists
  <1>11. \A o \in Nodes, d \in Conns : Moves(o, d)
    BY <1>2, <1>5, <1>6, <1>7, <1>8 DEF Moves
  <1>. QED  BY <1>6, <1>7, <1>10, <1>11 DEF EndsMove, EndType, StreamType, Ends

LEMMA DialDoneMoves ==
  ASSUME TypeOK, Used, Writing, NEW n \in Nodes, DialDone(n)
  PROVE  EndsMove
  <1>. DEFINE c == writer[n].conn
              Ends == {"none", "dialling", "accepting", "up", "dropped", "closed"}
  <1>1. /\ c \in Conns /\ dialler[c] # Nobody /\ First(n, c) = "ACK"
        /\ stream' = [stream EXCEPT ![n][c] = Tail(stream[n][c])]
        /\ end' = [end EXCEPT ![n][c] = "up"]
        /\ dialler' = dialler
    BY DEF DialDone, Writing, At
  <1>2. writer[n].pc = "dial" /\ writer'[n].pc = "write"
    BY <1>1, GoesTo DEF DialDone, At
  <1>. HIDE DEF c
  <1>3. /\ end \in [Nodes -> [Conns -> Ends]] /\ stream \in [Nodes -> [Conns -> Seq(Frames)]]
        /\ "up" \in Ends
    BY EndTypes DEF EndType, StreamType
  <1>4. stream[n][c] # <<>> /\ Head(stream[n][c]) = "ACK"
    BY <1>1 DEF First
  <1>5. Tail(stream[n][c]) \in Seq(Frames)
    BY <1>1, <1>3, <1>4
  <1>. HIDE DEF Ends
  <1>6. /\ end' \in [Nodes -> [Conns -> Ends]]
        /\ \A o \in Nodes, d \in Conns : end'[o][d] = IF o = n /\ d = c THEN "up" ELSE end[o][d]
    BY <1>1, <1>3, OneStream
  <1>7. /\ stream' \in [Nodes -> [Conns -> Seq(Frames)]]
        /\ \A o \in Nodes, d \in Conns : stream'[o][d] = IF o = n /\ d = c THEN Tail(stream[n][c]) ELSE stream[o][d]
    BY <1>1, <1>3, <1>5, OneStream
  <1>8. end[n][c] # "none"
    BY <1>1 DEF Used
  <1>9. \A d \in Conns : Exists(d)
    BY <1>1, <1>6, <1>8 DEF Exists
  <1>10. \A o \in Nodes, d \in Conns : Moves(o, d)
    BY <1>2, <1>4, <1>6, <1>7 DEF Moves
  <1>. QED  BY <1>6, <1>7, <1>9, <1>10 DEF EndsMove, EndType, StreamType, Ends

LEMMA WriteMoves ==
  ASSUME TypeOK, Writing, NEW n \in Nodes, Write(n)
  PROVE  EndsMove
  <1>. DEFINE c == writer[n].conn
              m == Head(outbox[n])
  <1>1. /\ c \in Conns /\ outbox[n] # <<>> /\ dialler' = dialler /\ end' = end
        /\ stream' = stream \/ stream' = Put(n, c, <<m>>)
    BY DEF Write, Writing, At
  <1>2. m \in Msgs
    BY <1>1 DEF TypeOK
  <1>. HIDE DEF c, m
  <1>3. Other(n) \in Nodes /\ Other(n) # n /\ \A o \in Nodes : o = n \/ o = Other(n)
    BY Others
  <1>4. m \in Frames
    BY <1>2 DEF Frames
  <1>5. /\ Put(n, c, <<m>>) \in [Nodes -> [Conns -> Seq(Frames)]]
        /\ \/ Put(n, c, <<m>>)[Other(n)][c] = stream[Other(n)][c]
           \/ Put(n, c, <<m>>)[Other(n)][c] = stream[Other(n)][c] \o <<m>>
    BY <1>1, <1>4, PutStreams
  <1>6. \A o \in Nodes, d \in Conns : o = n \/ d # c => Put(n, c, <<m>>)[o][d] = stream[o][d]
    BY <1>1, <1>4, PutElsewhere
  <1>7. \A o \in Nodes, d \in Conns : Moves(o, d)
    <2>. TAKE o \in Nodes, d \in Conns
    <2>1. CASE stream' = stream
      BY <1>1, <2>1 DEF Moves
    <2>2. CASE stream' = Put(n, c, <<m>>) /\ (o = n \/ d # c)
      BY <1>1, <1>6, <2>2 DEF Moves
    <2>3. CASE stream' = Put(n, c, <<m>>) /\ o = Other(n) /\ d = c
      BY <1>1, <1>2, <1>5, <2>3 DEF Moves
    <2>. QED  BY <1>1, <1>3, <2>1, <2>2, <2>3
  <1>8. stream' \in StreamType /\ end' \in EndType
    BY <1>1, <1>5, EndTypes DEF StreamType
  <1>. QED  BY <1>1, <1>7, <1>8 DEF EndsMove, Exists

LEMMA AcceptMoves ==
  ASSUME TypeOK, NEW n \in Nodes, NEW c \in Conns, Accept(n, c)
  PROVE  EndsMove
  <1>. DEFINE Ends == {"none", "dialling", "accepting", "up", "dropped", "closed"}
              put == Put(n, c, <<"ACK">>)
  <1>1. /\ end \in [Nodes -> [Conns -> Ends]] /\ stream \in [Nodes -> [Conns -> Seq(Frames)]]
        /\ "up" \in Ends /\ "ACK" \in Frames
    BY EndTypes DEF EndType, StreamType, Frames, Control
  <1>2. Other(n) \in Nodes /\ Other(n) # n /\ \A o \in Nodes : o = n \/ o = Other(n)
    BY Others
  <1>3. /\ put \in [Nodes -> [Conns -> Seq(Frames)]]
        /\ \/ put[Other(n)][c] = stream[Other(n)][c]
           \/ put[Other(n)][c] = stream[Other(n)][c] \o <<"ACK">>
    BY <1>1, PutStreams
  <1>4. \A o \in Nodes, d \in Conns : o = n \/ d # c => put[o][d] = stream[o][d]
    BY <1>1, PutElsewhere
  <1>5. /\ end[n][c] = "accepting" /\ dialler' = dialler
        /\ stream[n][c] # <<>> /\ Head(stream[n][c]) = "HELLO"
        /\ end' = [end EXCEPT ![n][c] = "up"]
        /\ stream' = [put EXCEPT ![n][c] = Tail(put[n][c])]
    BY DEF Accept, First
  <1>. HIDE DEF Ends, put
  <1>6. put[n][c] = stream[n][c] /\ Tail(put[n][c]) \in Seq(Frames)
    BY <1>1, <1>4, <1>5
  <1>7. /\ end' \in [Nodes -> [Conns -> Ends]]
        /\ \A o \in Nodes, d \in Conns : end'[o][d] = IF o = n /\ d = c THEN "up" ELSE end[o][d]
    BY <1>1, <1>5, OneStream
  <1>8. /\ stream' \in [Nodes -> [Conns -> Seq(Frames)]]
        /\ \A o \in Nodes, d \in Conns : stream'[o][d] = IF o = n /\ d = c THEN Tail(put[n][c]) ELSE put[o][d]
    BY <1>3, <1>5, <1>6, OneStream
  <1>9. \A o \in Nodes, d \in Conns : Moves(o, d)
    <2>. TAKE o \in Nodes, d \in Conns
    <2>1. CASE o = n /\ d = c
      BY <1>5, <1>6, <1>7, <1>8, <2>1 DEF Moves
    <2>2. CASE d # c
      BY <1>4, <1>7, <1>8, <2>2 DEF Moves
    <2>3. CASE o = Other(n) /\ d = c
      BY <1>2, <1>3, <1>7, <1>8, <2>3 DEF Moves
    <2>. QED  BY <1>2, <2>1, <2>2, <2>3
  <1>. QED  BY <1>5, <1>7, <1>8, <1>9 DEF EndsMove, Exists, EndType, StreamType, Ends

LEMMA ReadMoves ==
  ASSUME TypeOK, NEW n \in Nodes, NEW c \in Conns, Read(n, c)
  PROVE  EndsMove
  <1>1. stream \in [Nodes -> [Conns -> Seq(Frames)]] /\ end \in EndType
    BY EndTypes DEF StreamType
  <1>2. /\ stream[n][c] # <<>> /\ Head(stream[n][c]) \in Msgs /\ end' = end /\ dialler' = dialler
        /\ stream' = [stream EXCEPT ![n][c] = Tail(stream[n][c])]
        /\ received' = [received EXCEPT ![n] = Append(received[n], Head(stream[n][c]))]
    BY ConnectionsAssumption DEF Read, First
  <1>3. Tail(stream[n][c]) \in Seq(Frames)
    BY <1>1, <1>2
  <1>4. /\ stream' \in [Nodes -> [Conns -> Seq(Frames)]]
        /\ \A o \in Nodes, d \in Conns : stream'[o][d] = IF o = n /\ d = c THEN Tail(stream[n][c]) ELSE stream[o][d]
    BY <1>1, <1>2, <1>3, OneStream
  <1>5. received'[n] = Append(received[n], Head(stream[n][c]))
    BY <1>2 DEF TypeOK
  <1>6. \A o \in Nodes, d \in Conns : Moves(o, d)
    BY <1>2, <1>4, <1>5 DEF Moves
  <1>. QED  BY <1>1, <1>2, <1>4, <1>6 DEF EndsMove, Exists, StreamType

LEMMA ResetMoves ==
  ASSUME TypeOK, NEW c \in Conns, Reset(c)
  PROVE  EndsMove
  <1>1. stream \in [Nodes -> [Conns -> Seq(Frames)]] /\ end \in EndType
    BY EndTypes DEF StreamType
  <1>2. /\ end' = end /\ dialler' = dialler /\ c \in hit'
        /\ stream' = [n \in Nodes |-> [stream[n] EXCEPT ![c] = IF Open(n, c) THEN <<"RST">> ELSE stream[n][c]]]
    BY DEF Reset, Fault
  <1>3. <<"RST">> \in Seq(Frames)
    BY DEF Frames, Control
  <1>4. \A n \in Nodes : stream'[n] \in [Conns -> Seq(Frames)]
    BY <1>1, <1>2, <1>3
  <1>5. stream' \in [Nodes -> [Conns -> Seq(Frames)]]
    BY <1>2, <1>4
  <1>6. \A o \in Nodes, d \in Conns : d # c => stream'[o][d] = stream[o][d]
    BY <1>1, <1>2
  <1>. QED  BY <1>1, <1>2, <1>5, <1>6 DEF EndsMove, Exists, Moves, StreamType

LEMMA Step ==
  ASSUME IInv, Next
  PROVE  EndsMove /\ hit \subseteq hit'
  <1>. USE DEF IInv
  <1>1. ASSUME NEW n \in Nodes, UsePreferred(n) \/ DialRefused(n) \/ Drained(n)
        PROVE  EndsMove /\ hit \subseteq hit'
    BY <1>1, NoEndMoves DEF UsePreferred, DialRefused, Drained, Fault, faultVars
  <1>2. ASSUME NEW n \in Nodes, Dial(n)
        PROVE  EndsMove /\ hit \subseteq hit'
    BY <1>2, DialMoves DEF Dial, faultVars
  <1>3. ASSUME NEW n \in Nodes, DialDone(n)
        PROVE  EndsMove /\ hit \subseteq hit'
    BY <1>3, DialDoneMoves DEF DialDone, faultVars
  <1>4. ASSUME NEW n \in Nodes, Write(n)
        PROVE  EndsMove /\ hit \subseteq hit'
    BY <1>4, WriteMoves DEF Write, faultVars
  <1>5. ASSUME NEW n \in Nodes, DialFails(n) \/ WriteFails(n) \/ AckRefused(n) \/ CancelSend(n)
        PROVE  EndsMove /\ hit \subseteq hit'
    <2>. DEFINE c == writer[n].conn
    <2>1. /\ c \in Conns /\ dialler[c] # Nobody /\ hit \subseteq hit'
          /\ c \notin hit => end[n][c] = (IF writer[n].pc = "dial" THEN "dialling" ELSE "up")
      BY <1>5 DEF Writing, DialFails, WriteFails, AckRefused, CancelSend, At, Fault, faultVars
    <2>2. dialler' = dialler
      BY <1>5 DEF DialFails, WriteFails, AckRefused, CancelSend
    <2>3. CloseEnd(n, c) \/ DropEnd(n, c) \/ UNCHANGED endVars
      BY <1>5 DEF DialFails, WriteFails, AckRefused, CancelSend
    <2>4. UNCHANGED endVars \/ c \in hit'
      <3>1. CASE AckRefused(n) \/ CancelSend(n)
        BY <3>1 DEF AckRefused, CancelSend, Fault
      <3>2. CASE DialFails(n)
        BY <2>1, <3>2, NotEnded DEF DialFails
      <3>3. CASE WriteFails(n)
        BY <2>1, <3>3, NotEnded DEF WriteFails, At
      <3>. QED  BY <1>5, <3>1, <3>2, <3>3
    <2>. HIDE DEF c
    <2>. QED  BY <2>1, <2>2, <2>3, <2>4, LeavingMoves
  <1>6. ASSUME NEW n \in Nodes, NEW c \in Conns, AcceptFails(n, c) \/ HelloRefused(n, c) \/ ReadEnds(n, c)
        PROVE  EndsMove /\ hit \subseteq hit'
    <2>1. CloseEnd(n, c) /\ dialler' = dialler /\ end[n][c] # "none" /\ hit \subseteq hit'
      BY <1>6 DEF AcceptFails, HelloRefused, ReadEnds, Fault, faultVars
    <2>2. dialler[c] # Nobody /\ \A o \in Nodes : end[o][c] # "none"
      BY <2>1 DEF Used
    <2>3. c \notin hit => Open(Other(n), c)
      BY <2>2, Others DEF Clean, Open
    <2>4. c \in hit'
      <3>1. CASE HelloRefused(n, c)
        BY <3>1 DEF HelloRefused, Fault
      <3>2. CASE AcceptFails(n, c)
        BY <2>1, <2>3, <3>2, NotEnded DEF AcceptFails
      <3>3. CASE ReadEnds(n, c)
        BY <2>1, <3>3, NotEnded DEF ReadEnds
      <3>. QED  BY <1>6, <3>1, <3>2, <3>3
    <2>. QED  BY <2>1, <2>2, <2>4, LeavingMoves
  <1>7. ASSUME NEW n \in Nodes, NEW c \in Conns, Accept(n, c)
        PROVE  EndsMove /\ hit \subseteq hit'
    BY <1>7, AcceptMoves DEF Accept, faultVars
  <1>8. ASSUME NEW n \in Nodes, NEW c \in Conns, Read(n, c)
        PROVE  EndsMove /\ hit \subseteq hit'
    BY <1>8, ReadMoves DEF Read, faultVars
  <1>9. ASSUME NEW c \in Conns, Reset(c)
        PROVE  EndsMove /\ hit \subseteq hit'
    BY <1>9, ResetMoves DEF Reset, Fault
  <1>. QED  BY <1>1, <1>2, <1>3, <1>4, <1>5, <1>6, <1>7, <1>8, <1>9
            DEF Next, Runs, Writer, Receives, Listener, Reader, Faulty

---------------------------------------------------------------------------
(* The parts of the invariant                                              *)

LEMMA UsedKept ==
  ASSUME IInv, Next
  PROVE  Used'
  <1>1. \A c \in Conns : Exists(c)
    BY Step DEF EndsMove
  <1>2. "nobody" \notin Nodes
    BY ConnectionsAssumption
  <1>. QED  BY <1>1, <1>2 DEF Used, Exists, IInv, Nobody

LEMMA CleanKept ==
  ASSUME IInv, Next
  PROVE  Clean'
  <1>. SUFFICES ASSUME NEW o \in Nodes, NEW c \in Conns, c \notin hit'
                PROVE  /\ end'[o][c] \in {"none", "dialling", "accepting", "up"}
                       /\ \A i \in 1 .. Len(stream'[o][c]) : stream'[o][c][i] \notin {"EOF", "RST"}
    BY DEF Clean
  <1>1. Moves(o, c) /\ c \notin hit
    BY Step DEF EndsMove
  <1>2. /\ end[o][c] \in {"none", "dialling", "accepting", "up"}
        /\ \A i \in 1 .. Len(stream[o][c]) : stream[o][c][i] \notin {"EOF", "RST"}
    BY <1>1 DEF IInv, Clean
  <1>3. stream[o][c] \in Seq(Frames)
    BY EndTypes DEF IInv, StreamType
  <1>4. "EOF" \notin Msgs /\ "RST" \notin Msgs
    BY ConnectionsAssumption DEF Control
  <1>5. CASE stream'[o][c] = stream[o][c] /\ end'[o][c] = end[o][c]
    BY <1>2, <1>5
  <1>6. CASE /\ \E f \in Msgs \cup {"ACK"} : stream'[o][c] = stream[o][c] \o <<f>>
             /\ end'[o][c] = end[o][c]
    <2>1. PICK f \in Msgs \cup {"ACK"} : stream'[o][c] = stream[o][c] \o <<f>>
      BY <1>6
    <2>2. f \notin {"EOF", "RST"} /\ f \in Frames
      BY <1>4 DEF Frames, Control
    <2>3. \A i \in 1 .. Len(stream[o][c]) + 1 :
            (stream[o][c] \o <<f>>)[i] = IF i <= Len(stream[o][c]) THEN stream[o][c][i] ELSE f
      BY <1>3, <2>2
    <2>4. Len(stream[o][c] \o <<f>>) = Len(stream[o][c]) + 1 /\ Len(stream[o][c]) \in Nat
      BY <1>3, <2>2
    <2>. QED  BY <1>2, <1>6, <2>1, <2>2, <2>3, <2>4
  <1>7. CASE /\ stream[o][c] # <<>> /\ stream'[o][c] = Tail(stream[o][c])
             /\ end'[o][c] \in {end[o][c], "up"}
    <2>1. /\ Len(Tail(stream[o][c])) = Len(stream[o][c]) - 1 /\ Len(stream[o][c]) \in Nat
          /\ \A i \in 1 .. Len(stream[o][c]) - 1 : Tail(stream[o][c])[i] = stream[o][c][i + 1]
      BY <1>3, <1>7
    <2>. QED  BY <1>2, <1>7, <2>1
  <1>8. CASE /\ end'[o][c] \in {"dialling", "accepting"}
             /\ stream'[o][c] \in {stream[o][c], <<"HELLO">>}
    BY <1>2, <1>8
  <1>. QED  BY <1>1, <1>5, <1>6, <1>7, <1>8 DEF Moves

---------------------------------------------------------------------------
(* What a step does to the sends of the nodes                              *)

WriterType == [Nodes -> [pc : {"idle", "dial", "write", "drain"}, conn : Conns \cup {NoConn}]]

\* The writer goes on with the message it has taken.
Proceeds(n) ==
    /\ UsePreferred(n) \/ Dial(n) \/ DialDone(n) \/ Write(n)
    /\ outbox[n] # <<>> /\ outbox' = outbox /\ outcome' = outcome
    /\ writer' \in WriterType /\ \A o \in Nodes : o # n => writer'[o] = writer[o]
    /\ writer'[n].pc = (IF UsePreferred(n) \/ DialDone(n) THEN "write" ELSE IF Dial(n) THEN "dial" ELSE "drain")
    /\ writer'[n].conn \in Conns
    /\ dialler'[writer'[n].conn] # Nobody
    /\ writer'[n].conn \notin hit' =>
            end'[n][writer'[n].conn] = (IF Dial(n) THEN "dialling" ELSE "up")

\* The send of the message is over.
Finishes(n) ==
    /\ outbox[n] # <<>> /\ via' = via
    /\ Settle(n, "failed") \/ (Settle(n, "sent") /\ At(n, "drain"))

LEMMA UsePreferredProceeds ==
  ASSUME IInv, NEW n \in Nodes, UsePreferred(n)
  PROVE  Proceeds(n)
  <1>. DEFINE c == Preferred(Registered(n))
  <1>1. c \in Registered(n)
    BY PreferredExists DEF UsePreferred, Registered
  <1>2. c \in Conns /\ end[n][c] = "up"
    BY <1>1 DEF Registered
  <1>3. Goes(n, "write", c) /\ UNCHANGED <<dialler, endVars, outbox, outcome, via>> /\ outbox[n] # <<>>
    BY DEF UsePreferred
  <1>4. dialler[c] # Nobody
    BY <1>2 DEF IInv, Used
  <1>5. writer' \in WriterType /\ writer'[n].pc = "write" /\ writer'[n].conn = c
        /\ \A o \in Nodes : o # n => writer'[o] = writer[o]
    BY <1>2, <1>3, GoesTo DEF IInv, WriterType
  <1>6. ~Dial(n)
    BY DEF Dial, UsePreferred
  <1>. HIDE DEF c
  <1>. QED  BY <1>2, <1>3, <1>4, <1>5, <1>6 DEF Proceeds, endVars

LEMMA DialProceeds ==
  ASSUME IInv, Next, NEW n \in Nodes, Dial(n)
  PROVE  Proceeds(n)
  <1>1. PICK c \in Conns :
            /\ dialler[c] = Nobody /\ dialler' = [dialler EXCEPT ![c] = n]
            /\ end' = [end EXCEPT ![n][c] = "dialling", ![Other(n)][c] = "accepting"]
            /\ Goes(n, "dial", c)
    BY DEF Dial
  <1>2. writer' \in WriterType /\ writer'[n].pc = "dial" /\ writer'[n].conn = c
        /\ \A o \in Nodes : o # n => writer'[o] = writer[o]
    BY <1>1, GoesTo DEF IInv, WriterType
  <1>3. Other(n) # n /\ Other(n) \in Nodes
    BY Others
  <1>4. end'[n][c] = "dialling"
    BY <1>1, <1>3 DEF IInv, TypeOK
  <1>5. dialler'[c] = n /\ n # Nobody
    BY <1>1, ConnectionsAssumption DEF IInv, TypeOK, Nobody
  <1>6. ~UsePreferred(n) /\ ~DialDone(n)
    BY DEF Dial, UsePreferred, DialDone, At
  <1>. QED  BY <1>2, <1>4, <1>5, <1>6 DEF Proceeds, Dial

LEMMA DialDoneProceeds ==
  ASSUME IInv, NEW n \in Nodes, DialDone(n)
  PROVE  Proceeds(n)
  <1>. DEFINE c == writer[n].conn
  <1>1. c \in Conns /\ dialler[c] # Nobody /\ outbox[n] # <<>>
    BY DEF IInv, Writing, DialDone, At
  <1>2. Goes(n, "write", c) /\ UNCHANGED <<dialler, outbox, outcome>>
        /\ end' = [end EXCEPT ![n][c] = "up"]
    BY DEF DialDone
  <1>3. writer' \in WriterType /\ writer'[n].pc = "write" /\ writer'[n].conn = c
        /\ \A o \in Nodes : o # n => writer'[o] = writer[o]
    BY <1>1, <1>2, GoesTo DEF IInv, WriterType
  <1>4. end'[n][c] = "up"
    BY <1>1, <1>2 DEF IInv, TypeOK
  <1>5. ~Dial(n)
    BY DEF Dial, DialDone, At
  <1>. HIDE DEF c
  <1>. QED  BY <1>1, <1>2, <1>3, <1>4, <1>5 DEF Proceeds

LEMMA WriteProceeds ==
  ASSUME IInv, NEW n \in Nodes, Write(n)
  PROVE  Proceeds(n)
  <1>. DEFINE c == writer[n].conn
  <1>1. /\ c \in Conns /\ dialler[c] # Nobody /\ outbox[n] # <<>>
        /\ c \notin hit => end[n][c] = "up"
    BY DEF IInv, Writing, Write, At
  <1>2. Goes(n, "drain", c) /\ UNCHANGED <<dialler, end, outbox, outcome, hit>>
    BY DEF Write, faultVars
  <1>3. writer' \in WriterType /\ writer'[n].pc = "drain" /\ writer'[n].conn = c
        /\ \A o \in Nodes : o # n => writer'[o] = writer[o]
    BY <1>1, <1>2, GoesTo DEF IInv, WriterType
  <1>4. ~Dial(n) /\ ~UsePreferred(n) /\ ~DialDone(n)
    BY DEF Dial, UsePreferred, DialDone, Write, At
  <1>. HIDE DEF c
  <1>. QED  BY <1>1, <1>2, <1>3, <1>4 DEF Proceeds

\* A step leaves the sends alone, or one writer proceeds with or finishes its.
LEMMA Sends ==
  ASSUME IInv, Next
  PROVE  UNCHANGED sendVars \/ \E n \in Nodes : Proceeds(n) \/ Finishes(n)
  <1>. DEFINE Goal == UNCHANGED sendVars \/ \E n \in Nodes : Proceeds(n) \/ Finishes(n)
  <1>1. ASSUME NEW n \in Nodes, UsePreferred(n) \/ Dial(n) \/ DialDone(n) \/ Write(n)
        PROVE  Goal
    BY <1>1, UsePreferredProceeds, DialProceeds, DialDoneProceeds, WriteProceeds
  <1>2. ASSUME NEW n \in Nodes,
               DialRefused(n) \/ DialFails(n) \/ AckRefused(n) \/ Drained(n) \/ WriteFails(n) \/ CancelSend(n)
        PROVE  Goal
    <2>1. outbox[n] # <<>>
      BY <1>2 DEF IInv, Writing, DialRefused, DialFails, AckRefused, Drained, WriteFails, CancelSend, At
    <2>2. Finishes(n)
      BY <1>2, <2>1 DEF Finishes, DialRefused, DialFails, AckRefused, Drained, WriteFails, CancelSend
    <2>. QED  BY <2>2
  <1>3. ASSUME NEW n \in Nodes, NEW c \in Conns,
               Accept(n, c) \/ AcceptFails(n, c) \/ HelloRefused(n, c) \/ Read(n, c) \/ ReadEnds(n, c)
        PROVE  Goal
    BY <1>3 DEF Accept, AcceptFails, HelloRefused, Read, ReadEnds
  <1>4. ASSUME NEW c \in Conns, Reset(c)
        PROVE  Goal
    BY <1>4 DEF Reset
  <1>. HIDE DEF Goal
  <1>5. Goal
    BY <1>1, <1>2, <1>3, <1>4 DEF Next, Runs, Writer, Receives, Listener, Reader, Faulty
  <1>. QED  BY <1>5 DEF Goal

\* The variables that only some steps change.
LEMMA Histories ==
  ASSUME IInv, Next
  PROVE  /\ dialler' \in [Conns -> Nodes \cup {Nobody}]
         /\ received' \in [Nodes -> Seq(Msgs)]
         /\ via' \in [Msgs -> Conns \cup {NoConn}]
         /\ hit' \subseteq Conns /\ faults' \in 0 .. MaxFaults
         /\ \A o \in Nodes, m \in Msgs : Contains(received[o], m) => Contains(received'[o], m)
         /\ via' = via \/ \E n \in Nodes : Write(n) /\ via' = [via EXCEPT ![Head(outbox[n])] = writer[n].conn]
  <1>. DEFINE Goal ==
         /\ dialler' \in [Conns -> Nodes \cup {Nobody}]
         /\ received' \in [Nodes -> Seq(Msgs)]
         /\ via' \in [Msgs -> Conns \cup {NoConn}]
         /\ hit' \subseteq Conns /\ faults' \in 0 .. MaxFaults
         /\ \A o \in Nodes, m \in Msgs : Contains(received[o], m) => Contains(received'[o], m)
         /\ via' = via \/ \E n \in Nodes : Write(n) /\ via' = [via EXCEPT ![Head(outbox[n])] = writer[n].conn]
  <1>1. /\ dialler \in [Conns -> Nodes \cup {Nobody}]
        /\ received \in [Nodes -> Seq(Msgs)]
        /\ via \in [Msgs -> Conns \cup {NoConn}]
        /\ hit \subseteq Conns /\ faults \in 0 .. MaxFaults
        /\ MaxFaults \in Nat
    BY ConnectionsAssumption DEF IInv, TypeOK
  <1>2. ASSUME UNCHANGED <<dialler, received, via, faultVars>>
        PROVE  Goal
    BY <1>1, <1>2 DEF faultVars
  <1>3. ASSUME NEW S \in SUBSET Conns, Fault(S), UNCHANGED <<dialler, received, via>>
        PROVE  Goal
    BY <1>1, <1>3 DEF Fault
  <1>4. ASSUME NEW n \in Nodes,
               UsePreferred(n) \/ DialDone(n) \/ DialFails(n) \/ Drained(n) \/ WriteFails(n)
        PROVE  Goal
    BY <1>2, <1>4 DEF UsePreferred, DialDone, DialFails, Drained, WriteFails
  <1>5. ASSUME NEW n \in Nodes, Dial(n)
        PROVE  Goal
    <2>1. /\ \E c \in Conns : dialler' = [dialler EXCEPT ![c] = n]
          /\ UNCHANGED <<received, via, faultVars>>
      BY <1>5 DEF Dial
    <2>. QED  BY <1>1, <2>1 DEF faultVars
  <1>6. ASSUME NEW n \in Nodes, Write(n)
        PROVE  Goal
    <2>1. /\ via' = [via EXCEPT ![Head(outbox[n])] = writer[n].conn]
          /\ UNCHANGED <<dialler, received, faultVars>>
      BY <1>6 DEF Write
    <2>2. writer[n].conn \in Conns
      BY <1>6 DEF Write, At, IInv, Writing
    <2>. QED  BY <1>1, <1>6, <2>1, <2>2 DEF faultVars
  <1>7. ASSUME NEW n \in Nodes, DialRefused(n)
        PROVE  Goal
    BY <1>3, <1>7 DEF DialRefused
  <1>8. ASSUME NEW n \in Nodes, AckRefused(n) \/ CancelSend(n)
        PROVE  Goal
    <2>1. Fault({writer[n].conn}) /\ UNCHANGED <<dialler, received, via>> /\ writer[n].conn \in Conns
      BY <1>8 DEF AckRefused, CancelSend, At, IInv, Writing
    <2>. QED  BY <1>3, <2>1
  <1>9. ASSUME NEW n \in Nodes, NEW c \in Conns, Accept(n, c) \/ AcceptFails(n, c) \/ ReadEnds(n, c)
        PROVE  Goal
    BY <1>2, <1>9 DEF Accept, AcceptFails, ReadEnds, sendVars
  <1>10. ASSUME NEW n \in Nodes, NEW c \in Conns, HelloRefused(n, c)
         PROVE  Goal
    <2>1. Fault({c}) /\ UNCHANGED <<dialler, received, via>>
      BY <1>10 DEF HelloRefused, sendVars
    <2>. QED  BY <1>3, <2>1
  <1>11. ASSUME NEW c \in Conns, Reset(c)
         PROVE  Goal
    <2>1. Fault({c}) /\ UNCHANGED <<dialler, received, via>>
      BY <1>11 DEF Reset, sendVars
    <2>. QED  BY <1>3, <2>1
  <1>12. ASSUME NEW n \in Nodes, NEW c \in Conns, Read(n, c)
         PROVE  Goal
    <2>. DEFINE m == Head(stream[n][c])
    <2>1. /\ received' = [received EXCEPT ![n] = Append(received[n], m)] /\ m \in Msgs
          /\ UNCHANGED <<dialler, via, faultVars>>
      BY <1>12, ConnectionsAssumption DEF Read, First, sendVars
    <2>. HIDE DEF m
    <2>2. \A x \in Msgs : Contains(received[n], x) => Contains(Append(received[n], m), x)
      <3>. SUFFICES ASSUME NEW x \in Msgs, NEW i \in 1 .. Len(received[n]), received[n][i] = x
                    PROVE  Contains(Append(received[n], m), x)
        BY DEF Contains
      <3>1. /\ Len(Append(received[n], m)) = Len(received[n]) + 1 /\ Len(received[n]) \in Nat
            /\ Append(received[n], m)[i] = received[n][i]
        BY <1>1, <2>1
      <3>. QED  BY <3>1 DEF Contains
    <2>. QED  BY <1>1, <2>1, <2>2 DEF faultVars
  <1>. HIDE DEF Goal
  <1>13. Goal
    BY <1>4, <1>5, <1>6, <1>7, <1>8, <1>9, <1>10, <1>11, <1>12
    DEF Next, Runs, Writer, Receives, Listener, Reader, Faulty
  <1>. QED  BY <1>13 DEF Goal

LEMMA Typed ==
  ASSUME IInv, Next
  PROVE  TypeOK'
  <1>1. end' \in EndType /\ stream' \in StreamType
    BY Step DEF EndsMove
  <1>. DEFINE SendTypes == /\ writer' \in WriterType /\ outbox' \in [Nodes -> Seq(Msgs)]
                           /\ outcome' \in [Msgs -> {"queued", "sent", "failed"}]
  <1>2. SendTypes
    <2>1. /\ writer \in WriterType /\ outbox \in [Nodes -> Seq(Msgs)]
          /\ outcome \in [Msgs -> {"queued", "sent", "failed"}]
      BY DEF IInv, TypeOK, WriterType
    <2>2. CASE UNCHANGED sendVars
      BY <2>1, <2>2 DEF sendVars
    <2>3. ASSUME NEW n \in Nodes, Proceeds(n)
          PROVE  SendTypes
      BY <2>1, <2>3 DEF Proceeds
    <2>4. ASSUME NEW n \in Nodes, Finishes(n)
          PROVE  SendTypes
      BY <2>4, Settles DEF Finishes, IInv, WriterType
    <2>. QED  BY <2>2, <2>3, <2>4, Sends
  <1>3. /\ dialler' \in [Conns -> Nodes \cup {Nobody}]
        /\ received' \in [Nodes -> Seq(Msgs)]
        /\ via' \in [Msgs -> Conns \cup {NoConn}]
        /\ hit' \subseteq Conns /\ faults' \in 0 .. MaxFaults
    BY Histories
  <1>. QED  BY <1>1, <1>2, <1>3 DEF TypeOK, EndType, StreamType, WriterType, Frames

LEMMA WritingKept ==
  ASSUME IInv, Next
  PROVE  Writing'
  <1>. SUFFICES ASSUME NEW o \in Nodes, writer'[o].pc # "idle"
                PROVE  LET c == writer'[o].conn IN
                       /\ c \in Conns /\ dialler'[c] # Nobody /\ outbox'[o] # <<>>
                       /\ c \notin hit' => end'[o][c] = (IF writer'[o].pc = "dial" THEN "dialling" ELSE "up")
    BY DEF Writing
  <1>1. CASE writer'[o] = writer[o] /\ outbox'[o] = outbox[o]
    <2>. DEFINE c == writer[o].conn
    <2>1. /\ c \in Conns /\ dialler[c] # Nobody /\ outbox[o] # <<>>
          /\ c \notin hit => end[o][c] = (IF writer[o].pc = "dial" THEN "dialling" ELSE "up")
      BY <1>1 DEF IInv, Writing
    <2>. HIDE DEF c
    <2>2. dialler'[c] # Nobody
      BY <2>1, Step, ConnectionsAssumption DEF EndsMove, Exists, Nobody
    <2>3. c \notin hit' => Moves(o, c) /\ c \notin hit
      BY <2>1, Step DEF EndsMove
    <2>4. c \notin hit' => end'[o][c] = end[o][c]
      BY <1>1, <2>1, <2>3 DEF Moves
    <2>. QED  BY <1>1, <2>1, <2>2, <2>3, <2>4 DEF c
  <1>2. ASSUME NEW n \in Nodes, Proceeds(n), o = n
        PROVE  LET c == writer'[o].conn IN
               /\ c \in Conns /\ dialler'[c] # Nobody /\ outbox'[o] # <<>>
               /\ c \notin hit' => end'[o][c] = (IF writer'[o].pc = "dial" THEN "dialling" ELSE "up")
    BY <1>2 DEF Proceeds, UsePreferred, Dial, DialDone, At
  <1>3. ASSUME NEW n \in Nodes, Finishes(n)
        PROVE  writer'[n].pc = "idle" /\ \A x \in Nodes : x # n => writer'[x] = writer[x] /\ outbox'[x] = outbox[x]
    BY <1>3, Settles DEF Finishes, IInv
  <1>. QED  BY <1>1, <1>2, <1>3, Sends DEF Proceeds, sendVars

LEMMA Shift ==
  ASSUME NEW a \in Nat, NEW b \in Nat, a - b \in Nat, NEW i \in 1 .. b
  PROVE  i + (a - b) \in 1 .. a
  OBVIOUS

LEMMA ShiftOne ==
  ASSUME NEW i \in Nat, NEW g \in Nat
  PROVE  (i + 1) + g = i + (g + 1)
  OBVIOUS

\* The message a writer has taken is one of its node's own, and not yet sent.
LEMMA TakenMessage ==
  ASSUME IInv, NEW n \in Nodes, outbox[n] # <<>>
  PROVE  /\ Head(outbox[n]) \in Msgs /\ Head(outbox[n]) \in ToSet(Outbox[n])
         /\ outcome[Head(outbox[n])] = "queued"
         /\ \A o \in Nodes : Head(outbox[n]) \in ToSet(Outbox[o]) => o = n
  <1>. DEFINE gone == Len(Outbox[n]) - Len(outbox[n])
              m == Head(outbox[n])
  <1>1. outbox[n] \in Seq(Msgs) /\ \A o \in Nodes : Outbox[o] \in Seq(Msgs)
    BY ConnectionsAssumption DEF IInv, TypeOK
  <1>2. m \in Msgs /\ m = outbox[n][1] /\ Len(outbox[n]) \in Nat \ {0}
    BY <1>1
  <1>3. gone \in Nat /\ outbox[n][1] = Outbox[n][1 + gone] /\ outcome[outbox[n][1]] = "queued"
    <2>1. gone \in Nat /\ \A i \in 1 .. Len(outbox[n]) :
            outbox[n][i] = Outbox[n][i + gone] /\ outcome[outbox[n][i]] = "queued"
      BY DEF IInv, Queued
    <2>2. 1 \in 1 .. Len(outbox[n])
      BY <1>2
    <2>. HIDE DEF gone
    <2>. QED  BY <2>1, <2>2
  <1>4. 1 + gone \in 1 .. Len(Outbox[n])
    <2>1. Len(Outbox[n]) \in Nat /\ Len(outbox[n]) \in Nat /\ 1 \in 1 .. Len(outbox[n])
      BY <1>1, <1>2
    <2>2. Len(Outbox[n]) - Len(outbox[n]) \in Nat
      BY <1>3
    <2>. QED  BY <2>1, <2>2, Shift
  <1>. HIDE DEF gone, m
  <1>5. m \in ToSet(Outbox[n])
    BY <1>1, <1>2, <1>3, <1>4 DEF ToSet
  <1>6. ASSUME NEW o \in Nodes, m \in ToSet(Outbox[o])
        PROVE  o = n
    <2>1. PICK j \in 1 .. Len(Outbox[o]) : Outbox[o][j] = m
      BY <1>1, <1>6 DEF ToSet
    <2>. QED  BY <1>2, <1>3, <1>4, <2>1, ConnectionsAssumption
  <1>. QED  BY <1>2, <1>3, <1>5, <1>6 DEF m

LEMMA QueuedKept ==
  ASSUME IInv, Next
  PROVE  Queued'
  <1>1. CASE outbox' = outbox /\ outcome' = outcome
    BY <1>1 DEF IInv, Queued
  <1>2. ASSUME NEW n \in Nodes, Finishes(n)
        PROVE  Queued'
    <2>. DEFINE m == Head(outbox[n])
    <2>1. /\ outbox'[n] = Tail(outbox[n])
          /\ \A o \in Nodes : o # n => outbox'[o] = outbox[o]
          /\ \A x \in Msgs : x # m => outcome'[x] = outcome[x]
      BY <1>2, Settles DEF Finishes, IInv
    <2>2. m \in Msgs /\ m \in ToSet(Outbox[n]) /\ \A o \in Nodes : m \in ToSet(Outbox[o]) => o = n
      BY <1>2, TakenMessage DEF Finishes
    <2>3. /\ \A o \in Nodes : outbox[o] \in Seq(Msgs) /\ Outbox[o] \in Seq(Msgs)
          /\ outbox[n] # <<>>
      BY <1>2, ConnectionsAssumption DEF IInv, TypeOK, Finishes
    <2>4. m = outbox[n][1]
      BY <2>3
    <2>. HIDE DEF m
    <2>. SUFFICES ASSUME NEW o \in Nodes
                  PROVE  /\ Len(Outbox[o]) - Len(outbox'[o]) \in Nat
                         /\ \A i \in 1 .. Len(outbox'[o]) :
                              /\ outbox'[o][i] = Outbox[o][i + (Len(Outbox[o]) - Len(outbox'[o]))]
                              /\ outcome'[outbox'[o][i]] = "queued"
      BY DEF Queued
    <2>. DEFINE gone == Len(Outbox[o]) - Len(outbox[o])
    <2>5. gone \in Nat /\ \A i \in 1 .. Len(outbox[o]) :
            outbox[o][i] = Outbox[o][i + gone] /\ outcome[outbox[o][i]] = "queued"
      BY DEF IInv, Queued
    <2>6. \A i \in 1 .. Len(outbox[o]) :
            /\ i + gone \in 1 .. Len(Outbox[o])
            /\ outbox[o][i] \in Msgs /\ outbox[o][i] \in ToSet(Outbox[o])
      <3>. TAKE i \in 1 .. Len(outbox[o])
      <3>1. i + gone \in 1 .. Len(Outbox[o])
        <4>1. Len(Outbox[o]) \in Nat /\ Len(outbox[o]) \in Nat /\ i \in 1 .. Len(outbox[o])
          BY <2>3
        <4>2. Len(Outbox[o]) - Len(outbox[o]) \in Nat
          BY <2>5
        <4>. QED  BY <4>1, <4>2, Shift
      <3>. HIDE DEF gone
      <3>2. outbox[o][i] = Outbox[o][i + gone] /\ outbox[o][i] \in Msgs
        BY <2>3, <2>5
      <3>. QED  BY <2>3, <3>1, <3>2 DEF ToSet
    <2>7. CASE o # n
      <3>1. \A i \in 1 .. Len(outbox[o]) : outbox[o][i] # m
        BY <2>2, <2>6, <2>7
      <3>. QED  BY <2>1, <2>5, <2>6, <2>7, <3>1
    <2>8. CASE o = n
      <3>1. /\ Len(outbox'[o]) = Len(outbox[o]) - 1 /\ Len(outbox[o]) \in Nat \ {0}
            /\ \A i \in 1 .. Len(outbox'[o]) : outbox'[o][i] = outbox[o][i + 1] /\ i + 1 \in 2 .. Len(outbox[o])
        <4>1. outbox[o] \in Seq(Msgs) /\ outbox[o] # <<>> /\ outbox'[o] = Tail(outbox[o])
          BY <2>1, <2>3, <2>8
        <4>2. Len(outbox[o]) \in Nat \ {0} /\ Len(Tail(outbox[o])) = Len(outbox[o]) - 1
          BY <4>1
        <4>3. \A i \in 1 .. Len(outbox[o]) - 1 : Tail(outbox[o])[i] = outbox[o][i + 1] /\ i + 1 \in 2 .. Len(outbox[o])
          BY <4>1, <4>2
        <4>. QED  BY <4>1, <4>2, <4>3
      <3>2. \A i \in 2 .. Len(outbox[o]) : outbox[o][i] # m
        <4>. TAKE i \in 2 .. Len(outbox[o])
        <4>1. i \in 1 .. Len(outbox[o]) /\ 1 \in 1 .. Len(outbox[o]) /\ Len(outbox[o]) \in Nat
          BY <3>1
        <4>2. /\ i + gone \in 1 .. Len(Outbox[o]) /\ 1 + gone \in 1 .. Len(Outbox[o])
              /\ outbox[o][i] = Outbox[o][i + gone] /\ outbox[o][1] = Outbox[o][1 + gone]
          BY <2>5, <2>6, <4>1
        <4>3. i + gone # 1 + gone
          BY <2>5
        <4>. HIDE DEF gone
        <4>. QED  BY <2>4, <2>8, <4>2, <4>3, ConnectionsAssumption
      <3>3. Len(Outbox[o]) - Len(outbox'[o]) = gone + 1 /\ Len(Outbox[o]) \in Nat
        BY <2>3, <3>1
      <3>4. \A i \in 1 .. Len(outbox'[o]) : i + 1 \in 1 .. Len(outbox[o]) /\ i + 1 \in 2 .. Len(outbox[o])
        BY <3>1
      <3>. HIDE DEF gone
      <3>5. \A i \in 1 .. Len(outbox'[o]) : outcome'[outbox'[o][i]] = "queued"
        <4>. TAKE i \in 1 .. Len(outbox'[o])
        <4>1. i + 1 \in 1 .. Len(outbox[o]) /\ outbox'[o][i] = outbox[o][i + 1] /\ outbox[o][i + 1] # m
          BY <3>1, <3>2, <3>4
        <4>2. outbox[o][i + 1] \in Msgs /\ outcome[outbox[o][i + 1]] = "queued"
          BY <2>5, <2>6, <4>1
        <4>. QED  BY <2>1, <4>1, <4>2
      <3>6. \A i \in 1 .. Len(outbox'[o]) : outbox'[o][i] = Outbox[o][(i + 1) + gone] /\ i \in Nat
        <4>. TAKE i \in 1 .. Len(outbox'[o])
        <4>1. outbox'[o][i] = outbox[o][i + 1] /\ i + 1 \in 1 .. Len(outbox[o])
          BY <3>1, <3>4
        <4>2. outbox[o][i + 1] = Outbox[o][(i + 1) + gone]
          BY <2>5, <4>1
        <4>3. i \in Nat
          BY <3>1
        <4>. QED  BY <4>1, <4>2, <4>3
      <3>7. \A i \in 1 .. Len(outbox'[o]) : (i + 1) + gone = i + (gone + 1)
        <4>1. gone \in Nat
          BY <2>5
        <4>. QED  BY <3>6, <4>1, ShiftOne
      <3>8. gone + 1 \in Nat
        BY <2>5
      <3>9. \A i \in 1 .. Len(outbox'[o]) : outbox'[o][i] = Outbox[o][i + (gone + 1)]
        BY <3>6, <3>7
      <3>. QED  BY <3>3, <3>5, <3>8, <3>9
    <2>. QED  BY <2>7, <2>8
  <1>. QED  BY <1>1, <1>2, Sends DEF Proceeds, sendVars

\* What was delivered, or is on its way, stays so.
LEMMA DeliveredKept ==
  ASSUME IInv, Next, NEW n \in Nodes, NEW m \in Msgs, Delivered(n, m), via'[m] = via[m]
  PROVE  Delivered(n, m)'
  <1>. DEFINE c == via[m]
              o == Other(n)
  <1>1. c \in Conns /\ o \in Nodes
    BY Others DEF Delivered
  <1>2. stream[o][c] \in Seq(Frames) /\ m \in Frames
    BY <1>1, EndTypes DEF IInv, StreamType, Frames
  <1>3. CASE c \in hit'
    BY <1>1, <1>3 DEF Delivered
  <1>4. CASE c \notin hit' /\ Contains(received[o], m)
    BY <1>1, <1>4, Histories DEF Delivered
  <1>5. CASE c \notin hit' /\ Contains(stream[o][c], m) /\ Open(o, c)
    <2>1. Moves(o, c)
      BY <1>1, <1>5, Step DEF EndsMove
    <2>2. PICK i \in 1 .. Len(stream[o][c]) : stream[o][c][i] = m
      BY <1>5 DEF Contains
    <2>3. Contains(received'[o], m) \/ (Contains(stream'[o][c], m) /\ end'[o][c] \in {"dialling", "accepting", "up"})
      <3>. DEFINE s == stream[o][c]
      <3>. HIDE DEF c, o, s
      <3>1. s \in Seq(Frames) /\ i \in 1 .. Len(s) /\ s[i] = m /\ Len(s) \in Nat
        BY <1>2, <2>2 DEF s
      <3>2. CASE stream'[o][c] = s /\ end'[o][c] = end[o][c]
        BY <1>5, <3>1, <3>2 DEF Open, Contains
      <3>3. CASE /\ \E f \in Msgs \cup {"ACK"} : stream'[o][c] = s \o <<f>>
                 /\ end'[o][c] = end[o][c]
        <4>1. PICK f \in Frames : stream'[o][c] = s \o <<f>>
          BY <3>3 DEF Frames, Control
        <4>2. i \in 1 .. Len(s \o <<f>>) /\ (s \o <<f>>)[i] = m
          BY <3>1
        <4>. QED  BY <1>5, <3>3, <4>1, <4>2 DEF Open, Contains
      <3>4. CASE s # <<>> /\ stream'[o][c] = Tail(s) /\ i > 1 /\ end'[o][c] \in {end[o][c], "up"}
        <4>1. i - 1 \in 1 .. Len(Tail(s)) /\ Tail(s)[i - 1] = m
          BY <3>1, <3>4
        <4>. QED  BY <1>5, <3>4, <4>1 DEF Open, Contains
      <3>5. CASE s # <<>> /\ i = 1 /\ Head(s) \in Msgs /\ received'[o] = Append(received[o], Head(s))
        <4>1. received[o] \in Seq(Msgs) /\ Head(s) = m
          BY <1>1, <3>1, <3>5 DEF IInv, TypeOK, o
        <4>2. /\ Len(received'[o]) \in 1 .. Len(received'[o])
              /\ received'[o][Len(received'[o])] = m
          BY <3>5, <4>1
        <4>. QED  BY <4>2 DEF Contains
      <3>6. ~(s # <<>> /\ i = 1 /\ Head(s) \in {"HELLO", "ACK"})
        BY <3>1, ConnectionsAssumption DEF Control
      <3>7. end[o][c] # "none"
        BY <1>5 DEF Open
      <3>8. i = 1 \/ i > 1
        BY <3>1
      <3>9. ASSUME s # <<>>, Head(s) \in {"HELLO", "ACK"}, stream'[o][c] = Tail(s), end'[o][c] = "up"
            PROVE  Contains(received'[o], m) \/ (Contains(stream'[o][c], m) /\ end'[o][c] \in {"dialling", "accepting", "up"})
        <4>1. i > 1 /\ end'[o][c] \in {end[o][c], "up"}
          BY <3>6, <3>8, <3>9
        <4>. QED  BY <3>4, <3>9, <4>1
      <3>10. ASSUME s # <<>>, Head(s) \in Msgs, stream'[o][c] = Tail(s), end'[o][c] = end[o][c],
                    received'[o] = Append(received[o], Head(s))
             PROVE  Contains(received'[o], m) \/ (Contains(stream'[o][c], m) /\ end'[o][c] \in {"dialling", "accepting", "up"})
        BY <3>4, <3>5, <3>8, <3>10
      <3>. QED  BY <2>1, <3>2, <3>3, <3>7, <3>9, <3>10 DEF Moves, s
    <2>. QED  BY <1>1, <2>3 DEF Delivered, Open
  <1>. QED  BY <1>3, <1>4, <1>5, Step DEF Delivered

\* On a connection without a fault a frame that is written is on its way.
LEMMA WriteDelivers ==
  ASSUME IInv, Next, NEW n \in Nodes, Write(n), NEW m \in Msgs, m = Head(outbox[n])
  PROVE  via'[m] = writer[n].conn /\ Delivered(n, m)'
  <1>. DEFINE c == writer[n].conn
              o == Other(n)
  <1>1. /\ c \in Conns /\ dialler[c] # Nobody /\ outbox[n] # <<>>
        /\ c \notin hit => end[n][c] = "up"
    BY DEF IInv, Writing, Write, At
  <1>2. m \in Msgs /\ m \in Frames /\ o \in Nodes
    BY Others DEF Frames
  <1>3. /\ via' = [via EXCEPT ![m] = c] /\ UNCHANGED <<end, hit>>
        /\ stream' = IF end[n][c] = "up" /\ ~Struck(n, c) THEN Put(n, c, <<m>>) ELSE stream
    BY DEF Write, faultVars
  <1>4. via'[m] = c
    BY <1>2, <1>3 DEF IInv, TypeOK
  <1>5. ASSUME c \notin hit
        PROVE  Contains(stream'[o][c], m) /\ end'[o][c] \in {"dialling", "accepting", "up"}
    <2>1. ~Struck(n, c) /\ ~Ended(o, c)
      BY <1>1, <1>2, <1>5, NotEnded DEF IInv
    <2>2. end[o][c] \in {"dialling", "accepting", "up"}
      BY <1>1, <1>2, <1>5 DEF IInv, Used, Clean
    <2>3. Open(o, c) /\ stream' = Put(n, c, <<m>>)
      BY <1>1, <1>3, <1>5, <2>1, <2>2 DEF Open
    <2>. DEFINE s == stream[o][c]
    <2>. HIDE DEF c
    <2>4. Put(n, c, <<m>>)[o][c] = stream[o][c] \o <<m>>
      BY <1>1, <1>2, <2>1, <2>3, PutStreams DEF IInv
    <2>5. s \in Seq(Frames)
      BY <1>1, <1>2, EndTypes DEF IInv, StreamType
    <2>. HIDE DEF o, s
    <2>6. Len(s) + 1 \in 1 .. Len(s \o <<m>>) /\ (s \o <<m>>)[Len(s) + 1] = m
      BY <1>2, <2>5
    <2>7. Contains(s \o <<m>>, m)
      BY <2>6 DEF Contains
    <2>. QED  BY <1>3, <2>2, <2>3, <2>4, <2>7 DEF s
  <1>. QED  BY <1>1, <1>3, <1>4, <1>5 DEF Delivered, Open

LEMMA DeliveriesKept ==
  ASSUME IInv, Next
  PROVE  Deliveries'
  <1>1. \A o \in Nodes : ToSet(Outbox[o]) \subseteq Msgs
    BY ConnectionsAssumption DEF ToSet
  <1>2. ASSUME NEW o \in Nodes, NEW m \in ToSet(Outbox[o]), outcome'[m] = "sent"
        PROVE  Delivered(o, m)'
    <2>1. m \in Msgs
      BY <1>1
    <2>2. CASE outcome[m] = "sent"
      <3>1. via'[m] = via[m]
        <4>1. ASSUME NEW n \in Nodes, Write(n), via' = [via EXCEPT ![Head(outbox[n])] = writer[n].conn]
              PROVE  via'[m] = via[m]
          <5>1. outbox[n] # <<>>
            BY <4>1 DEF IInv, Writing, Write, At
          <5>2. Head(outbox[n]) # m
            BY <2>2, <5>1, TakenMessage
          <5>. QED  BY <2>1, <4>1, <5>2 DEF IInv, TypeOK
        <4>. QED  BY <4>1, Histories
      <3>2. Delivered(o, m)
        BY <2>2 DEF IInv, Deliveries
      <3>. QED  BY <2>1, <3>1, <3>2, DeliveredKept
    <2>3. CASE outcome[m] # "sent"
      <3>1. PICK n \in Nodes : Finishes(n)
        BY <1>2, <2>3, Sends DEF sendVars, Proceeds
      <3>2. m = Head(outbox[n]) /\ At(n, "drain")
        <4>1. CASE Settle(n, "sent") /\ At(n, "drain")
          BY <1>2, <2>1, <2>3, <3>1, <4>1, Settles DEF IInv, Finishes
        <4>2. CASE Settle(n, "failed")
          BY <1>2, <2>1, <2>3, <3>1, <4>2, Settles DEF IInv, Finishes
        <4>. QED  BY <3>1, <4>1, <4>2 DEF Finishes
      <3>3. o = n
        BY <3>1, <3>2, TakenMessage DEF Finishes
      <3>4. Delivered(o, m)
        BY <3>2, <3>3 DEF IInv, Deliveries, At
      <3>5. via'[m] = via[m]
        BY <3>1 DEF Finishes
      <3>. QED  BY <2>1, <3>4, <3>5, DeliveredKept
    <2>. QED  BY <2>2, <2>3
  <1>3. ASSUME NEW o \in Nodes, writer'[o].pc = "drain", NEW m \in Msgs, m = Head(outbox'[o])
        PROVE  via'[m] = writer'[o].conn /\ Delivered(o, m)'
    <2>1. CASE Write(o)
      <3>1. writer[o].conn \in Conns /\ outbox' = outbox
        BY <2>1 DEF IInv, Writing, Write, At
      <3>2. Goes(o, "drain", writer[o].conn)
        BY <2>1 DEF Write
      <3>3. writer'[o].conn = writer[o].conn
        BY <3>1, <3>2, GoesTo DEF IInv
      <3>. QED  BY <1>3, <2>1, <3>1, <3>3, WriteDelivers
    <2>2. ASSUME writer'[o] = writer[o], outbox'[o] = outbox[o]
          PROVE  via'[m] = writer'[o].conn /\ Delivered(o, m)'
      <3>1. outbox[o] # <<>> /\ m = Head(outbox[o]) /\ via[m] = writer[o].conn /\ Delivered(o, m)
        BY <1>3, <2>2 DEF IInv, Writing, Deliveries
      <3>2. m \in Msgs /\ m \in ToSet(Outbox[o])
        BY <3>1, TakenMessage
      <3>3. via'[m] = via[m]
        <4>1. ASSUME NEW n \in Nodes, Write(n), via' = [via EXCEPT ![Head(outbox[n])] = writer[n].conn]
              PROVE  via'[m] = via[m]
          <5>1. outbox[n] # <<>> /\ writer[n].pc = "write"
            BY <4>1 DEF IInv, Writing, Write, At
          <5>2. n # o
            BY <1>3, <2>2, <5>1
          <5>3. Head(outbox[n]) # m
            BY <3>2, <5>1, <5>2, TakenMessage
          <5>. QED  BY <3>2, <4>1, <5>3 DEF IInv, TypeOK
        <4>. QED  BY <4>1, Histories
      <3>4. Delivered(o, m)'
        BY <3>1, <3>2, <3>3, DeliveredKept
      <3>. QED  BY <2>2, <3>1, <3>3, <3>4
    <2>3. CASE UNCHANGED sendVars
      BY <2>2, <2>3 DEF sendVars
    <2>4. ASSUME NEW n \in Nodes, Finishes(n)
          PROVE  n # o /\ writer'[o] = writer[o] /\ outbox'[o] = outbox[o]
      BY <1>3, <2>4, Settles DEF Finishes, IInv
    <2>5. ASSUME NEW n \in Nodes, Proceeds(n)
          PROVE  Write(o) \/ (writer'[o] = writer[o] /\ outbox'[o] = outbox[o])
      BY <1>3, <2>5 DEF Proceeds
    <2>. QED  BY <2>1, <2>2, <2>3, <2>4, <2>5, Sends
  <1>4. ASSUME NEW o \in Nodes, writer'[o].pc = "drain"
        PROVE  Head(outbox'[o]) \in Msgs
    <2>1. outbox'[o] # <<>> /\ outbox'[o] \in Seq(Msgs)
      BY <1>4, Typed, WritingKept DEF TypeOK, Writing
    <2>. QED  BY <2>1
  <1>. QED  BY <1>2, <1>3, <1>4 DEF Deliveries

---------------------------------------------------------------------------
(* The theorems                                                            *)

LEMMA Initially == Init => IInv
  <1>. SUFFICES ASSUME Init
                PROVE  IInv
    OBVIOUS
  <1>1. Outbox \in [Nodes -> Seq(Msgs)] /\ MaxFaults \in Nat
    BY ConnectionsAssumption
  <1>2. TypeOK
    BY <1>1 DEF Init, TypeOK, Idle
  <1>3. Used /\ Clean /\ Writing
    BY DEF Init, Used, Clean, Writing, Idle
  <1>4. Queued
    <2>. SUFFICES ASSUME NEW n \in Nodes
                  PROVE  /\ Len(Outbox[n]) - Len(outbox[n]) \in Nat
                         /\ \A i \in 1 .. Len(outbox[n]) :
                              /\ outbox[n][i] = Outbox[n][i + (Len(Outbox[n]) - Len(outbox[n]))]
                              /\ outcome[outbox[n][i]] = "queued"
      BY DEF Queued
    <2>1. Outbox[n] \in Seq(Msgs) /\ outbox[n] = Outbox[n]
      BY <1>1 DEF Init
    <2>2. Len(Outbox[n]) \in Nat /\ Len(Outbox[n]) - Len(outbox[n]) = 0
      BY <2>1
    <2>3. \A i \in 1 .. Len(outbox[n]) : i + 0 = i /\ outbox[n][i] \in Msgs
      BY <2>1, <2>2
    <2>4. \A m \in Msgs : outcome[m] = "queued"
      BY DEF Init
    <2>. QED  BY <2>1, <2>2, <2>3, <2>4
  <1>5. Deliveries
    BY <1>1 DEF Init, Deliveries, Idle, ToSet
  <1>. QED  BY <1>2, <1>3, <1>4, <1>5 DEF IInv

LEMMA Stutters == IInv /\ UNCHANGED vars => IInv'
  BY DEF IInv, vars, endVars, sendVars, faultVars, TypeOK, Used, Clean, Writing, Queued, Deliveries, Delivered, Open

\* The parts of the invariant hold in every state of every behaviour.
THEOREM Inductive == Spec => []IInv
  <1>1. IInv /\ [Next]_vars => IInv'
    BY Typed, UsedKept, CleanKept, WritingKept, QueuedKept, DeliveriesKept, Stutters DEF IInv
  <1>. QED  BY Initially, <1>1, PTL DEF Spec

\* The variables of the connections keep their types (comm.py:504-657).
THEOREM ConnectionsTypes == Spec => []TypeOK
  <1>1. IInv => TypeOK
    BY DEF IInv
  <1>. QED  BY Inductive, <1>1, PTL

\* Whatever the nodes send, however their dials cross and in whatever order the
\* identifiers are drawn: a message whose send was completed is at the other
\* node, or on its way to it, unless a fault struck the connection it was
\* written on (comm.py:504-553, 588-657).
THEOREM CompletedSendsArrive == Spec => []SentArrives
  <1>1. IInv => SentArrives
    BY DEF IInv, Deliveries, Delivered, SentArrives
  <1>. QED  BY Inductive, <1>1, PTL

---------------------------------------------------------------------------
(* The life of one end of a connection, whether a fault has struck or not  *)

\* Where the connection stands that a writer uses: it is being dialled by this
\* writer, or it has been registered, and may have been left since.
WriterEnds ==
    \A n \in Nodes :
        /\ writer[n].pc = "dial" => end[n][writer[n].conn] = "dialling"
        /\ writer[n].pc \in {"write", "drain"} => end[n][writer[n].conn] \in {"up", "dropped", "closed"}

EInv == IInv /\ WriterEnds

EndStep(o, d) ==
    \/ end'[o][d] = end[o][d]
    \/ end[o][d] = "none" /\ end'[o][d] \in {"dialling", "accepting"}
    \/ end[o][d] = "accepting" /\ end'[o][d] \in {"up", "closed"}
    \/ end[o][d] \in {"up", "dropped"} /\ end'[o][d] \in {"dropped", "closed"}
    \/ /\ writer[o].pc = "dial" /\ writer[o].conn = d /\ writer'[o].pc # "dial"
       /\ end'[o][d] \in {"up", "closed"}

\* What closing or dropping does to the ends of connections.
LEMMA LeftEnds ==
  ASSUME TypeOK, NEW n \in Nodes, NEW c \in Conns
  PROVE  /\ CloseEnd(n, c) => \A o \in Nodes, d \in Conns :
                end'[o][d] = IF o = n /\ d = c THEN "closed" ELSE end[o][d]
         /\ DropEnd(n, c) => \A o \in Nodes, d \in Conns :
                end'[o][d] = IF o = n /\ d = c THEN "dropped" ELSE end[o][d]
  <1>1. end \in EndType
    BY EndTypes
  <1>2. CloseEnd(n, c) => end' = [end EXCEPT ![n][c] = "closed"]
    BY Zenon DEF CloseEnd
  <1>3. DropEnd(n, c) => end' = [end EXCEPT ![n][c] = "dropped"]
    BY Zenon DEF DropEnd
  <1>. QED  BY <1>1, <1>2, <1>3, OneStream DEF EndType

\* When the send of a writer fails, its node has left the connection.
LEMMA FailedEnds ==
  ASSUME EInv, NEW n \in Nodes, DialFails(n) \/ WriteFails(n) \/ AckRefused(n) \/ CancelSend(n)
  PROVE  /\ writer[n].pc # "idle" /\ writer[n].conn \in Conns /\ outbox[n] # <<>>
         /\ Settle(n, "failed")
         /\ end'[n][writer[n].conn] \in {"dropped", "closed"}
         /\ \A o \in Nodes, d \in Conns : EndStep(o, d)
  <1>. DEFINE c == writer[n].conn
  <1>1. writer[n].pc # "idle" /\ Settle(n, "failed")
    BY DEF DialFails, WriteFails, AckRefused, CancelSend, At
  <1>2. c \in Conns /\ outbox[n] # <<>>
    BY <1>1 DEF EInv, IInv, Writing
  <1>3. writer'[n].pc = "idle"
    BY <1>1, <1>2, Settles DEF EInv, IInv
  <1>4. TypeOK /\ end[n][c] \in {"dialling", "up", "dropped", "closed"}
    BY <1>1 DEF EInv, IInv, WriterEnds, TypeOK
  <1>5. CASE writer[n].pc = "dial"
    <2>1. end[n][c] = "dialling"
      BY <1>5 DEF EInv, WriterEnds
    <2>2. CloseEnd(n, c)
      BY <1>5, <2>1 DEF DialFails, WriteFails, AckRefused, CancelSend, At, Open
    <2>3. \A o \in Nodes, d \in Conns : end'[o][d] = IF o = n /\ d = c THEN "closed" ELSE end[o][d]
      BY <1>2, <1>4, <2>2, LeftEnds
    <2>. HIDE DEF c
    <2>4. \A o \in Nodes, d \in Conns : EndStep(o, d)
      BY <1>2, <1>3, <1>5, <2>3 DEF EndStep, c
    <2>. QED  BY <1>1, <1>2, <2>3, <2>4 DEF c
  <1>6. CASE writer[n].pc # "dial"
    <2>1. end[n][c] \in {"up", "dropped", "closed"}
      BY <1>1, <1>6 DEF EInv, IInv, TypeOK, WriterEnds
    <2>2. IF end[n][c] = "up" THEN DropEnd(n, c) ELSE UNCHANGED endVars
      BY <1>6, <2>1 DEF DialFails, WriteFails, AckRefused, CancelSend, At, Open
    <2>3. CASE end[n][c] = "up"
      <3>1. \A o \in Nodes, d \in Conns : end'[o][d] = IF o = n /\ d = c THEN "dropped" ELSE end[o][d]
        BY <1>2, <1>4, <2>2, <2>3, LeftEnds
      <3>. HIDE DEF c
      <3>2. \A o \in Nodes, d \in Conns : EndStep(o, d)
        BY <1>2, <2>3, <3>1 DEF EndStep
      <3>. QED  BY <1>1, <1>2, <3>1, <3>2 DEF c
    <2>4. CASE end[n][c] # "up"
      BY <1>1, <1>2, <2>1, <2>2, <2>4 DEF EndStep, endVars
    <2>. QED  BY <2>3, <2>4
  <1>. QED  BY <1>5, <1>6

\* Every end goes on only, one way.
LEMMA EndSteps ==
  ASSUME EInv, Next, NEW o \in Nodes, NEW d \in Conns
  PROVE  EndStep(o, d)
  <1>0. TypeOK /\ Used /\ end \in EndType
    BY EndTypes DEF EInv, IInv
  <1>1. ASSUME UNCHANGED end
        PROVE  EndStep(o, d)
    BY <1>1, Zenon DEF EndStep
  <1>2. ASSUME NEW n \in Nodes, Dial(n)
        PROVE  EndStep(o, d)
    <2>1. PICK c \in Conns :
            /\ dialler[c] = Nobody
            /\ end' = [end EXCEPT ![n][c] = "dialling", ![Other(n)][c] = "accepting"]
      BY <1>2, Zenon DEF Dial
    <2>2. \A x \in Nodes : end[x][c] = "none"
      BY <1>0, <2>1 DEF Used
    <2>3. Other(n) \in Nodes /\ Other(n) # n
      BY Others
    <2>. QED  BY <1>0, <2>1, <2>2, <2>3 DEF EndStep, EndType
  <1>3. ASSUME NEW n \in Nodes, DialDone(n)
        PROVE  EndStep(o, d)
    <2>1. writer[n].pc = "dial" /\ writer[n].conn \in Conns
      BY <1>3 DEF DialDone, At, EInv, IInv, Writing
    <2>2. Goes(n, "write", writer[n].conn) /\ end' = [end EXCEPT ![n][writer[n].conn] = "up"]
      BY <1>3, Zenon DEF DialDone
    <2>3. writer'[n].pc = "write"
      BY <1>0, <2>1, <2>2, GoesTo
    <2>. QED  BY <1>0, <2>1, <2>2, <2>3 DEF EndStep, EndType
  <1>4. ASSUME NEW n \in Nodes, DialFails(n) \/ WriteFails(n) \/ AckRefused(n) \/ CancelSend(n)
        PROVE  EndStep(o, d)
    BY <1>4, FailedEnds
  <1>5. ASSUME NEW n \in Nodes, NEW c \in Conns, Accept(n, c)
        PROVE  EndStep(o, d)
    BY <1>0, <1>5 DEF Accept, EndStep, EndType
  <1>6. ASSUME NEW n \in Nodes, NEW c \in Conns, AcceptFails(n, c) \/ HelloRefused(n, c) \/ ReadEnds(n, c)
        PROVE  EndStep(o, d)
    <2>1. CloseEnd(n, c) /\ end[n][c] \in {"accepting", "up", "dropped"}
      BY <1>6 DEF AcceptFails, HelloRefused, ReadEnds
    <2>2. end'[o][d] = IF o = n /\ d = c THEN "closed" ELSE end[o][d]
      BY <1>0, <2>1, LeftEnds
    <2>. QED  BY <2>1, <2>2 DEF EndStep
  <1>7. ASSUME NEW n \in Nodes, UsePreferred(n) \/ DialRefused(n) \/ Drained(n) \/ Write(n)
        PROVE  UNCHANGED end
    BY <1>7 DEF UsePreferred, DialRefused, Drained, Write, endVars
  <1>8. ASSUME NEW n \in Nodes, NEW c \in Conns, Read(n, c) \/ Reset(c)
        PROVE  UNCHANGED end
    BY <1>8 DEF Read, Reset
  <1>9. ASSUME NEW c \in Conns, Reset(c)
        PROVE  UNCHANGED end
    BY <1>9 DEF Reset
  <1>. QED  BY <1>1, <1>2, <1>3, <1>4, <1>5, <1>6, <1>7, <1>8, <1>9
            DEF Next, Runs, Writer, Receives, Listener, Reader, Faulty

\* The writer's connection stands where it should after every step.
LEMMA WriterEndsKept ==
  ASSUME EInv, Next
  PROVE  WriterEnds'
  <1>. SUFFICES ASSUME NEW o \in Nodes
                PROVE  /\ writer'[o].pc = "dial" => end'[o][writer'[o].conn] = "dialling"
                       /\ writer'[o].pc \in {"write", "drain"} =>
                            end'[o][writer'[o].conn] \in {"up", "dropped", "closed"}
    BY DEF WriterEnds
  <1>1. ASSUME writer'[o] = writer[o], writer[o].pc # "idle"
        PROVE  /\ writer'[o].pc = "dial" => end'[o][writer'[o].conn] = "dialling"
               /\ writer'[o].pc \in {"write", "drain"} =>
                    end'[o][writer'[o].conn] \in {"up", "dropped", "closed"}
    <2>1. writer[o].conn \in Conns
      BY <1>1 DEF EInv, IInv, Writing
    <2>2. EndStep(o, writer[o].conn)
      BY <2>1, EndSteps
    <2>. QED  BY <1>1, <2>2 DEF EndStep, EInv, WriterEnds
  <1>2. ASSUME NEW n \in Nodes, Proceeds(n)
        PROVE  /\ o # n => writer'[o] = writer[o]
               /\ writer'[n].pc = "dial" => end'[n][writer'[n].conn] = "dialling"
               /\ writer'[n].pc \in {"write", "drain"} =>
                    end'[n][writer'[n].conn] \in {"up", "dropped", "closed"}
    <2>0. TypeOK /\ end \in EndType
      BY EndTypes DEF EInv, IInv
    <2>1. o # n => writer'[o] = writer[o]
      BY <1>2 DEF Proceeds
    <2>2. CASE UsePreferred(n)
      <3>1. Preferred(Registered(n)) \in Registered(n)
        BY <2>2, PreferredExists DEF UsePreferred, Registered
      <3>2. /\ Goes(n, "write", Preferred(Registered(n))) /\ end' = end
            /\ Preferred(Registered(n)) \in Conns /\ end[n][Preferred(Registered(n))] = "up"
        BY <2>2, <3>1 DEF UsePreferred, Registered, endVars
      <3>. HIDE DEF Preferred, Registered
      <3>. QED  BY <2>0, <2>1, <3>2, GoesTo
    <2>3. CASE Dial(n)
      <3>1. PICK c \in Conns : end' = [end EXCEPT ![n][c] = "dialling", ![Other(n)][c] = "accepting"]
                               /\ Goes(n, "dial", c)
        BY <2>3, Zenon DEF Dial
      <3>2. Other(n) \in Nodes /\ Other(n) # n
        BY Others
      <3>3. end'[n][c] = "dialling"
        BY <2>0, <3>1, <3>2 DEF EndType
      <3>. QED  BY <2>0, <2>1, <3>1, <3>3, GoesTo
    <2>4. CASE DialDone(n)
      <3>1. writer[n].conn \in Conns
        BY <2>4 DEF DialDone, At, EInv, IInv, Writing
      <3>2. Goes(n, "write", writer[n].conn) /\ end' = [end EXCEPT ![n][writer[n].conn] = "up"]
        BY <2>4, Zenon DEF DialDone
      <3>3. end'[n][writer[n].conn] = "up"
        BY <2>0, <3>1, <3>2 DEF EndType
      <3>. QED  BY <2>0, <2>1, <3>1, <3>2, <3>3, GoesTo
    <2>5. CASE Write(n)
      <3>1. writer[n].pc = "write" /\ writer[n].conn \in Conns
        BY <2>5 DEF Write, At, EInv, IInv, Writing
      <3>2. Goes(n, "drain", writer[n].conn) /\ end' = end
        BY <2>5, Zenon DEF Write
      <3>3. end[n][writer[n].conn] \in {"up", "dropped", "closed"}
        BY <3>1 DEF EInv, WriterEnds
      <3>. QED  BY <2>0, <2>1, <3>1, <3>2, <3>3, GoesTo
    <2>. QED  BY <1>2, <2>2, <2>3, <2>4, <2>5 DEF Proceeds
  <1>3. ASSUME NEW n \in Nodes, Finishes(n)
        PROVE  writer'[n].pc = "idle" /\ (o # n => writer'[o] = writer[o])
    BY <1>3, Settles DEF Finishes, EInv, IInv
  <1>4. writer'[o] = writer[o] => writer'[o].pc = writer[o].pc
    OBVIOUS
  <1>5. CASE UNCHANGED sendVars
    BY <1>1, <1>5 DEF sendVars
  <1>. QED  BY <1>1, <1>2, <1>3, <1>4, <1>5, Sends DEF EInv

---------------------------------------------------------------------------
(* What a fault costs                                                      *)

\* The sends of a node that failed.
Failed(n) == {m \in ToSet(Outbox[n]) : outcome[m] = "failed"}

\* A connection that can still cost the node a send: it will have it, or its
\* writer uses it.
Owes(n, c) ==
    \/ end[n][c] \in {"none", "dialling", "accepting", "up"}
    \/ writer[n].pc # "idle" /\ writer[n].conn = c

\* The connections that were struck and have not cost the node anything yet.
Owing(n) == {c \in hit : Owes(n, c)}

\* Every fault pays for one failed send, or is still owed one.
Blame == \A n \in Nodes : Cardinality(Failed(n)) + Cardinality(Owing(n)) <= faults

BlameInv == EInv /\ IsFiniteSet(hit) /\ Blame

\* A connection that a node has done with never costs it a send again.
LEMMA OwesOnce ==
  ASSUME EInv, Next, NEW n \in Nodes, NEW c \in Conns, Owes(n, c)'
  PROVE  Owes(n, c)
  <1>1. EndStep(n, c)
    BY EndSteps
  <1>2. end'[n][c] \in {"none", "dialling", "accepting", "up"} => Owes(n, c)
    BY <1>1 DEF EndStep, Owes
  <1>3. CASE writer'[n] = writer[n]
    BY <1>2, <1>3 DEF Owes
  <1>4. ASSUME NEW o \in Nodes, Finishes(o)
        PROVE  writer'[n].pc = "idle" \/ writer'[n] = writer[n]
    BY <1>4, Settles DEF Finishes, EInv, IInv
  <1>5. ASSUME NEW o \in Nodes, Proceeds(o), writer'[n] # writer[n], writer'[n].conn = c
        PROVE  Owes(n, c)
    <2>0. o = n /\ TypeOK
      BY <1>5 DEF Proceeds, EInv, IInv
    <2>1. CASE UsePreferred(n)
      <3>1. Preferred(Registered(n)) \in Registered(n)
        BY <2>1, PreferredExists DEF UsePreferred, Registered
      <3>2. /\ Goes(n, "write", Preferred(Registered(n)))
            /\ Preferred(Registered(n)) \in Conns /\ end[n][Preferred(Registered(n))] = "up"
        BY <2>1, <3>1 DEF UsePreferred, Registered
      <3>. HIDE DEF Preferred, Registered
      <3>. QED  BY <1>5, <2>0, <3>2, GoesTo DEF Owes
    <2>2. CASE Dial(n)
      <3>1. PICK d \in Conns : dialler[d] = Nobody /\ Goes(n, "dial", d)
        BY <2>2, Zenon DEF Dial
      <3>2. d = c
        BY <1>5, <2>0, <3>1, GoesTo
      <3>. QED  BY <3>1, <3>2 DEF Owes, EInv, IInv, Used
    <2>3. CASE DialDone(n) \/ Write(n)
      <3>1. /\ writer[n].pc # "idle" /\ writer[n].conn \in Conns
            /\ Goes(n, "write", writer[n].conn) \/ Goes(n, "drain", writer[n].conn)
        BY <2>3 DEF DialDone, Write, At, EInv, IInv, Writing
      <3>2. writer'[n].conn = writer[n].conn
        BY <2>0, <3>1, GoesTo
      <3>. QED  BY <1>5, <3>1, <3>2 DEF Owes
    <2>. QED  BY <1>5, <2>0, <2>1, <2>2, <2>3 DEF Proceeds
  <1>. QED  BY <1>2, <1>3, <1>4, <1>5, Sends DEF EInv, Owes, sendVars

\* What a step of the network, or a send that goes on, costs nobody.
LEMMA NothingFails ==
  ASSUME EInv, NEW n \in Nodes, outcome' = outcome
  PROVE  Failed(n)' = Failed(n)
  BY DEF Failed

\* Settling a send counts against its own node only.
LEMMA SettledFails ==
  ASSUME EInv, NEW o \in Nodes, outbox[o] # <<>>, NEW how \in {"sent", "failed"}, Settle(o, how),
         NEW n \in Nodes
  PROVE  /\ n # o \/ how = "sent" => Failed(n)' = Failed(n)
         /\ \E m : Failed(n)' \subseteq Failed(n) \cup {m}
  <1>. DEFINE h == Head(outbox[o])
  <1>1. \A m \in Msgs : outcome'[m] = IF m = h THEN how ELSE outcome[m]
    BY Settles DEF EInv, IInv
  <1>2. h \in Msgs /\ outcome[h] = "queued" /\ (h \in ToSet(Outbox[n]) => n = o)
    BY TakenMessage DEF EInv
  <1>3. ToSet(Outbox[n]) \subseteq Msgs
    BY ConnectionsAssumption DEF ToSet
  <1>. HIDE DEF h
  <1>4. n # o \/ how = "sent" => \A m \in ToSet(Outbox[n]) : outcome'[m] = "failed" <=> outcome[m] = "failed"
    BY <1>1, <1>2, <1>3
  <1>5. Failed(n)' \subseteq Failed(n) \cup {h}
    BY <1>1, <1>3 DEF Failed
  <1>6. n # o \/ how = "sent" => Failed(n)' = Failed(n)
    BY <1>4, Zenon DEF Failed
  <1>. QED  BY <1>5, <1>6

\* What a step costs a node: nothing; a connection that was struck; a new fault
\* its send; or a new fault a send to come.
LEMMA Costs ==
  ASSUME EInv, Next, NEW n \in Nodes
  PROVE  \/ Failed(n)' = Failed(n) /\ Owing(n)' \subseteq Owing(n) /\ UNCHANGED <<hit, faults>>
         \/ \E m : \E c \in Owing(n) :
              /\ Failed(n)' \subseteq Failed(n) \cup {m} /\ Owing(n)' \subseteq Owing(n) \ {c}
              /\ UNCHANGED <<hit, faults>>
         \/ \E c, m :
              /\ hit' \subseteq hit \cup {c} /\ faults' = faults + 1
              /\ \/ Failed(n)' \subseteq Failed(n) \cup {m} /\ Owing(n)' \subseteq Owing(n)
                 \/ Failed(n)' = Failed(n) /\ Owing(n)' \subseteq Owing(n) \cup {c}
  <1>. DEFINE Free == Failed(n)' = Failed(n) /\ Owing(n)' \subseteq Owing(n) /\ UNCHANGED <<hit, faults>>
              Paid == \E m : \E c \in Owing(n) :
                        /\ Failed(n)' \subseteq Failed(n) \cup {m} /\ Owing(n)' \subseteq Owing(n) \ {c}
                        /\ UNCHANGED <<hit, faults>>
              Fresh == \E c, m :
                        /\ hit' \subseteq hit \cup {c} /\ faults' = faults + 1
                        /\ \/ Failed(n)' \subseteq Failed(n) \cup {m} /\ Owing(n)' \subseteq Owing(n)
                           \/ Failed(n)' = Failed(n) /\ Owing(n)' \subseteq Owing(n) \cup {c}
  <1>0. \A c \in Conns : Owes(n, c)' => Owes(n, c)
    BY OwesOnce
  <1>1. hit \subseteq Conns /\ hit' \subseteq Conns
    BY Histories DEF EInv, IInv, TypeOK
  <1>2. ASSUME UNCHANGED <<hit, faults>>
        PROVE  Owing(n)' \subseteq Owing(n)
    BY <1>0, <1>1, <1>2 DEF Owing
  <1>3. ASSUME NEW c, hit' = hit \cup {c}
        PROVE  Owing(n)' \subseteq Owing(n) \cup {c}
    BY <1>0, <1>1, <1>3 DEF Owing
  <1>4. ASSUME UNCHANGED <<outcome, hit, faults>>
        PROVE  Free
    BY <1>2, <1>4, NothingFails
  <1>5. ASSUME NEW c, Fault({c}), UNCHANGED outcome
        PROVE  Fresh
    BY <1>3, <1>5, NothingFails DEF Fault
  <1>6. ASSUME NEW o \in Nodes, Drained(o)
        PROVE  Free
    <2>1. outbox[o] # <<>> /\ Settle(o, "sent") /\ UNCHANGED <<hit, faults>>
      BY <1>6 DEF Drained, At, EInv, IInv, Writing, faultVars
    <2>. QED  BY <1>2, <2>1, SettledFails
  <1>7. ASSUME NEW o \in Nodes, DialRefused(o)
        PROVE  Fresh
    <2>1. outbox[o] # <<>> /\ Settle(o, "failed") /\ hit' = hit /\ faults' = faults + 1
      BY <1>7 DEF DialRefused, Fault
    <2>2. Owing(n)' \subseteq Owing(n)
      BY <1>0, <1>1, <2>1 DEF Owing
    <2>3. \E m : Failed(n)' \subseteq Failed(n) \cup {m}
      BY <2>1, SettledFails
    <2>4. hit' \subseteq hit \cup {NoConn}
      BY <2>1
    <2>. QED  BY <2>1, <2>2, <2>3, <2>4, Zenon
  <1>8. ASSUME NEW o \in Nodes, DialFails(o) \/ WriteFails(o)
        PROVE  Free \/ Paid
    <2>. DEFINE c == writer[o].conn
    <2>1. /\ writer[o].pc # "idle" /\ c \in Conns /\ outbox[o] # <<>>
          /\ Settle(o, "failed") /\ end'[o][c] \in {"dropped", "closed"}
      BY <1>8, FailedEnds
    <2>2. UNCHANGED <<hit, faults>>
      BY <1>8 DEF DialFails, WriteFails, faultVars
    <2>3. CASE n # o
      BY <1>2, <2>1, <2>2, <2>3, SettledFails
    <2>4. CASE n = o
      <3>1. c \in hit
        <4>1. c \notin hit => end[o][c] = (IF writer[o].pc = "dial" THEN "dialling" ELSE "up")
          BY <2>1 DEF EInv, IInv, Writing
        <4>2. CASE DialFails(o)
          BY <2>1, <4>2, NotEnded DEF DialFails, EInv, IInv
        <4>3. CASE WriteFails(o)
          BY <2>1, <4>1, <4>3, NotEnded DEF WriteFails, At, EInv, IInv
        <4>. QED  BY <1>8, <4>2, <4>3
      <3>2. writer'[o].pc = "idle"
        BY <2>1, Settles DEF EInv, IInv
      <3>. HIDE DEF c
      <3>3. c \in Owing(n) /\ c \notin Owing(n)'
        BY <2>1, <2>4, <3>1, <3>2 DEF Owing, Owes, c
      <3>4. Owing(n)' \subseteq Owing(n) \ {c}
        BY <1>2, <2>2, <3>3
      <3>5. \E m : Failed(n)' \subseteq Failed(n) \cup {m}
        BY <2>1, SettledFails
      <3>. QED  BY <2>2, <3>3, <3>4, <3>5, Zenon
    <2>. QED  BY <2>3, <2>4
  <1>9. ASSUME NEW o \in Nodes, AckRefused(o) \/ CancelSend(o)
        PROVE  Fresh
    <2>. DEFINE c == writer[o].conn
    <2>1. /\ writer[o].pc # "idle" /\ c \in Conns /\ outbox[o] # <<>>
          /\ Settle(o, "failed") /\ end'[o][c] \in {"dropped", "closed"}
      BY <1>9, FailedEnds
    <2>2. hit' = hit \cup {c} /\ faults' = faults + 1
      BY <1>9 DEF AckRefused, CancelSend, Fault
    <2>3. Owing(n)' \subseteq Owing(n) \cup {c}
      BY <1>3, <2>2
    <2>4. CASE n # o
      <3>1. Failed(n)' = Failed(n)
        BY <2>1, <2>4, SettledFails
      <3>. QED  BY <2>2, <2>3, <3>1, Zenon
    <2>5. CASE n = o
      <3>1. writer'[o].pc = "idle"
        BY <2>1, Settles DEF EInv, IInv
      <3>2. \E m : Failed(n)' \subseteq Failed(n) \cup {m}
        BY <2>1, SettledFails
      <3>. HIDE DEF c
      <3>3. c \notin Owing(n)'
        BY <2>1, <2>5, <3>1 DEF Owing, Owes
      <3>4. Owing(n)' \subseteq Owing(n)
        BY <2>3, <3>3
      <3>5. hit' \subseteq hit \cup {c}
        BY <2>2
      <3>. QED  BY <2>2, <3>2, <3>4, <3>5, Zenon
    <2>. QED  BY <2>4, <2>5
  <1>10. ASSUME NEW o \in Nodes, UsePreferred(o) \/ Dial(o) \/ DialDone(o) \/ Write(o)
         PROVE  UNCHANGED <<outcome, hit, faults>>
    BY <1>10 DEF UsePreferred, Dial, DialDone, Write, faultVars
  <1>11. ASSUME NEW o \in Nodes, NEW c \in Conns, Accept(o, c) \/ AcceptFails(o, c) \/ Read(o, c) \/ ReadEnds(o, c)
         PROVE  UNCHANGED <<outcome, hit, faults>>
    BY <1>11 DEF Accept, AcceptFails, Read, ReadEnds, faultVars, sendVars
  <1>12. ASSUME NEW o \in Nodes, NEW c \in Conns, HelloRefused(o, c)
         PROVE  Fresh
    <2>1. Fault({c}) /\ UNCHANGED outcome
      BY <1>12 DEF HelloRefused, sendVars
    <2>. QED  BY <1>5, <2>1
  <1>13. ASSUME NEW c \in Conns, Reset(c)
         PROVE  Fresh
    <2>1. Fault({c}) /\ UNCHANGED outcome
      BY <1>13 DEF Reset, sendVars
    <2>. QED  BY <1>5, <2>1
  <1>. HIDE DEF Free, Paid, Fresh
  <1>14. Free \/ Paid \/ Fresh
    BY <1>4, <1>6, <1>7, <1>8, <1>9, <1>10, <1>11, <1>12, <1>13
    DEF Next, Runs, Writer, Receives, Listener, Reader, Faulty
  <1>. QED  BY <1>14 DEF Free, Paid, Fresh

\* A subset with one more element is larger by at most one.
LEMMA OneMore ==
  ASSUME NEW S, IsFiniteSet(S), NEW e, NEW T, T \subseteq S \cup {e}
  PROVE  IsFiniteSet(T) /\ Cardinality(T) \in Nat /\ Cardinality(S) \in Nat
         /\ Cardinality(T) <= Cardinality(S) + 1
  <1>1. IsFiniteSet(S \cup {e}) /\ Cardinality(S \cup {e}) <= Cardinality(S) + 1 /\ Cardinality(S) \in Nat
    BY FS_AddElement, FS_CardinalityType
  <1>2. IsFiniteSet(T) /\ Cardinality(T) <= Cardinality(S \cup {e})
    BY <1>1, FS_Subset
  <1>3. Cardinality(T) \in Nat /\ Cardinality(S \cup {e}) \in Nat
    BY <1>1, <1>2, FS_CardinalityType
  <1>. QED  BY <1>1, <1>2, <1>3

\* A subset without one of the elements is smaller.
LEMMA OneLess ==
  ASSUME NEW S, IsFiniteSet(S), NEW e \in S, NEW T, T \subseteq S \ {e}
  PROVE  IsFiniteSet(T) /\ Cardinality(T) \in Nat /\ Cardinality(S) \in Nat
         /\ Cardinality(T) + 1 <= Cardinality(S)
  <1>1. IsFiniteSet(S \ {e}) /\ Cardinality(S \ {e}) = Cardinality(S) - 1 /\ Cardinality(S) \in Nat
    BY FS_RemoveElement, FS_CardinalityType
  <1>2. IsFiniteSet(T) /\ Cardinality(T) <= Cardinality(S \ {e})
    BY <1>1, FS_Subset
  <1>3. Cardinality(T) \in Nat
    BY <1>2, FS_CardinalityType
  <1>. QED  BY <1>1, <1>2, <1>3

\* A node sends finitely many messages.
LEMMA FiniteOutbox ==
  ASSUME NEW n \in Nodes
  PROVE  IsFiniteSet(ToSet(Outbox[n]))
  <1>1. Outbox[n] \in Seq(Msgs)
    BY ConnectionsAssumption
  <1>2. IsFiniteSet(1 .. Len(Outbox[n]))
    BY <1>1, FS_Interval
  <1>3. [i \in 1 .. Len(Outbox[n]) |-> Outbox[n][i]] \in Surjection(1 .. Len(Outbox[n]), ToSet(Outbox[n]))
    BY <1>1 DEF Surjection, ToSet
  <1>. QED  BY <1>2, <1>3, FS_Surjection

\* Every step keeps the account of faults and failures.
LEMMA BlameKept ==
  ASSUME BlameInv, Next
  PROVE  IsFiniteSet(hit)' /\ Blame'
  <1>. USE DEF BlameInv
  <1>1. hit' = hit \/ \E c : hit' \subseteq hit \cup {c}
    <2>1. PICK n \in Nodes : TRUE
      BY ConnectionsAssumption
    <2>. QED  BY <2>1, Costs
  <1>2. IsFiniteSet(hit)'
    BY <1>1, OneMore
  <1>3. ASSUME NEW n \in Nodes
        PROVE  Cardinality(Failed(n)') + Cardinality(Owing(n)') <= faults'
    <2>. DEFINE F == Failed(n)
                W == Owing(n)
                G == Failed(n)'
                V == Owing(n)'
    <2>1. /\ IsFiniteSet(F) /\ IsFiniteSet(W) /\ IsFiniteSet(G) /\ IsFiniteSet(V)
          /\ Cardinality(F) \in Nat /\ Cardinality(W) \in Nat
          /\ Cardinality(G) \in Nat /\ Cardinality(V) \in Nat
      <3>1. F \subseteq ToSet(Outbox[n]) /\ G \subseteq ToSet(Outbox[n])
        BY DEF Failed
      <3>2. W \subseteq hit /\ V \subseteq hit'
        BY DEF Owing
      <3>. HIDE DEF F, W, G, V
      <3>3. IsFiniteSet(F) /\ IsFiniteSet(W) /\ IsFiniteSet(G) /\ IsFiniteSet(V)
        BY <1>2, <3>1, <3>2, FiniteOutbox, FS_Subset
      <3>. QED  BY <3>3, FS_CardinalityType
    <2>2. Cardinality(F) + Cardinality(W) <= faults
      BY DEF Blame
    <2>3. faults \in Nat
      BY ConnectionsAssumption DEF EInv, IInv, TypeOK
    <2>4. \/ G = F /\ V \subseteq W /\ faults' = faults
          \/ \E m : \E c \in W : G \subseteq F \cup {m} /\ V \subseteq W \ {c} /\ faults' = faults
          \/ \E m : G \subseteq F \cup {m} /\ V \subseteq W /\ faults' = faults + 1
          \/ \E c : G = F /\ V \subseteq W \cup {c} /\ faults' = faults + 1
      BY Costs, Zenon
    <2>. HIDE DEF F, W, G, V
    <2>5. CASE G = F /\ V \subseteq W /\ faults' = faults
      <3>1. Cardinality(V) <= Cardinality(W)
        BY <2>1, <2>5, FS_Subset
      <3>. QED  BY <2>1, <2>2, <2>3, <2>5, <3>1 DEF G, V
    <2>6. ASSUME NEW m, NEW c \in W, G \subseteq F \cup {m}, V \subseteq W \ {c}, faults' = faults
          PROVE  Cardinality(G) + Cardinality(V) <= faults'
      <3>1. Cardinality(G) <= Cardinality(F) + 1
        BY <2>1, <2>6, OneMore
      <3>2. Cardinality(V) + 1 <= Cardinality(W)
        BY <2>1, <2>6, OneLess
      <3>. QED  BY <2>1, <2>2, <2>3, <2>6, <3>1, <3>2
    <2>7. ASSUME NEW m, G \subseteq F \cup {m}, V \subseteq W, faults' = faults + 1
          PROVE  Cardinality(G) + Cardinality(V) <= faults'
      <3>1. Cardinality(G) <= Cardinality(F) + 1
        BY <2>1, <2>7, OneMore
      <3>2. Cardinality(V) <= Cardinality(W)
        BY <2>1, <2>7, FS_Subset
      <3>. QED  BY <2>1, <2>2, <2>3, <2>7, <3>1, <3>2
    <2>8. ASSUME NEW c, G = F, V \subseteq W \cup {c}, faults' = faults + 1
          PROVE  Cardinality(G) + Cardinality(V) <= faults'
      <3>1. Cardinality(V) <= Cardinality(W) + 1
        BY <2>1, <2>8, OneMore
      <3>. QED  BY <2>1, <2>2, <2>3, <2>8, <3>1
    <2>9. Cardinality(G) + Cardinality(V) <= faults'
      BY <2>4, <2>5, <2>6, <2>7, <2>8 DEF G, V
    <2>. QED  BY <2>9 DEF G, V
  <1>. QED  BY <1>2, <1>3 DEF Blame

\* The ends of the writers' connections, and the account of faults, are kept by
\* every step.
LEMMA Accounts ==
  /\ Init => BlameInv
  /\ BlameInv /\ [Next]_vars => BlameInv'
  <1>1. ASSUME Init
        PROVE  BlameInv
    <2>1. IInv /\ WriterEnds
      BY <1>1, Initially DEF WriterEnds, Init, Idle
    <2>2. hit = {} /\ faults = 0
      BY <1>1 DEF Init
    <2>3. \A n \in Nodes : Failed(n) = {} /\ Owing(n) = {}
      <3>1. \A n \in Nodes : ToSet(Outbox[n]) \subseteq Msgs
        BY ConnectionsAssumption DEF ToSet
      <3>2. \A m \in Msgs : outcome[m] = "queued"
        BY <1>1 DEF Init
      <3>. QED  BY <2>2, <3>1, <3>2 DEF Failed, Owing
    <2>4. IsFiniteSet({}) /\ Cardinality({}) = 0
      BY FS_EmptySet
    <2>5. Blame
      BY <2>2, <2>3, <2>4 DEF Blame
    <2>. QED  BY <2>1, <2>2, <2>4, <2>5 DEF BlameInv, EInv
  <1>2. ASSUME BlameInv, Next
        PROVE  BlameInv'
    <2>1. IInv'
      BY <1>2, Typed, UsedKept, CleanKept, WritingKept, QueuedKept, DeliveriesKept DEF IInv, BlameInv, EInv
    <2>2. WriterEnds'
      BY <1>2, WriterEndsKept DEF BlameInv
    <2>. QED  BY <1>2, <2>1, <2>2, BlameKept DEF BlameInv, EInv
  <1>3. ASSUME BlameInv, UNCHANGED vars
        PROVE  BlameInv'
    <2>1. IInv'
      BY <1>3, Stutters DEF BlameInv, EInv
    <2>2. UNCHANGED <<end, writer, outcome, hit, faults>>
      BY <1>3 DEF vars, endVars, sendVars, faultVars
    <2>3. WriterEnds'
      BY <1>3, <2>2 DEF BlameInv, EInv, WriterEnds
    <2>4. \A n \in Nodes : Failed(n)' = Failed(n) /\ Owing(n)' = Owing(n)
      BY <2>2 DEF Failed, Owing, Owes
    <2>5. Blame'
      BY <1>3, <2>2, <2>4 DEF BlameInv, Blame
    <2>. QED  BY <1>3, <2>1, <2>2, <2>3, <2>5 DEF BlameInv, EInv
  <1>. QED  BY <1>1, <1>2, <1>3

\* OneSendPerFault of Connections: a send fails only of a fault of its own, or
\* because its connection was struck, and a node that has lost a connection never
\* uses it again; so no more sends of a node fail than there were faults, for any
\* number of connections, messages and faults (comm.py:504-657).
THEOREM FaultsCostOneSend == Spec => []OneSendPerFault
  <1>1. BlameInv => OneSendPerFault
    <2>. SUFFICES ASSUME BlameInv, NEW n \in Nodes
                  PROVE  Cardinality(Failed(n)) <= faults
      BY DEF OneSendPerFault, Failed
    <2>1. Failed(n) \subseteq ToSet(Outbox[n]) /\ Owing(n) \subseteq hit
      BY DEF Failed, Owing
    <2>2. IsFiniteSet(Failed(n)) /\ IsFiniteSet(Owing(n))
      BY <2>1, FiniteOutbox, FS_Subset DEF BlameInv
    <2>3. Cardinality(Failed(n)) \in Nat /\ Cardinality(Owing(n)) \in Nat
      BY <2>2, FS_CardinalityType
    <2>4. Cardinality(Failed(n)) + Cardinality(Owing(n)) <= faults /\ faults \in Nat
      BY ConnectionsAssumption DEF BlameInv, Blame, EInv, IInv, TypeOK
    <2>. QED  BY <2>3, <2>4
  <1>. QED  BY <1>1, Accounts, PTL DEF Spec

---------------------------------------------------------------------------
(* What a step does to the send of one node                                *)

\* The node's writer does nothing.
Rests(n) ==
    /\ writer'[n] = writer[n] /\ outbox'[n] = outbox[n]
    /\ \A m \in ToSet(Outbox[n]) : via'[m] = via[m]

TakesPreferred(n) ==
    /\ writer[n].pc = "idle" /\ writer'[n].pc = "write" /\ writer'[n].conn = Preferred(Registered(n)) /\ Registered(n) # {}
    /\ UNCHANGED <<outbox, via, dialler, end, stream, received, hit>>

Dials(n, c) ==
    /\ writer[n].pc = "idle" /\ Registered(n) = {} /\ dialler[c] = Nobody
    /\ writer'[n].pc = "dial" /\ writer'[n].conn = c
    /\ \A o \in Nodes : o # n => writer'[o] = writer[o]
    /\ dialler'[c] = n /\ \A d \in Conns : d # c => dialler'[d] = dialler[d]
    /\ \A o \in Nodes, d \in Conns :
        end'[o][d] = IF d # c THEN end[o][d] ELSE IF o = n THEN "dialling" ELSE "accepting"
    /\ UNCHANGED <<outbox, via, received, hit>>

Connects(n) ==
    /\ writer[n].pc = "dial" /\ writer'[n].pc = "write" /\ writer'[n].conn = writer[n].conn
    /\ end'[n][writer[n].conn] = "up"
    /\ UNCHANGED <<outbox, via, dialler, received, hit>>

Writes(n) ==
    /\ Write(n)
    /\ writer[n].pc = "write" /\ writer'[n].pc = "drain" /\ writer[n].conn \in Conns
    /\ outbox[n] # <<>> /\ via' = [via EXCEPT ![Head(outbox[n])] = writer[n].conn]
    /\ UNCHANGED <<outbox, dialler, end, received, hit>>

GivesUp(n) ==
    /\ outbox[n] # <<>> /\ writer'[n].pc = "idle" /\ outbox'[n] = Tail(outbox[n])
    /\ writer[n].pc = "dial" => end'[n][writer[n].conn] \notin {"dialling", "up"}
    /\ UNCHANGED <<via, dialler>>

LEMMA DialSteps ==
  ASSUME EInv, NEW n \in Nodes, Dial(n)
  PROVE  \E c \in Conns : Dials(n, c)
  <1>1. PICK c \in Conns :
            /\ dialler[c] = Nobody /\ dialler' = [dialler EXCEPT ![c] = n]
            /\ end' = [end EXCEPT ![n][c] = "dialling", ![Other(n)][c] = "accepting"]
            /\ Goes(n, "dial", c)
    BY DEF Dial
  <1>2. TypeOK /\ Other(n) \in Nodes /\ Other(n) # n /\ \A o \in Nodes : o = n \/ o = Other(n)
    BY Others DEF EInv, IInv
  <1>3. writer'[n].pc = "dial" /\ writer'[n].conn = c /\ \A o \in Nodes : o # n => writer'[o] = writer[o]
    BY <1>1, <1>2, GoesTo
  <1>4. \A o \in Nodes, d \in Conns :
            end'[o][d] = IF d # c THEN end[o][d] ELSE IF o = n THEN "dialling" ELSE "accepting"
    BY <1>1, <1>2 DEF TypeOK
  <1>5. dialler'[c] = n /\ \A d \in Conns : d # c => dialler'[d] = dialler[d]
    BY <1>1, <1>2 DEF TypeOK
  <1>6. writer[n].pc = "idle" /\ Registered(n) = {} /\ UNCHANGED <<outbox, via, received, hit>>
    BY DEF Dial, At, faultVars
  <1>. QED  BY <1>1, <1>3, <1>4, <1>5, <1>6 DEF Dials

LEMMA SendSteps ==
  ASSUME EInv, Next, NEW n \in Nodes
  PROVE  \/ Rests(n) \/ TakesPreferred(n) \/ (\E c \in Conns : Dials(n, c))
         \/ Connects(n) \/ Writes(n) \/ GivesUp(n)
  <1>. DEFINE Goal == \/ Rests(n) \/ TakesPreferred(n) \/ (\E c \in Conns : Dials(n, c))
                      \/ Connects(n) \/ Writes(n) \/ GivesUp(n)
  <1>0. IInv /\ TypeOK
    BY DEF EInv, IInv
  <1>1. ASSUME UNCHANGED sendVars
        PROVE  Goal
    BY <1>1 DEF sendVars, Rests
  <1>2. ASSUME NEW o \in Nodes, o # n, Proceeds(o)
        PROVE  Goal
    <2>1. writer'[n] = writer[n] /\ outbox'[n] = outbox[n]
      BY <1>2 DEF Proceeds
    <2>2. via' = via \/ \E x \in Nodes : Write(x) /\ via' = [via EXCEPT ![Head(outbox[x])] = writer[x].conn]
      BY <1>0, Histories
    <2>3. ASSUME NEW x \in Nodes, Write(x), via' = [via EXCEPT ![Head(outbox[x])] = writer[x].conn]
          PROVE  \A m \in ToSet(Outbox[n]) : via'[m] = via[m]
      <3>1. writer'[x] # writer[x] /\ outbox[x] # <<>>
        <4>1. writer[x].pc = "write" /\ writer[x].conn \in Conns /\ outbox[x] # <<>>
          BY <1>0, <2>3 DEF Write, At, IInv, Writing
        <4>2. writer'[x].pc = "drain"
          BY <1>0, <2>3, <4>1, GoesTo DEF Write
        <4>. QED  BY <4>1, <4>2
      <3>2. x = o
        BY <1>2, <3>1 DEF Proceeds
      <3>3. Head(outbox[x]) \notin ToSet(Outbox[n]) /\ ToSet(Outbox[n]) \subseteq Msgs
        BY <1>0, <1>2, <3>1, <3>2, TakenMessage, ConnectionsAssumption DEF ToSet
      <3>. QED  BY <1>0, <2>3, <3>3 DEF TypeOK
    <2>. QED  BY <2>1, <2>2, <2>3 DEF Rests
  <1>3. ASSUME NEW o \in Nodes, o # n, Finishes(o)
        PROVE  Goal
    BY <1>0, <1>3, Settles DEF Finishes, Rests
  <1>4. CASE UsePreferred(n)
    <2>1. Preferred(Registered(n)) \in Conns
      BY <1>4, PreferredExists DEF UsePreferred, Registered
    <2>2. Goes(n, "write", Preferred(Registered(n))) /\ writer[n].pc = "idle" /\ Registered(n) # {}
          /\ UNCHANGED <<outbox, via, dialler, end, stream, received, hit>>
      BY <1>4 DEF UsePreferred, At, endVars, faultVars
    <2>. HIDE DEF Preferred, Registered
    <2>. QED  BY <1>0, <2>1, <2>2, GoesTo DEF TakesPreferred
  <1>5. CASE Dial(n)
    BY <1>5, DialSteps
  <1>6. CASE DialDone(n)
    <2>1. writer[n].pc = "dial" /\ writer[n].conn \in Conns
      BY <1>6 DEF DialDone, At, EInv, IInv, Writing
    <2>2. Goes(n, "write", writer[n].conn) /\ end' = [end EXCEPT ![n][writer[n].conn] = "up"]
          /\ UNCHANGED <<outbox, via, dialler, received, hit>>
      BY <1>6 DEF DialDone, faultVars
    <2>3. end'[n][writer[n].conn] = "up"
      BY <1>0, <2>1, <2>2 DEF TypeOK
    <2>. QED  BY <1>0, <2>1, <2>2, <2>3, GoesTo DEF Connects
  <1>7. CASE Write(n)
    <2>1. writer[n].pc = "write" /\ writer[n].conn \in Conns /\ outbox[n] # <<>>
      BY <1>7 DEF Write, At, EInv, IInv, Writing
    <2>2. Goes(n, "drain", writer[n].conn) /\ via' = [via EXCEPT ![Head(outbox[n])] = writer[n].conn]
          /\ UNCHANGED <<outbox, dialler, end, received, hit>>
      BY <1>7 DEF Write, faultVars
    <2>. QED  BY <1>0, <1>7, <2>1, <2>2, GoesTo DEF Writes
  <1>8. CASE Drained(n) \/ DialRefused(n)
    <2>1. outbox[n] # <<>> /\ writer[n].pc # "dial" /\ UNCHANGED <<via, dialler>>
          /\ (Settle(n, "sent") \/ Settle(n, "failed"))
      BY <1>8 DEF Drained, DialRefused, At, EInv, IInv, Writing
    <2>. QED  BY <1>0, <2>1, Settles DEF GivesUp
  <1>9. CASE DialFails(n) \/ WriteFails(n) \/ AckRefused(n) \/ CancelSend(n)
    <2>1. outbox[n] # <<>> /\ Settle(n, "failed") /\ end'[n][writer[n].conn] \in {"dropped", "closed"}
      BY <1>9, FailedEnds
    <2>2. UNCHANGED <<via, dialler>>
      BY <1>9 DEF DialFails, WriteFails, AckRefused, CancelSend
    <2>. QED  BY <1>0, <2>1, <2>2, Settles DEF GivesUp
  <1>10. ASSUME NEW o \in Nodes, UsePreferred(o) \/ Dial(o) \/ DialDone(o) \/ Write(o)
         PROVE  Proceeds(o)
    BY <1>0, <1>10, UsePreferredProceeds, DialProceeds, DialDoneProceeds, WriteProceeds
  <1>11. ASSUME NEW o \in Nodes,
                DialRefused(o) \/ DialFails(o) \/ AckRefused(o) \/ Drained(o) \/ WriteFails(o) \/ CancelSend(o)
         PROVE  Finishes(o)
    <2>1. outbox[o] # <<>>
      BY <1>0, <1>11 DEF IInv, Writing, DialRefused, DialFails, AckRefused, Drained, WriteFails, CancelSend, At
    <2>. QED  BY <1>11, <2>1 DEF Finishes, DialRefused, DialFails, AckRefused, Drained, WriteFails, CancelSend
  <1>12. ASSUME NEW o \in Nodes,
                \/ UsePreferred(o) \/ Dial(o) \/ DialDone(o) \/ Write(o)
                \/ DialRefused(o) \/ DialFails(o) \/ AckRefused(o) \/ Drained(o) \/ WriteFails(o) \/ CancelSend(o)
         PROVE  Goal
    <2>1. CASE o = n
      BY <1>4, <1>5, <1>6, <1>7, <1>8, <1>9, <1>12, <2>1
    <2>2. CASE o # n
      BY <1>2, <1>3, <1>10, <1>11, <1>12, <2>2
    <2>. QED  BY <2>1, <2>2
  <1>13. ASSUME NEW o \in Nodes, NEW c \in Conns,
                Accept(o, c) \/ AcceptFails(o, c) \/ HelloRefused(o, c) \/ Read(o, c) \/ ReadEnds(o, c)
         PROVE  Goal
    BY <1>1, <1>13 DEF Accept, AcceptFails, HelloRefused, Read, ReadEnds
  <1>14. ASSUME NEW c \in Conns, Reset(c)
         PROVE  Goal
    BY <1>1, <1>14 DEF Reset
  <1>. HIDE DEF Goal
  <1>15. Goal
    BY <1>12, <1>13, <1>14 DEF Next, Runs, Writer, Receives, Listener, Reader, Faulty
  <1>. QED  BY <1>15 DEF Goal

\* Only a dial makes a connection.
LEMMA NewConnections ==
  ASSUME EInv, Next
  PROVE  UNCHANGED dialler \/ \E n \in Nodes, c \in Conns : Dials(n, c)
  <1>1. ASSUME NEW n \in Nodes, Dial(n)
        PROVE  \E o \in Nodes, c \in Conns : Dials(o, c)
    BY <1>1, DialSteps
  <1>2. ASSUME NEW n \in Nodes,
               UsePreferred(n) \/ DialDone(n) \/ DialFails(n) \/ Write(n) \/ Drained(n) \/ WriteFails(n)
        PROVE  UNCHANGED dialler
    BY <1>2 DEF UsePreferred, DialDone, DialFails, Write, Drained, WriteFails
  <1>3. ASSUME NEW n \in Nodes, DialRefused(n) \/ AckRefused(n) \/ CancelSend(n)
        PROVE  UNCHANGED dialler
    BY <1>3 DEF DialRefused, AckRefused, CancelSend
  <1>4. ASSUME NEW n \in Nodes, NEW c \in Conns,
               Accept(n, c) \/ AcceptFails(n, c) \/ HelloRefused(n, c) \/ Read(n, c) \/ ReadEnds(n, c)
        PROVE  UNCHANGED dialler
    BY <1>4 DEF Accept, AcceptFails, HelloRefused, Read, ReadEnds
  <1>5. ASSUME NEW c \in Conns, Reset(c)
        PROVE  UNCHANGED dialler
    BY <1>5 DEF Reset
  <1>. QED  BY <1>1, <1>2, <1>3, <1>4, <1>5 DEF Next, Runs, Writer, Receives, Listener, Reader, Faulty

---------------------------------------------------------------------------
(* What a node knows of a connection                                       *)

\* Who is dialling, and who accepts.
Roles ==
    \A n \in Nodes, c \in Conns :
        /\ end[n][c] = "dialling" => dialler[c] = n /\ writer[n].pc = "dial" /\ writer[n].conn = c
        /\ end[n][c] = "accepting" => dialler[c] # n

\* A node that has a connection of its own making, or is making one, which no
\* fault has struck, has no other one.
DialsOnce ==
    \A c, d \in Conns : c # d /\ c \notin hit /\ dialler[c] = dialler[d] /\ dialler[c] # Nobody =>
        end[dialler[d]][d] \notin {"dialling", "up"}

RolesInv == EInv /\ Roles /\ DialsOnce

LEMMA RolesKept ==
  ASSUME RolesInv, Next
  PROVE  Roles'
  <1>. SUFFICES ASSUME NEW n \in Nodes, NEW c \in Conns
                PROVE  /\ end'[n][c] = "dialling" =>
                            dialler'[c] = n /\ writer'[n].pc = "dial" /\ writer'[n].conn = c
                       /\ end'[n][c] = "accepting" => dialler'[c] # n
    BY DEF Roles
  <1>0. EInv /\ Roles /\ Used /\ Used'
    BY UsedKept DEF RolesInv, EInv, IInv
  <1>1. EndStep(n, c)
    BY <1>0, EndSteps
  <1>2. CASE UNCHANGED dialler
    <2>1. end[n][c] = "none" => end'[n][c] = "none"
      BY <1>0, <1>2 DEF Used
    <2>2. end'[n][c] \in {"dialling", "accepting"} => end'[n][c] = end[n][c]
      BY <1>1, <2>1 DEF EndStep
    <2>3. ASSUME end'[n][c] = "dialling", end[n][c] = "dialling"
          PROVE  writer'[n].pc = "dial" /\ writer'[n].conn = c
      <3>1. writer[n].pc = "dial" /\ writer[n].conn = c
        BY <1>0, <2>3 DEF Roles
      <3>2. CASE Rests(n)
        BY <3>1, <3>2 DEF Rests
      <3>3. ~TakesPreferred(n)
        BY <3>1 DEF TakesPreferred
      <3>4. ~Connects(n) /\ ~GivesUp(n)
        BY <2>3, <3>1 DEF Connects, GivesUp
      <3>5. ~Writes(n) /\ ~\E d \in Conns : Dials(n, d)
        BY <3>1 DEF Writes, Dials
      <3>. QED  BY <1>0, <3>2, <3>3, <3>4, <3>5, SendSteps
    <2>. QED  BY <1>0, <1>2, <2>2, <2>3 DEF Roles
  <1>3. ASSUME NEW o \in Nodes, NEW d \in Conns, Dials(o, d)
        PROVE  /\ end'[n][c] = "dialling" =>
                     dialler'[c] = n /\ writer'[n].pc = "dial" /\ writer'[n].conn = c
               /\ end'[n][c] = "accepting" => dialler'[c] # n
    BY <1>0, <1>3 DEF Dials, Roles
  <1>. QED  BY <1>0, <1>2, <1>3, NewConnections

LEMMA DialsOnceKept ==
  ASSUME RolesInv, Next
  PROVE  DialsOnce'
  <1>. SUFFICES ASSUME NEW c \in Conns, NEW d \in Conns, c # d, c \notin hit',
                       dialler'[c] = dialler'[d], dialler'[c] # Nobody
                PROVE  end'[dialler'[d]][d] \notin {"dialling", "up"}
    BY DEF DialsOnce
  <1>0. EInv /\ Roles /\ Used /\ Used' /\ Clean /\ Roles' /\ TypeOK
    BY UsedKept, RolesKept DEF RolesInv, EInv, IInv
  <1>1. c \notin hit
    BY <1>0, Step DEF EInv
  <1>2. CASE UNCHANGED dialler
    <2>. DEFINE n == dialler[d]
    <2>1. n \in Nodes /\ end[n][d] \notin {"dialling", "up"}
      BY <1>0, <1>1, <1>2 DEF RolesInv, DialsOnce, TypeOK
    <2>2. EndStep(n, d) /\ end[n][d] # "accepting"
      BY <1>0, <2>1, EndSteps DEF Roles
    <2>3. end[n][d] = "none" => end'[n][d] = "none"
      BY <1>0, <1>2, <2>1 DEF Used
    <2>4. writer[n].pc = "dial" /\ writer[n].conn = d => end[n][d] = "dialling"
      BY <1>0, <2>1 DEF EInv, WriterEnds
    <2>. HIDE DEF n
    <2>5. end'[n][d] \notin {"dialling", "up"}
      BY <2>1, <2>2, <2>3, <2>4 DEF EndStep
    <2>. QED  BY <1>2, <2>5 DEF n
  <1>3. ASSUME NEW n \in Nodes, NEW e \in Conns, Dials(n, e)
        PROVE  end'[dialler'[d]][d] \notin {"dialling", "up"}
    <2>1. CASE e = c
      <3>1. dialler[d] = n /\ d # e /\ end'[n][d] = end[n][d]
        BY <1>3, <2>1 DEF Dials
      <3>2. end[n][d] # "dialling" /\ end[n][d] # "up"
        BY <1>0, <1>3 DEF Dials, Roles, Registered
      <3>. QED  BY <1>3, <2>1, <3>1, <3>2 DEF Dials
    <2>2. CASE e = d
      <3>1. dialler[c] = n
        BY <1>3, <2>2 DEF Dials
      <3>2. end[n][c] # "dialling" /\ end[n][c] # "up" /\ end[n][c] # "accepting"
        BY <1>0, <1>3, <3>1 DEF Dials, Roles, Registered
      <3>3. end[n][c] # "none"
        BY <1>0, <3>1, ConnectionsAssumption DEF Used, Nobody
      <3>. QED  BY <1>0, <1>1, <3>2, <3>3 DEF Clean
    <2>3. CASE e # c /\ e # d
      <3>1. dialler'[c] = dialler[c] /\ dialler'[d] = dialler[d]
        BY <1>3, <2>3 DEF Dials
      <3>2. dialler[d] \in Nodes /\ end[dialler[d]][d] \notin {"dialling", "up"}
        BY <1>0, <1>1, <3>1 DEF RolesInv, DialsOnce, TypeOK
      <3>. QED  BY <1>3, <2>3, <3>1, <3>2 DEF Dials
    <2>. QED  BY <2>1, <2>2, <2>3
  <1>. QED  BY <1>0, <1>2, <1>3, NewConnections

---------------------------------------------------------------------------
(* Which connection a node writes on                                       *)

\* What a node has written is still delivered, on a connection it still has.
Written ==
    \A n \in Nodes : \A m \in ToSet(Outbox[n]) : via[m] # NoConn =>
        Delivered(n, m) /\ (via[m] \notin hit => end[n][via[m]] = "up")

\* The connections, not struck, that a node has written messages on, and the one
\* it is about to write on.
Uses(n) == {c \in Conns \ hit : \E m \in ToSet(Outbox[n]) : via[m] = c}
Using(n) == {c \in Conns \ hit : writer[n].pc = "write" /\ writer[n].conn = c}

\* A node dials only when it has lost every connection it wrote on.
DialsAlone == \A n \in Nodes : writer[n].pc = "dial" => Uses(n) = {}

\* A connection of its own making attracts the writer only once.
Prefers ==
    \A n \in Nodes, d \in Conns : dialler[d] = n /\ end[n][d] = "up" =>
        \A c \in Uses(n) \cup Using(n) : c # d => c < d

\* The writer moves from its own connection to a preferred one of the other node.
Moved(n, c, d) == d < c /\ dialler[d] = Other(n) /\ dialler[c] = n

\* A writer leaves a good connection in this way, or for one the other node has left.
Switches ==
    \A n \in Nodes : writer[n].pc = "write" =>
        \A c \in Uses(n) : c # writer[n].conn => Moved(n, c, writer[n].conn) \/ ~Open(Other(n), writer[n].conn)

WritesInv == RolesInv /\ Written /\ DialsAlone /\ Prefers /\ Switches

\* A step writes at most the message at the head of the outbox.
LEMMA ViaKept ==
  ASSUME EInv, Next, NEW n \in Nodes, NEW m \in ToSet(Outbox[n])
  PROVE  via'[m] = via[m] \/ (Writes(n) /\ m = Head(outbox[n]) /\ via'[m] = writer[n].conn)
  <1>1. m \in Msgs /\ TypeOK
    BY ConnectionsAssumption DEF ToSet, EInv, IInv
  <1>2. CASE Writes(n)
    BY <1>1, <1>2 DEF Writes, TypeOK
  <1>3. CASE Rests(n)
    BY <1>3 DEF Rests
  <1>. QED  BY <1>2, <1>3, SendSteps DEF TakesPreferred, Dials, Connects, GivesUp

LEMMA UsesKept ==
  ASSUME EInv, Next, NEW n \in Nodes, NEW c \in Uses(n)'
  PROVE  c \in Conns /\ c \notin hit' /\ c \notin hit /\ (c \in Uses(n) \/ (Writes(n) /\ c = writer[n].conn /\ c \in Using(n)))
  <1>1. c \in Conns /\ c \notin hit' /\ \E m \in ToSet(Outbox[n]) : via'[m] = c
    BY DEF Uses
  <1>2. c \notin hit
    BY <1>1, Step DEF EInv
  <1>3. PICK m \in ToSet(Outbox[n]) : via'[m] = c
    BY <1>1
  <1>. QED  BY <1>1, <1>2, <1>3, ViaKept DEF Uses, Using, Writes

LEMMA WrittenKept ==
  ASSUME EInv, Written, Next
  PROVE  Written'
  <1>. SUFFICES ASSUME NEW n \in Nodes, NEW m \in ToSet(Outbox[n]), via'[m] # NoConn
                PROVE  Delivered(n, m)' /\ (via'[m] \notin hit' => end'[n][via'[m]] = "up")
    BY DEF Written
  <1>0. m \in Msgs /\ IInv
    BY ConnectionsAssumption DEF ToSet, EInv
  <1>1. CASE via'[m] = via[m]
    <2>1. Delivered(n, m) /\ (via[m] \notin hit => end[n][via[m]] = "up")
      BY <1>1 DEF Written
    <2>2. Delivered(n, m)'
      BY <1>0, <1>1, <2>1, DeliveredKept
    <2>3. ASSUME via[m] \notin hit'
          PROVE  end'[n][via[m]] = "up"
      <3>1. via[m] \in Conns
        BY <2>1 DEF Delivered
      <3>2. Moves(n, via[m]) /\ via[m] \notin hit
        BY <1>0, <2>3, <3>1, Step DEF EndsMove
      <3>. QED  BY <2>1, <3>2 DEF Moves
    <2>. QED  BY <1>1, <2>2, <2>3
  <1>2. CASE Writes(n) /\ m = Head(outbox[n]) /\ via'[m] = writer[n].conn
    <2>1. Delivered(n, m)'
      BY <1>0, <1>2, WriteDelivers DEF Writes
    <2>2. UNCHANGED <<end, hit>> /\ (writer[n].conn \notin hit => end[n][writer[n].conn] = "up")
      BY <1>0, <1>2 DEF Writes, IInv, Writing
    <2>. QED  BY <1>2, <2>1, <2>2
  <1>. QED  BY <1>1, <1>2, ViaKept

LEMMA DialsAloneKept ==
  ASSUME WritesInv, Next
  PROVE  DialsAlone'
  <1>. SUFFICES ASSUME NEW n \in Nodes, writer'[n].pc = "dial", NEW c \in Uses(n)'
                PROVE  FALSE
    BY DEF DialsAlone
  <1>0. EInv
    BY DEF WritesInv, RolesInv
  <1>1. CASE Rests(n)
    BY <1>0, <1>1, UsesKept DEF Rests, WritesInv, DialsAlone, Writes
  <1>2. ASSUME NEW d \in Conns, Dials(n, d)
        PROVE  FALSE
    <2>1. c \in Uses(n) /\ Registered(n) = {}
      BY <1>0, <1>2, UsesKept DEF Dials, Writes
    <2>2. end[n][c] = "up" /\ c \in Conns
      BY <2>1, ConnectionsAssumption DEF Uses, WritesInv, Written, NoConn
    <2>. QED  BY <2>1, <2>2 DEF Registered
  <1>. QED  BY <1>0, <1>1, <1>2, SendSteps DEF TakesPreferred, Connects, Writes, GivesUp

LEMMA PrefersKept ==
  ASSUME WritesInv, Next
  PROVE  Prefers'
  <1>. SUFFICES ASSUME NEW n \in Nodes, NEW d \in Conns, dialler'[d] = n, end'[n][d] = "up",
                       NEW c \in Uses(n)' \cup Using(n)', c # d
                PROVE  c < d
    BY DEF Prefers
  <1>0. EInv /\ Roles /\ TypeOK
    BY DEF WritesInv, RolesInv, EInv, IInv
  <1>1. dialler[d] = n
    <2>1. ASSUME NEW o \in Nodes, NEW e \in Conns, Dials(o, e)
          PROVE  e # d
      BY <2>1 DEF Dials
    <2>. QED  BY <1>0, <2>1, NewConnections DEF Dials
  <1>2. end[n][d] = "up" \/ (writer[n].pc = "dial" /\ writer[n].conn = d /\ writer'[n].pc # "dial")
    BY <1>0, <1>1, EndSteps DEF EndStep, Roles
  <1>3. c \in Conns /\ c \notin hit
    BY <1>0, Step, UsesKept DEF Using, EInv
  <1>4. CASE end[n][d] = "up" /\ c \in Uses(n) \cup Using(n)
    BY <1>1, <1>4 DEF WritesInv, Prefers
  <1>5. CASE end[n][d] = "up" /\ c \notin Uses(n) \cup Using(n)
    <2>1. c \notin Uses(n)'
      BY <1>0, <1>5, UsesKept
    <2>2. writer'[n].pc = "write" /\ writer'[n].conn = c
      BY <2>1 DEF Using
    <2>3. ~Rests(n)
      BY <1>3, <1>5, <2>2 DEF Rests, Using
    <2>4. CASE TakesPreferred(n)
      <3>1. d \in Registered(n) /\ Registered(n) \subseteq Conns /\ c = Preferred(Registered(n))
        BY <1>5, <2>2, <2>4 DEF TakesPreferred, Registered
      <3>2. c <= d /\ c \in Nat /\ d \in Nat
        BY <1>3, <3>1, PreferredExists, ConnectionsAssumption
      <3>. QED  BY <3>2
    <2>5. CASE Connects(n)
      <3>1. end[n][c] = "dialling"
        BY <1>0, <2>2, <2>5 DEF Connects, EInv, WriterEnds
      <3>2. dialler[c] = n /\ n # Nobody
        BY <1>0, <1>3, <3>1, ConnectionsAssumption DEF Roles, Nobody
      <3>. QED  BY <1>1, <1>3, <1>5, <3>2 DEF WritesInv, RolesInv, DialsOnce
    <2>. QED  BY <1>0, <2>2, <2>3, <2>4, <2>5, SendSteps DEF Dials, Writes, GivesUp
  <1>6. CASE writer[n].pc = "dial" /\ writer[n].conn = d /\ writer'[n].pc # "dial"
    <2>1. CASE Connects(n)
      <3>1. Uses(n) = {}
        BY <1>6 DEF WritesInv, DialsAlone
      <3>2. c \notin Uses(n)'
        BY <1>0, <2>1, <3>1, UsesKept DEF Writes, Connects
      <3>. QED  BY <1>6, <2>1, <3>2 DEF Connects, Using
    <2>2. ~GivesUp(n)
      BY <1>6 DEF GivesUp
    <2>. QED  BY <1>0, <1>6, <2>1, <2>2, SendSteps DEF Rests, TakesPreferred, Dials, Writes
  <1>. QED  BY <1>2, <1>4, <1>5, <1>6

\* What makes a switch good, or harmless, stays so.
LEMMA SwitchStays ==
  ASSUME WritesInv, Next, NEW n \in Nodes, NEW c \in Conns, NEW d \in Conns, dialler[d] # Nobody
  PROVE  /\ Moved(n, c, d) => Moved(n, c, d)'
         /\ ~Open(Other(n), d) => ~Open(Other(n), d)'
  <1>0. EInv /\ Used /\ TypeOK /\ Other(n) \in Nodes /\ Nobody \notin Nodes
    BY Others, ConnectionsAssumption DEF WritesInv, RolesInv, EInv, IInv, Nobody
  <1>1. ASSUME NEW e \in Conns, dialler[e] # Nobody
        PROVE  dialler'[e] = dialler[e]
    BY <1>0, <1>1, NewConnections DEF Dials
  <1>2. Moved(n, c, d) => Moved(n, c, d)'
    BY <1>0, <1>1 DEF Moved
  <1>3. ~Open(Other(n), d) => ~Open(Other(n), d)'
    <2>. DEFINE o == Other(n)
    <2>. HIDE DEF o
    <2>1. o \in Nodes /\ end[o][d] # "none" /\ EndStep(o, d)
      BY <1>0, EndSteps DEF Used, o
    <2>2. writer[o].pc = "dial" /\ writer[o].conn = d => end[o][d] = "dialling"
      BY <1>0, <2>1 DEF EInv, WriterEnds
    <2>. QED  BY <2>1, <2>2 DEF Open, EndStep, o
  <1>. QED  BY <1>2, <1>3

LEMMA SwitchesKept ==
  ASSUME WritesInv, Next
  PROVE  Switches'
  <1>. SUFFICES ASSUME NEW n \in Nodes, writer'[n].pc = "write",
                       NEW c \in Uses(n)', NEW d, d = writer'[n].conn, c # d
                PROVE  Moved(n, c, d)' \/ ~Open(Other(n), d)'
    BY DEF Switches, Moved, Open
  <1>0. EInv /\ Used /\ TypeOK /\ Other(n) \in Nodes /\ Nobody \notin Nodes
    BY Others, ConnectionsAssumption DEF WritesInv, RolesInv, EInv, IInv, Nobody
  <1>1. c \in Conns /\ c \notin hit
    BY <1>0, UsesKept
  <1>2. CASE Rests(n)
    <2>1. c \in Uses(n) /\ writer[n].pc = "write" /\ d = writer[n].conn
      BY <1>0, <1>2, UsesKept DEF Rests, Writes
    <2>2. d \in Conns /\ dialler[d] # Nobody
      BY <1>0, <2>1 DEF EInv, IInv, Writing
    <2>3. Moved(n, c, d) \/ ~Open(Other(n), d)
      BY <2>1 DEF WritesInv, Switches
    <2>. QED  BY <1>1, <2>2, <2>3, SwitchStays
  <1>3. CASE TakesPreferred(n)
    <2>1. c \in Uses(n)
      BY <1>0, <1>3, UsesKept DEF TakesPreferred, Writes
    <2>2. end[n][c] = "up"
      BY <2>1, ConnectionsAssumption DEF Uses, WritesInv, Written, NoConn
    <2>3. c \in Registered(n) /\ Registered(n) \subseteq Conns /\ d = Preferred(Registered(n))
      BY <1>1, <1>3, <2>2 DEF TakesPreferred, Registered
    <2>4. d \in Registered(n) /\ d <= c
      BY <2>3, PreferredExists
    <2>5. d \in Conns /\ end[n][d] = "up" /\ d < c
      <3>1. d \in Nat /\ c \in Nat /\ d \in Conns
        BY <2>3, <2>4, ConnectionsAssumption
      <3>. QED  BY <2>4, <3>1 DEF Registered
    <2>6. dialler[d] # n
      <3>1. c \in Nat /\ d \in Nat /\ ~(c < d)
        BY <1>1, <2>5, ConnectionsAssumption
      <3>. QED  BY <2>1, <2>5, <3>1 DEF WritesInv, Prefers
    <2>7. \A e \in Conns : end[n][e] = "up" => dialler[e] = n \/ dialler[e] = Other(n)
      <3>. TAKE e \in Conns
      <3>1. end[n][e] = "up" => dialler[e] \in Nodes
        BY <1>0 DEF Used, TypeOK
      <3>. QED  BY <3>1, Others
    <2>8. dialler[d] = Other(n) /\ (dialler[c] = n \/ dialler[c] = Other(n))
      BY <1>1, <2>2, <2>5, <2>6, <2>7
    <2>9. CASE dialler[c] = n
      BY <1>3, <2>5, <2>8, <2>9 DEF Moved, TakesPreferred
    <2>10. CASE dialler[c] = Other(n)
      <3>1. end[Other(n)][d] \notin {"dialling", "up"}
        BY <1>0, <1>1, <2>5, <2>8, <2>10 DEF WritesInv, RolesInv, DialsOnce
      <3>2. end[Other(n)][d] # "accepting"
        BY <1>0, <2>5, <2>8 DEF WritesInv, RolesInv, Roles
      <3>3. end' = end
        BY <1>3 DEF TakesPreferred
      <3>. QED  BY <3>1, <3>2, <3>3 DEF Open
    <2>. QED  BY <2>8, <2>9, <2>10
  <1>4. CASE Connects(n)
    BY <1>0, <1>4, UsesKept DEF Connects, Writes, WritesInv, DialsAlone
  <1>. QED  BY <1>0, <1>2, <1>3, <1>4, SendSteps DEF Dials, Writes, GivesUp

---------------------------------------------------------------------------
(* How messages travel                                                     *)

\* A stream goes on without a new message.
NothingNew(o, d) ==
    \/ stream'[o][d] = stream[o][d]
    \/ stream[o][d] # <<>> /\ stream'[o][d] = Tail(stream[o][d])
    \/ stream'[o][d] = <<>>
    \/ \E f \in Control : stream'[o][d] \in {<<f>>, stream[o][d] \o <<f>>}

\* A message is put behind the others on a connection that is open.
Arrives(o, d) ==
    /\ Writes(Other(o)) /\ d = writer[Other(o)].conn /\ Open(o, d)
    /\ stream'[o][d] = stream[o][d] \o <<Head(outbox[Other(o)])>>

Reads(o, d) ==
    /\ end[o][d] \in {"up", "dropped"} /\ stream[o][d] # <<>> /\ Head(stream[o][d]) \in Msgs
    /\ received'[o] = Append(received[o], Head(stream[o][d]))

LEMMA LeavingIsNothingNew ==
  ASSUME TypeOK, NEW n \in Nodes, NEW c \in Conns,
         CloseEnd(n, c) \/ DropEnd(n, c) \/ UNCHANGED endVars
  PROVE  \A o \in Nodes, d \in Conns : NothingNew(o, d)
  <1>. DEFINE put == Put(n, c, <<"EOF">>)
  <1>1. stream \in [Nodes -> [Conns -> Seq(Frames)]] /\ "EOF" \in Frames /\ "EOF" \in Control
    BY DEF TypeOK, Frames, Control
  <1>2. /\ put \in [Nodes -> [Conns -> Seq(Frames)]]
        /\ put[Other(n)][c] \in {stream[Other(n)][c], stream[Other(n)][c] \o <<"EOF">>}
    BY <1>1, PutStreams
  <1>3. \A o \in Nodes, d \in Conns : o = n \/ d # c => put[o][d] = stream[o][d]
    BY <1>1, PutElsewhere
  <1>4. Other(n) \in Nodes /\ \A o \in Nodes : o = n \/ o = Other(n)
    BY Others
  <1>. HIDE DEF put
  <1>5. ASSUME NEW o \in Nodes, NEW d \in Conns, stream'[o][d] = put[o][d]
        PROVE  NothingNew(o, d)
    <2>1. CASE o = n \/ d # c
      BY <1>3, <1>5, <2>1 DEF NothingNew
    <2>2. CASE o = Other(n) /\ d = c
      BY <1>1, <1>2, <1>5, <2>2 DEF NothingNew
    <2>. QED  BY <1>4, <2>1, <2>2
  <1>6. CASE CloseEnd(n, c)
    <2>1. stream' = [put EXCEPT ![n][c] = <<>>] /\ <<>> \in Seq(Frames)
      BY <1>6 DEF CloseEnd, put
    <2>2. \A o \in Nodes, d \in Conns : stream'[o][d] = IF o = n /\ d = c THEN <<>> ELSE put[o][d]
      BY <1>2, <2>1, OneStream
    <2>. QED  BY <1>5, <2>2 DEF NothingNew
  <1>7. CASE DropEnd(n, c)
    BY <1>5, <1>7 DEF DropEnd, put
  <1>8. CASE UNCHANGED endVars
    BY <1>8 DEF endVars, NothingNew
  <1>. QED  BY <1>6, <1>7, <1>8

LEMMA WriteArrives ==
  ASSUME EInv, Next, NEW n \in Nodes, Writes(n), NEW o \in Nodes, NEW d \in Conns
  PROVE  NothingNew(o, d) \/ Arrives(o, d)
  <1>. DEFINE c == writer[n].conn
              m == Head(outbox[n])
              put == Put(n, c, <<m>>)
  <1>1. /\ c \in Conns /\ m \in Frames /\ TypeOK
        /\ stream' = stream \/ stream' = put
    <2>1. m \in Msgs
      BY TakenMessage DEF EInv, Writes
    <2>. QED  BY <2>1 DEF Writes, Write, EInv, IInv, Frames
  <1>2. Other(n) \in Nodes /\ Other(Other(n)) = n /\ (o = n \/ o = Other(n))
    BY Others
  <1>3. put[Other(n)][c] = stream[Other(n)][c] \/ put[Other(n)][c] = stream[Other(n)][c] \o <<m>>
    BY <1>1, PutStreams
  <1>4. o = n \/ d # c => put[o][d] = stream[o][d]
    <2>. HIDE DEF c, m
    <2>1. TypeOK /\ c \in Conns /\ m \in Frames
      BY <1>1
    <2>. QED  BY <2>1, PutElsewhere
  <1>5. ~Open(Other(n), c) => put = stream
    BY DEF Put
  <1>. HIDE DEF put, m, c
  <1>6. CASE stream' = stream \/ put = stream
    BY <1>1, <1>6 DEF NothingNew
  <1>7. CASE stream' = put /\ (o = n \/ d # c)
    BY <1>4, <1>7 DEF NothingNew
  <1>8. CASE stream' = put /\ o = Other(n) /\ d = c /\ Open(Other(n), c)
    BY <1>2, <1>3, <1>8 DEF NothingNew, Arrives, m, c
  <1>. QED  BY <1>1, <1>2, <1>5, <1>6, <1>7, <1>8

LEMMA Travels ==
  ASSUME EInv, Next, NEW o \in Nodes, NEW d \in Conns
  PROVE  NothingNew(o, d) \/ Arrives(o, d)
  <1>0. TypeOK /\ IInv /\ stream \in StreamType
    BY EndTypes DEF EInv, IInv
  <1>1. ASSUME NEW n \in Nodes, UsePreferred(n) \/ DialRefused(n) \/ Drained(n)
        PROVE  NothingNew(o, d)
    BY <1>1 DEF UsePreferred, DialRefused, Drained, NothingNew, endVars
  <1>2. ASSUME NEW n \in Nodes, Dial(n)
        PROVE  NothingNew(o, d)
    <2>1. PICK c \in Conns : stream' = [stream EXCEPT ![Other(n)][c] = <<"HELLO">>]
      BY <1>2 DEF Dial
    <2>2. stream'[o][d] \in {stream[o][d], <<"HELLO">>} /\ "HELLO" \in Control
      BY <1>0, <2>1 DEF StreamType, Control
    <2>. QED  BY <2>2 DEF NothingNew
  <1>3. ASSUME NEW n \in Nodes, DialDone(n)
        PROVE  NothingNew(o, d)
    <2>1. /\ stream' = [stream EXCEPT ![n][writer[n].conn] = Tail(stream[n][writer[n].conn])]
          /\ stream[n][writer[n].conn] # <<>>
      BY <1>3 DEF DialDone, First
    <2>. QED  BY <1>0, <2>1 DEF StreamType, NothingNew
  <1>4. ASSUME NEW n \in Nodes, DialFails(n) \/ WriteFails(n) \/ AckRefused(n) \/ CancelSend(n)
        PROVE  NothingNew(o, d)
    <2>1. writer[n].conn \in Conns
      BY <1>0, <1>4 DEF DialFails, WriteFails, AckRefused, CancelSend, At, IInv, Writing
    <2>2. CloseEnd(n, writer[n].conn) \/ DropEnd(n, writer[n].conn) \/ UNCHANGED endVars
      BY <1>4 DEF DialFails, WriteFails, AckRefused, CancelSend
    <2>. QED  BY <1>0, <2>1, <2>2, LeavingIsNothingNew
  <1>5. ASSUME NEW n \in Nodes, Write(n)
        PROVE  NothingNew(o, d) \/ Arrives(o, d)
    <2>1. Writes(n)
      <3>1. writer[n].pc = "write"
        BY <1>5 DEF Write, At
      <3>2. Proceeds(n)
        BY <1>0, <1>5, WriteProceeds
      <3>3. writer'[n].pc # writer[n].pc /\ outbox' = outbox /\ outbox[n] # <<>>
        BY <1>5, <3>1, <3>2 DEF Proceeds, UsePreferred, DialDone, At
      <3>4. writer'[n].pc = "drain"
        BY <1>5, <3>1, <3>2 DEF Proceeds, UsePreferred, Dial, DialDone, At
      <3>5. writer[n].conn \in Conns
        BY <1>0, <3>1 DEF IInv, Writing
      <3>. QED  BY <1>5, <3>1, <3>3, <3>4, <3>5 DEF Writes, Write, faultVars
    <2>. QED  BY <2>1, WriteArrives
  <1>6. ASSUME NEW n \in Nodes, NEW c \in Conns, Accept(n, c)
        PROVE  NothingNew(o, d)
    <2>. DEFINE put == Put(n, c, <<"ACK">>)
    <2>1. "ACK" \in Control /\ "ACK" \in Frames /\ (o = n \/ o = Other(n))
      BY Others DEF Control, Frames
    <2>2. put \in [Nodes -> [Conns -> Seq(Frames)]]
          /\ put[Other(n)][c] \in {stream[Other(n)][c], stream[Other(n)][c] \o <<"ACK">>}
      BY <1>0, <2>1, PutStreams
    <2>3. \A x \in Nodes, e \in Conns : x = n \/ e # c => put[x][e] = stream[x][e]
      <3>1. "ACK" \in Frames /\ TypeOK
        BY <1>0, <2>1
      <3>. QED  BY <3>1, PutElsewhere
    <2>4. stream' = [put EXCEPT ![n][c] = Tail(put[n][c])] /\ stream[n][c] # <<>>
      BY <1>6 DEF Accept, First
    <2>. HIDE DEF put
    <2>5. stream'[o][d] = IF o = n /\ d = c THEN Tail(stream[n][c]) ELSE put[o][d]
      BY <2>2, <2>3, <2>4
    <2>6. CASE o = n /\ d = c
      BY <2>4, <2>5, <2>6 DEF NothingNew
    <2>7. CASE d # c \/ o = n
      BY <2>3, <2>5, <2>6, <2>7 DEF NothingNew
    <2>8. CASE o = Other(n) /\ d = c /\ o # n
      BY <2>1, <2>2, <2>5, <2>8 DEF NothingNew
    <2>. QED  BY <2>1, <2>6, <2>7, <2>8
  <1>7. ASSUME NEW n \in Nodes, NEW c \in Conns, AcceptFails(n, c) \/ HelloRefused(n, c) \/ ReadEnds(n, c)
        PROVE  NothingNew(o, d)
    BY <1>0, <1>7, LeavingIsNothingNew DEF AcceptFails, HelloRefused, ReadEnds
  <1>8. ASSUME NEW n \in Nodes, NEW c \in Conns, Read(n, c)
        PROVE  NothingNew(o, d)
    <2>1. stream' = [stream EXCEPT ![n][c] = Tail(stream[n][c])] /\ stream[n][c] # <<>>
      BY <1>8, ConnectionsAssumption DEF Read, First
    <2>. QED  BY <1>0, <2>1 DEF StreamType, NothingNew
  <1>9. ASSUME NEW c \in Conns, Reset(c)
        PROVE  NothingNew(o, d)
    <2>1. stream' = [n \in Nodes |-> [stream[n] EXCEPT ![c] = IF Open(n, c) THEN <<"RST">> ELSE @]]
      BY <1>9, Zenon DEF Reset
    <2>2. stream'[o][d] \in {stream[o][d], <<"RST">>} /\ "RST" \in Control
      BY <1>0, <2>1 DEF StreamType, Control
    <2>. QED  BY <2>2 DEF NothingNew
  <1>. QED  BY <1>1, <1>2, <1>3, <1>4, <1>5, <1>6, <1>7, <1>8, <1>9
            DEF Next, Runs, Writer, Receives, Listener, Reader, Faulty

LEMMA Receipts ==
  ASSUME EInv, Next, NEW o \in Nodes
  PROVE  received'[o] = received[o] \/ \E d \in Conns : Reads(o, d)
  <1>0. received \in [Nodes -> Seq(Msgs)]
    BY DEF EInv, IInv, TypeOK
  <1>1. ASSUME NEW n \in Nodes,
               \/ UsePreferred(n) \/ Dial(n) \/ DialDone(n) \/ DialFails(n) \/ Write(n) \/ Drained(n)
               \/ WriteFails(n) \/ DialRefused(n) \/ AckRefused(n) \/ CancelSend(n)
        PROVE  received' = received
    BY <1>1 DEF UsePreferred, Dial, DialDone, DialFails, Write, Drained, WriteFails, DialRefused, AckRefused, CancelSend
  <1>2. ASSUME NEW n \in Nodes, NEW c \in Conns,
               Accept(n, c) \/ AcceptFails(n, c) \/ HelloRefused(n, c) \/ ReadEnds(n, c)
        PROVE  received' = received
    BY <1>2 DEF Accept, AcceptFails, HelloRefused, ReadEnds
  <1>3. ASSUME NEW c \in Conns, Reset(c)
        PROVE  received' = received
    BY <1>3 DEF Reset
  <1>4. ASSUME NEW n \in Nodes, NEW c \in Conns, Read(n, c)
        PROVE  received'[o] = received[o] \/ Reads(o, c)
    <2>1. /\ received' = [received EXCEPT ![n] = Append(received[n], Head(stream[n][c]))]
          /\ end[n][c] \in {"up", "dropped"} /\ stream[n][c] # <<>> /\ Head(stream[n][c]) \in Msgs
      BY <1>4, ConnectionsAssumption DEF Read, First
    <2>2. CASE o = n
      BY <1>0, <2>1, <2>2 DEF Reads
    <2>3. CASE o # n
      BY <1>0, <2>1, <2>3
    <2>. QED  BY <2>2, <2>3
  <1>. QED  BY <1>1, <1>2, <1>3, <1>4 DEF Next, Runs, Writer, Receives, Listener, Reader, Faulty

---------------------------------------------------------------------------
(* Where a message may be                                                  *)

\* A message is nowhere before it is written, and then only on its connection.
Origin ==
    \A n \in Nodes : \A m \in ToSet(Outbox[n]) :
        /\ Contains(received[Other(n)], m) => via[m] # NoConn
        /\ \A d \in Conns : Contains(stream[Other(n)][d], m) => via[m] = d

\* How many messages of the outbox are written or over.
Gone(n) == Len(Outbox[n]) - Len(outbox[n])
Done(n) == IF writer[n].pc = "drain" THEN Gone(n) + 1 ELSE Gone(n)

Unwritten ==
    \A n \in Nodes : \A j \in 1 .. Len(Outbox[n]) : j > Done(n) => via[Outbox[n][j]] = NoConn

PlaceInv == WritesInv /\ Unwritten /\ Origin

LEMMA HeadPlace ==
  ASSUME EInv, NEW n \in Nodes, outbox[n] # <<>>
  PROVE  /\ Gone(n) + 1 \in 1 .. Len(Outbox[n])
         /\ Head(outbox[n]) = Outbox[n][Gone(n) + 1]
  <1>1. outbox[n] \in Seq(Msgs) /\ Outbox[n] \in Seq(Msgs)
    BY ConnectionsAssumption DEF EInv, IInv, TypeOK
  <1>2. /\ Len(outbox[n]) \in Nat \ {0} /\ Len(Outbox[n]) \in Nat
        /\ 1 \in 1 .. Len(outbox[n]) /\ Head(outbox[n]) = outbox[n][1]
    BY <1>1
  <1>3. /\ Len(Outbox[n]) - Len(outbox[n]) \in Nat
        /\ \A i \in 1 .. Len(outbox[n]) : outbox[n][i] = Outbox[n][i + (Len(Outbox[n]) - Len(outbox[n]))]
    BY DEF EInv, IInv, Queued
  <1>4. outbox[n][1] = Outbox[n][1 + (Len(Outbox[n]) - Len(outbox[n]))]
    BY <1>2, <1>3
  <1>5. 1 + (Len(Outbox[n]) - Len(outbox[n])) \in 1 .. Len(Outbox[n])
    BY <1>2, <1>3, Shift
  <1>6. 1 + (Len(Outbox[n]) - Len(outbox[n])) = (Len(Outbox[n]) - Len(outbox[n])) + 1
    BY <1>3
  <1>. QED  BY <1>2, <1>4, <1>5, <1>6 DEF Gone

LEMMA UnwrittenKept ==
  ASSUME EInv, Unwritten, Next
  PROVE  Unwritten'
  <1>. SUFFICES ASSUME NEW n \in Nodes, NEW j \in 1 .. Len(Outbox[n]), j > Done(n)'
                PROVE  via'[Outbox[n][j]] = NoConn
    BY DEF Unwritten
  <1>1. Outbox[n] \in Seq(Msgs) /\ outbox[n] \in Seq(Msgs) /\ TypeOK
    BY ConnectionsAssumption DEF EInv, IInv, TypeOK
  <1>2. Len(Outbox[n]) \in Nat /\ Len(outbox[n]) \in Nat /\ j \in Nat /\ Gone(n) \in Int
    BY <1>1 DEF Gone
  <1>3. Outbox[n][j] \in ToSet(Outbox[n]) /\ Outbox[n][j] \in Msgs
    BY <1>1 DEF ToSet
  <1>4. j > Done(n) => via[Outbox[n][j]] = NoConn
    BY DEF Unwritten
  <1>5. CASE Rests(n)
    BY <1>3, <1>4, <1>5 DEF Rests, Done, Gone
  <1>6. CASE TakesPreferred(n) \/ Connects(n) \/ (\E c \in Conns : Dials(n, c))
    BY <1>4, <1>6 DEF TakesPreferred, Connects, Dials, Done, Gone
  <1>7. CASE Writes(n)
    <2>. HIDE DEF Gone
    <2>1. Gone(n) + 1 \in 1 .. Len(Outbox[n]) /\ Head(outbox[n]) = Outbox[n][Gone(n) + 1]
      BY <1>7, HeadPlace DEF Writes
    <2>2. j > Gone(n) + 1 /\ j > Done(n)
      <3>1. Gone(n)' = Gone(n)
        BY <1>7 DEF Writes, Gone
      <3>2. Done(n)' = Gone(n) + 1 /\ Done(n) = Gone(n)
        BY <1>7, <3>1 DEF Writes, Done
      <3>. QED  BY <1>2, <3>2
    <2>3. j # Gone(n) + 1
      BY <2>1, <2>2
    <2>4. Outbox[n][j] # Outbox[n][Gone(n) + 1]
      BY <2>1, <2>3, ConnectionsAssumption
    <2>. QED  BY <1>1, <1>3, <1>4, <1>7, <2>1, <2>2, <2>4 DEF Writes, TypeOK
  <1>8. CASE GivesUp(n)
    <2>1. Len(outbox'[n]) = Len(outbox[n]) - 1
      BY <1>1, <1>8 DEF GivesUp
    <2>2. Gone(n)' = Gone(n) + 1
      BY <1>2, <2>1 DEF Gone
    <2>3. Done(n)' = Gone(n) + 1 /\ Done(n) \in {Gone(n), Gone(n) + 1}
      BY <1>8, <2>2 DEF GivesUp, Done
    <2>. HIDE DEF Gone, Done
    <2>4. j > Done(n)
      BY <1>2, <2>3
    <2>. QED  BY <1>4, <1>8, <2>4 DEF GivesUp
  <1>. QED  BY <1>5, <1>6, <1>7, <1>8, SendSteps

\* The message at the head of the outbox has not been written before.
LEMMA HeadUnwritten ==
  ASSUME EInv, Unwritten, NEW n \in Nodes, Writes(n)
  PROVE  Head(outbox[n]) \in ToSet(Outbox[n]) /\ via[Head(outbox[n])] = NoConn
  <1>1. outbox[n] # <<>> /\ writer[n].pc = "write"
    BY DEF Writes
  <1>2. Gone(n) + 1 \in 1 .. Len(Outbox[n]) /\ Head(outbox[n]) = Outbox[n][Gone(n) + 1]
    BY <1>1, HeadPlace
  <1>3. Done(n) = Gone(n) /\ Gone(n) \in Int
    <2>1. outbox[n] \in Seq(Msgs) /\ Outbox[n] \in Seq(Msgs)
      BY ConnectionsAssumption DEF EInv, IInv, TypeOK
    <2>2. Len(outbox[n]) \in Nat /\ Len(Outbox[n]) \in Nat
      BY <2>1
    <2>. QED  BY <1>1, <2>2 DEF Done, Gone
  <1>4. via[Outbox[n][Gone(n) + 1]] = NoConn
    <2>. HIDE DEF Gone, Done
    <2>1. Gone(n) + 1 > Done(n)
      BY <1>3
    <2>. QED  BY <1>2, <2>1 DEF Unwritten
  <1>5. Head(outbox[n]) \in ToSet(Outbox[n])
    BY <1>1, TakenMessage DEF EInv
  <1>. QED  BY <1>2, <1>4, <1>5

\* What a step does to the messages on a stream.
LEMMA Carried ==
  ASSUME EInv, Next, NEW o \in Nodes, NEW d \in Conns, NEW m \in Msgs, Contains(stream'[o][d], m)
  PROVE  Contains(stream[o][d], m) \/ (Arrives(o, d) /\ m = Head(outbox[Other(o)]))
  <1>. DEFINE s == stream[o][d]
              t == stream'[o][d]
  <1>0. s \in Seq(Frames) /\ t \in Seq(Frames)
    BY EndTypes, Step DEF EInv, IInv, StreamType, EndsMove
  <1>1. PICK i \in 1 .. Len(t) : t[i] = m
    BY DEF Contains
  <1>2. m \notin Control /\ m \in Frames
    BY ConnectionsAssumption DEF Frames
  <1>3. ASSUME NEW f \in Frames, t = s \o <<f>>
        PROVE  Contains(s, m) \/ m = f
    <2>. HIDE DEF s, t
    <2>1. Len(t) = Len(s) + 1 /\ Len(s) \in Nat
      BY <1>0, <1>3
    <2>2. t[i] = IF i <= Len(s) THEN s[i] ELSE f
      BY <1>0, <1>3, <2>1
    <2>. QED  BY <1>1, <2>1, <2>2 DEF Contains
  <1>4. ASSUME t = s
        PROVE  Contains(s, m)
    BY <1>1, <1>4 DEF Contains
  <1>5. ASSUME s # <<>>, t = Tail(s)
        PROVE  Contains(s, m)
    <2>. HIDE DEF s, t
    <2>1. Len(t) = Len(s) - 1 /\ Len(s) \in Nat
      BY <1>0, <1>5
    <2>2. i + 1 \in 1 .. Len(s) /\ t[i] = s[i + 1]
      BY <1>0, <1>5, <2>1
    <2>. QED  BY <1>1, <2>2 DEF Contains
  <1>6. t # <<>>
    BY <1>1
  <1>7. ASSUME NEW f \in Control, t = <<f>>
        PROVE  FALSE
    BY <1>1, <1>2, <1>7
  <1>8. ASSUME NEW f \in Control, t = s \o <<f>>
        PROVE  Contains(s, m)
    BY <1>2, <1>3, <1>8 DEF Frames
  <1>9. ASSUME Arrives(o, d)
        PROVE  Contains(s, m) \/ m = Head(outbox[Other(o)])
    <2>1. Head(outbox[Other(o)]) \in Frames
      BY <1>9, Others, TakenMessage DEF Arrives, Writes, EInv, Frames
    <2>. QED  BY <1>3, <1>9, <2>1 DEF Arrives
  <1>10. NothingNew(o, d) \/ Arrives(o, d)
    BY Travels
  <1>. HIDE DEF s, t
  <1>11. ASSUME NothingNew(o, d)
         PROVE  Contains(s, m)
    <2>1. t = s \/ (s # <<>> /\ t = Tail(s)) \/ \E f \in Control : t = <<f>> \/ t = s \o <<f>>
      BY <1>6, <1>11 DEF NothingNew, s, t
    <2>. QED  BY <1>4, <1>5, <1>7, <1>8, <2>1
  <1>. QED  BY <1>9, <1>10, <1>11 DEF s

\* What a step does to the messages a node has received.
LEMMA Received ==
  ASSUME EInv, Next, NEW o \in Nodes, NEW m \in Msgs, Contains(received'[o], m)
  PROVE  \/ Contains(received[o], m)
         \/ \E d \in Conns : Reads(o, d) /\ Head(stream[o][d]) = m /\ Contains(stream[o][d], m)
  <1>1. CASE received'[o] = received[o]
    BY <1>1 DEF Contains
  <1>2. ASSUME NEW d \in Conns, Reads(o, d)
        PROVE  Contains(received[o], m) \/ (Head(stream[o][d]) = m /\ Contains(stream[o][d], m))
    <2>. DEFINE f == Head(stream[o][d])
                r == received[o]
    <2>1. r \in Seq(Msgs) /\ f \in Msgs /\ received'[o] = Append(r, f)
      BY <1>2 DEF EInv, IInv, TypeOK, Reads
    <2>2. stream[o][d] \in Seq(Frames) /\ stream[o][d] # <<>>
      BY <1>2, EndTypes DEF EInv, IInv, StreamType, Reads
    <2>3. 1 \in 1 .. Len(stream[o][d]) /\ stream[o][d][1] = f
      BY <2>2
    <2>4. PICK i \in 1 .. Len(received'[o]) : received'[o][i] = m
      BY DEF Contains
    <2>. HIDE DEF f, r
    <2>5. Len(received'[o]) = Len(r) + 1 /\ Len(r) \in Nat /\ received'[o][i] = IF i <= Len(r) THEN r[i] ELSE f
      BY <2>1, <2>4
    <2>6. Contains(r, m) \/ f = m
      BY <2>4, <2>5 DEF Contains
    <2>. QED  BY <2>3, <2>6 DEF Contains, f, r
  <1>. QED  BY <1>1, <1>2, Receipts

LEMMA OriginKept ==
  ASSUME PlaceInv, Next
  PROVE  Origin'
  <1>. SUFFICES ASSUME NEW n \in Nodes, NEW m \in ToSet(Outbox[n])
                PROVE  /\ Contains(received'[Other(n)], m) => via'[m] # NoConn
                       /\ \A d \in Conns : Contains(stream'[Other(n)][d], m) => via'[m] = d
    BY DEF Origin
  <1>. DEFINE o == Other(n)
  <1>0. /\ EInv /\ o \in Nodes /\ Other(o) = n /\ m \in Msgs /\ NoConn \notin Conns
    BY Others, ConnectionsAssumption DEF PlaceInv, WritesInv, RolesInv, ToSet, NoConn
  <1>1. via'[m] = via[m] \/ (Writes(n) /\ via[m] = NoConn /\ m = Head(outbox[n]) /\ via'[m] = writer[n].conn)
    BY <1>0, ViaKept, HeadUnwritten DEF PlaceInv
  <1>2. /\ Contains(received[o], m) => via[m] # NoConn
        /\ \A d \in Conns : Contains(stream[o][d], m) => via[m] = d
    BY DEF PlaceInv, Origin
  <1>3. ASSUME Contains(received'[o], m)
        PROVE  via'[m] # NoConn
    <2>1. via[m] # NoConn
      BY <1>0, <1>2, <1>3, Received
    <2>. QED  BY <1>0, <1>1, <2>1 DEF Writes
  <1>4. ASSUME NEW d \in Conns, Contains(stream'[o][d], m)
        PROVE  via'[m] = d
    <2>1. CASE Contains(stream[o][d], m)
      BY <1>0, <1>1, <1>2, <2>1
    <2>2. CASE Arrives(o, d) /\ m = Head(outbox[Other(o)])
      <3>1. Writes(n) /\ m = Head(outbox[n]) /\ d = writer[n].conn
        BY <1>0, <2>2 DEF Arrives
      <3>. QED  BY <1>0, <3>1 DEF Writes, EInv, IInv, TypeOK
    <2>. QED  BY <1>0, <1>4, <2>1, <2>2, Carried
  <1>. QED  BY <1>3, <1>4

---------------------------------------------------------------------------
(* The order of two messages                                               *)

Nowhere(n, m) ==
    /\ ~Contains(received[Other(n)], m)
    /\ \A d \in Conns : ~Contains(stream[Other(n)][d], m)

Before(s, l, m) == \E k \in 1 .. l - 1 : s[k] = m

\* On the connection of a, b is behind a: received only after it, and read after it.
Behind(n, a, b) ==
    LET got == received[Other(n)]
        line == stream[Other(n)][via[a]] IN
    /\ Contains(got, b) => \E l \in 1 .. Len(got) : got[l] = b /\ Before(got, l, a)
    /\ \A l \in 1 .. Len(line) : line[l] = b => Contains(got, a) \/ Before(line, l, a)

\* Two messages of a node, the first on a connection that no fault has struck.
Pair(n, a, b) ==
    via[a] # NoConn /\ via[b] # NoConn /\ via[a] \notin hit =>
        \/ Nowhere(n, b)
        \/ via[a] = via[b] /\ Behind(n, a, b)
        \/ Moved(n, via[a], via[b])

Pairs ==
    \A n \in Nodes : \A j \in 1 .. Len(Outbox[n]) : \A i \in 1 .. j - 1 :
        Pair(n, Outbox[n][i], Outbox[n][j])

OrderInv == PlaceInv /\ Pairs

\* What the other node never sees stays unseen, once it is written.
LEMMA NowhereKept ==
  ASSUME PlaceInv, Next, NEW n \in Nodes, NEW m \in ToSet(Outbox[n]), Nowhere(n, m),
         via[m] # NoConn \/ ~Open(Other(n), writer[n].conn)
  PROVE  Nowhere(n, m)'
  <1>. DEFINE o == Other(n)
  <1>0. EInv /\ m \in Msgs /\ o \in Nodes /\ Other(o) = n
    BY Others, ConnectionsAssumption DEF PlaceInv, WritesInv, RolesInv, ToSet
  <1>1. ~Contains(received[o], m) /\ \A d \in Conns : ~Contains(stream[o][d], m)
    BY DEF Nowhere
  <1>. HIDE DEF o
  <1>2. ~Contains(received'[o], m)
    BY <1>0, <1>1, Received
  <1>3. ASSUME NEW d \in Conns, Contains(stream'[o][d], m)
        PROVE  FALSE
    <2>1. Writes(n) /\ m = Head(outbox[n]) /\ Open(o, writer[n].conn)
      BY <1>0, <1>1, <1>3, Carried DEF Arrives
    <2>2. via[m] = NoConn
      BY <1>0, <2>1, HeadUnwritten DEF PlaceInv
    <2>. QED  BY <2>1, <2>2 DEF o
  <1>. QED  BY <1>2, <1>3 DEF Nowhere, o

\* Behind stays behind.
LEMMA BehindKept ==
  ASSUME PlaceInv, Next, NEW n \in Nodes, NEW a \in ToSet(Outbox[n]), NEW b \in ToSet(Outbox[n]), a # b,
         via[a] # NoConn, via'[a] = via[a], via[a] \notin hit', Behind(n, a, b),
         \A d \in Conns : Contains(stream[Other(n)][d], b) => d = via[a]
  PROVE  Behind(n, a, b)'
  <1>. DEFINE o == Other(n)
              c == via[a]
              got == received[o]
              line == stream[o][c]
  <1>0. EInv /\ a \in Msgs /\ b \in Msgs /\ o \in Nodes /\ Written
    BY Others, ConnectionsAssumption DEF PlaceInv, WritesInv, RolesInv, ToSet
  <1>1. c \in Conns /\ c \notin hit /\ (Contains(got, a) \/ Contains(line, a))
    <2>1. Delivered(n, a) /\ c \in Conns
      BY <1>0 DEF Written, Delivered
    <2>2. c \notin hit
      BY <1>0, <2>1, Step DEF EInv
    <2>. QED  BY <2>1, <2>2 DEF Delivered
  <1>2. got \in Seq(Msgs) /\ received'[o] \in Seq(Msgs) /\ line \in Seq(Frames)
    <2>1. got \in Seq(Msgs) /\ line \in Seq(Frames)
      BY <1>0, <1>1, EndTypes DEF EInv, IInv, TypeOK, StreamType
    <2>2. received' \in [Nodes -> Seq(Msgs)]
      BY <1>0, Histories DEF EInv
    <2>. QED  BY <1>0, <2>1, <2>2
  <1>3. /\ Contains(got, b) => \E l \in 1 .. Len(got) : got[l] = b /\ Before(got, l, a)
        /\ \A l \in 1 .. Len(line) : line[l] = b => Contains(got, a) \/ Before(line, l, a)
    BY DEF Behind
  <1>4. /\ received'[o] = got \/ \E f \in Msgs : received'[o] = Append(got, f)
        /\ Contains(got, a) => Contains(received'[o], a)
    <2>1. Contains(got, a) => Contains(received'[o], a)
      BY <1>0, Histories DEF EInv
    <2>. QED  BY <1>0, <2>1, Receipts DEF Reads
  <1>5. ASSUME Contains(received'[o], b)
        PROVE  \E l \in 1 .. Len(received'[o]) : received'[o][l] = b /\ Before(received'[o], l, a)
    <2>1. CASE Contains(got, b)
      <3>1. PICK l \in 1 .. Len(got) : got[l] = b /\ Before(got, l, a)
        BY <1>3, <2>1
      <3>. HIDE DEF got
      <3>2. PICK k \in 1 .. l - 1 : got[k] = a
        BY <3>1 DEF Before
      <3>3. Len(got) <= Len(received'[o]) /\ \A x \in 1 .. Len(got) : received'[o][x] = got[x]
        <4>1. CASE received'[o] = got
          BY <1>2, <4>1
        <4>2. ASSUME NEW f \in Msgs, received'[o] = Append(got, f)
              PROVE  Len(received'[o]) = Len(got) + 1 /\ \A x \in 1 .. Len(got) : received'[o][x] = got[x]
          BY <1>2, <4>2
        <4>3. Len(got) \in Nat
          BY <1>2
        <4>. QED  BY <1>4, <4>1, <4>2, <4>3
      <3>4. Len(got) \in Nat /\ Len(received'[o]) \in Nat
        BY <1>2
      <3>5. l \in 1 .. Len(received'[o]) /\ k \in 1 .. Len(got)
        BY <3>1, <3>2, <3>3, <3>4
      <3>. QED  BY <3>1, <3>2, <3>3, <3>5 DEF Before
    <2>2. ASSUME NEW d \in Conns, Reads(o, d), Head(stream[o][d]) = b, Contains(stream[o][d], b)
          PROVE  \E l \in 1 .. Len(received'[o]) : received'[o][l] = b /\ Before(received'[o], l, a)
      <3>1. d = c /\ line # <<>> /\ Head(line) = b /\ received'[o] = Append(got, b)
        BY <2>2 DEF Reads
      <3>. HIDE DEF got, line, o, c
      <3>2. 1 \in 1 .. Len(line) /\ line[1] = b
        BY <1>2, <3>1
      <3>3. ~Before(line, 1, a)
        BY DEF Before
      <3>4. Contains(got, a)
        BY <1>3, <3>2, <3>3
      <3>5. PICK k \in 1 .. Len(got) : got[k] = a
        BY <3>4 DEF Contains
      <3>6. /\ Len(received'[o]) = Len(got) + 1 /\ Len(got) \in Nat
            /\ received'[o][Len(got) + 1] = b /\ received'[o][k] = a
        BY <1>0, <1>2, <3>1, <3>5
      <3>. QED  BY <3>6 DEF Before
    <2>. QED  BY <1>0, <1>5, <2>1, <2>2, Received
  <1>6. ASSUME NEW l \in 1 .. Len(stream'[o][c]), stream'[o][c][l] = b
        PROVE  Contains(received'[o], a) \/ Before(stream'[o][c], l, a)
    <2>. DEFINE next == stream'[o][c]
    <2>0. Moves(o, c) /\ end[o][c] # "none"
      <3>1. end[n][c] = "up"
        BY <1>0, <1>1 DEF Written
      <3>. QED  BY <1>0, <1>1, <3>1, Step DEF EndsMove, EInv, IInv, Used
    <2>. HIDE DEF got, line, o, c, next
    <2>1. CASE next = line
      <3>1. Contains(got, a) \/ Before(line, l, a)
        BY <1>3, <1>6, <2>1 DEF next
      <3>. QED  BY <1>4, <2>1, <3>1 DEF Before, next
    <2>2. ASSUME NEW f \in Frames, next = line \o <<f>>
          PROVE  Contains(received'[o], a) \/ Before(next, l, a)
      <3>1. /\ Len(next) = Len(line) + 1 /\ Len(line) \in Nat
            /\ \A k \in 1 .. Len(line) : next[k] = line[k]
        BY <1>2, <2>2
      <3>2. CASE l \in 1 .. Len(line)
        <4>1. Contains(got, a) \/ Before(line, l, a)
          BY <1>3, <1>6, <3>1, <3>2 DEF next
        <4>2. Before(line, l, a) => Before(next, l, a)
          BY <3>1, <3>2 DEF Before
        <4>. QED  BY <1>4, <4>1, <4>2
      <3>3. CASE l = Len(line) + 1
        <4>1. Contains(line, a) => Before(next, l, a)
          BY <3>1, <3>3 DEF Contains, Before
        <4>. QED  BY <1>1, <1>4, <4>1
      <3>. QED  BY <1>6, <3>1, <3>2, <3>3 DEF next
    <2>3. ASSUME line # <<>>, next = Tail(line),
                 Head(line) = a => Contains(received'[o], a)
          PROVE  Contains(received'[o], a) \/ Before(next, l, a)
      <3>1. /\ Len(line) = Len(next) + 1 /\ Len(next) \in Nat
            /\ \A k \in 1 .. Len(next) : next[k] = line[k + 1]
            /\ line[1] = Head(line)
        BY <1>2, <2>3
      <3>2. l \in 1 .. Len(next)
        BY <1>6 DEF next
      <3>3. l + 1 \in 1 .. Len(line) /\ line[l + 1] = b
        BY <1>6, <3>1, <3>2 DEF next
      <3>4. CASE Before(line, l + 1, a)
        <4>1. PICK k \in 1 .. l : line[k] = a
          BY <3>2, <3>4 DEF Before
        <4>2. CASE k = 1
          BY <2>3, <3>1, <4>1, <4>2
        <4>3. CASE k # 1
          <5>1. k - 1 \in 1 .. l - 1 /\ k - 1 \in 1 .. Len(next) /\ (k - 1) + 1 = k
            BY <3>1, <3>2, <4>1, <4>3
          <5>2. next[k - 1] = a
            BY <3>1, <4>1, <5>1
          <5>. QED  BY <5>1, <5>2 DEF Before
        <4>. QED  BY <4>2, <4>3
      <3>. QED  BY <1>3, <1>4, <3>3, <3>4
    <2>4. CASE /\ stream[o][c] # <<>> /\ Head(stream[o][c]) \in {"HELLO", "ACK"}
               /\ stream'[o][c] = Tail(stream[o][c])
      <3>1. Head(line) # a
        BY <1>0, <2>4, ConnectionsAssumption DEF line, Control
      <3>. QED  BY <2>3, <2>4, <3>1 DEF line, next
    <2>5. CASE /\ stream[o][c] # <<>> /\ stream'[o][c] = Tail(stream[o][c])
               /\ Head(stream[o][c]) \in Msgs /\ received'[o] = Append(received[o], Head(stream[o][c]))
      <3>1. ASSUME Head(line) = a
            PROVE  Contains(received'[o], a)
        <4>1. received'[o] = Append(got, a)
          BY <2>5, <3>1 DEF line, got
        <4>2. Len(got) + 1 \in 1 .. Len(received'[o]) /\ received'[o][Len(got) + 1] = a
          BY <1>0, <1>2, <4>1
        <4>. QED  BY <4>2 DEF Contains
      <3>. QED  BY <2>3, <2>5, <3>1 DEF line, next
    <2>6. CASE \E f \in Msgs \cup {"ACK"} : stream'[o][c] = stream[o][c] \o <<f>>
      <3>1. PICK f \in Frames : next = line \o <<f>>
        BY <2>6 DEF Frames, Control, line, next
      <3>. QED  BY <2>2, <3>1 DEF next
    <2>. QED  BY <2>0, <2>1, <2>4, <2>5, <2>6 DEF Moves, line, next
  <1>. QED  BY <1>5, <1>6 DEF Behind

LEMMA PairKept ==
  ASSUME OrderInv, Next, NEW n \in Nodes, NEW j \in 1 .. Len(Outbox[n]), NEW i \in 1 .. j - 1,
         NEW a, a = Outbox[n][i], NEW b, b = Outbox[n][j]
  PROVE  Pair(n, a, b)'
  <1>. SUFFICES ASSUME via'[a] # NoConn, via'[b] # NoConn, via'[a] \notin hit'
                PROVE  \/ Nowhere(n, b)'
                       \/ via'[a] = via'[b] /\ Behind(n, a, b)'
                       \/ Moved(n, via[a], via[b])'
    BY DEF Pair
  <1>0. PlaceInv /\ EInv /\ WritesInv /\ TypeOK
    BY DEF OrderInv, PlaceInv, WritesInv, RolesInv, EInv, IInv
  <1>1. Outbox[n] \in Seq(Msgs) /\ i \in 1 .. Len(Outbox[n]) /\ i < j
    <2>1. Outbox[n] \in Seq(Msgs)
      BY ConnectionsAssumption
    <2>2. Len(Outbox[n]) \in Nat
      BY <2>1
    <2>. QED  BY <2>1, <2>2
  <1>2. /\ a \in ToSet(Outbox[n]) /\ b \in ToSet(Outbox[n]) /\ a \in Msgs /\ b \in Msgs
        /\ a # b
    <2>1. a \in ToSet(Outbox[n]) /\ b \in ToSet(Outbox[n]) /\ a \in Msgs /\ b \in Msgs
      BY <1>1 DEF ToSet
    <2>2. i # j
      BY <1>1
    <2>. QED  BY <1>1, <2>1, <2>2, ConnectionsAssumption
  <1>3. via'[a] = via[a]
    <2>1. ASSUME Writes(n), a = Head(outbox[n])
          PROVE  via'[b] = NoConn
      <3>1. Gone(n) + 1 \in 1 .. Len(Outbox[n]) /\ a = Outbox[n][Gone(n) + 1]
        BY <1>0, <2>1, HeadPlace DEF Writes
      <3>2. i = Gone(n) + 1
        BY <1>1, <3>1, ConnectionsAssumption
      <3>3. Done(n) = Gone(n) /\ Gone(n) \in Int
        <4>1. outbox[n] \in Seq(Msgs)
          BY <1>0 DEF TypeOK
        <4>2. Len(outbox[n]) \in Nat /\ Len(Outbox[n]) \in Nat
          BY <1>1, <4>1
        <4>. QED  BY <2>1, <4>2 DEF Writes, Done, Gone
      <3>. HIDE DEF Gone, Done
      <3>4. j > Done(n)
        BY <1>1, <3>2, <3>3
      <3>5. via[b] = NoConn
        BY <1>0, <3>4 DEF PlaceInv, Unwritten
      <3>. QED  BY <1>0, <1>2, <2>1, <3>5 DEF Writes, TypeOK
    <2>. QED  BY <1>0, <1>2, <2>1, ViaKept
  <1>4. via[a] \notin hit /\ via[a] \in Conns
    <2>1. via[a] \in Conns
      BY <1>0, <1>2, <1>3 DEF WritesInv, Written, Delivered
    <2>. QED  BY <1>0, <1>3, <2>1, Step DEF EInv
  <1>5. CASE via'[b] = via[b]
    <2>1. \/ Nowhere(n, b)
          \/ via[a] = via[b] /\ Behind(n, a, b)
          \/ Moved(n, via[a], via[b])
      BY <1>3, <1>4, <1>5 DEF OrderInv, Pairs, Pair
    <2>2. CASE Nowhere(n, b)
      BY <1>0, <1>2, <1>5, <2>2, NowhereKept
    <2>3. CASE via[a] = via[b] /\ Behind(n, a, b)
      <3>1. \A d \in Conns : Contains(stream[Other(n)][d], b) => d = via[a]
        BY <1>0, <1>2, <2>3 DEF PlaceInv, Origin
      <3>2. Behind(n, a, b)'
        BY <1>0, <1>2, <1>3, <2>3, <3>1, BehindKept
      <3>. QED  BY <1>3, <1>5, <2>3, <3>2
    <2>4. CASE Moved(n, via[a], via[b])
      <3>1. via[b] \in Conns
        BY <1>0, <1>2, <1>5 DEF WritesInv, Written, Delivered
      <3>2. dialler[via[b]] # Nobody
        BY <2>4, Others, ConnectionsAssumption DEF Moved, Nobody
      <3>3. \A c, d \in Conns : c = via[a] /\ d = via[b] => Moved(n, c, d)'
        BY <1>0, <2>4, <3>2, SwitchStays DEF Moved
      <3>. QED  BY <1>3, <1>4, <1>5, <3>1, <3>3 DEF Moved
    <2>. QED  BY <2>1, <2>2, <2>3, <2>4
  <1>6. CASE Writes(n) /\ b = Head(outbox[n]) /\ via'[b] = writer[n].conn
    <2>. DEFINE d == writer[n].conn
    <2>1. via[b] = NoConn /\ d \in Conns /\ writer[n].pc = "write"
      BY <1>0, <1>6, HeadUnwritten DEF PlaceInv, Writes
    <2>2. Nowhere(n, b)
      BY <1>0, <1>2, <2>1, ConnectionsAssumption DEF PlaceInv, Origin, Nowhere, NoConn
    <2>3. CASE via[a] = d
      <3>1. Behind(n, a, b)
        <4>1. ~Contains(received[Other(n)], b) /\ ~Contains(stream[Other(n)][via[a]], b)
          BY <1>4, <2>2 DEF Nowhere
        <4>. QED  BY <4>1 DEF Behind, Contains
      <3>2. Behind(n, a, b)'
        BY <1>0, <1>2, <1>3, <2>2, <3>1, BehindKept DEF Nowhere
      <3>. QED  BY <1>3, <1>6, <2>3, <3>2
    <2>4. CASE via[a] # d
      <3>1. via[a] \in Uses(n)
        BY <1>2, <1>4 DEF Uses
      <3>2. Moved(n, via[a], d) \/ ~Open(Other(n), d)
        BY <1>0, <2>1, <2>4, <3>1 DEF WritesInv, Switches
      <3>3. CASE Moved(n, via[a], d)
        BY <1>3, <1>6, <3>3 DEF Moved, Writes
      <3>4. CASE ~Open(Other(n), d)
        BY <1>0, <1>2, <2>2, <3>4, NowhereKept
      <3>. QED  BY <3>2, <3>3, <3>4
    <2>. QED  BY <2>3, <2>4
  <1>. QED  BY <1>0, <1>2, <1>5, <1>6, ViaKept

LEMMA PairsKept ==
  ASSUME OrderInv, Next
  PROVE  Pairs'
  <1>. SUFFICES ASSUME NEW n \in Nodes, NEW j \in 1 .. Len(Outbox[n]), NEW i \in 1 .. j - 1
                PROVE  Pair(n, Outbox[n][i], Outbox[n][j])'
    BY DEF Pairs
  <1>. DEFINE a == Outbox[n][i]
              b == Outbox[n][j]
  <1>1. Pair(n, a, b)'
    BY PairKept
  <1>. QED  BY <1>1

---------------------------------------------------------------------------
(* The theorem                                                             *)

LEMMA OrderStarts == Init => OrderInv
  <1>. SUFFICES ASSUME Init
                PROVE  OrderInv
    OBVIOUS
  <1>1. EInv
    BY Initially DEF EInv, WriterEnds, Init, Idle
  <1>2. /\ \A n \in Nodes : writer[n].pc = "idle" /\ received[n] = <<>> /\ Len(outbox[n]) = Len(Outbox[n])
        /\ \A n \in Nodes, c \in Conns : end[n][c] = "none" /\ stream[n][c] = <<>>
        /\ \A c \in Conns : dialler[c] = Nobody
        /\ \A m \in Msgs : via[m] = NoConn
    BY DEF Init, Idle
  <1>3. \A n \in Nodes : ToSet(Outbox[n]) \subseteq Msgs /\ Other(n) \in Nodes /\ Len(Outbox[n]) \in Nat
    BY ConnectionsAssumption, Others DEF ToSet
  <1>4. RolesInv
    BY <1>1, <1>2 DEF RolesInv, Roles, DialsOnce
  <1>5. WritesInv
    BY <1>2, <1>3, <1>4 DEF WritesInv, Written, DialsAlone, Prefers, Switches
  <1>6. Unwritten
    <2>. SUFFICES ASSUME NEW n \in Nodes, NEW j \in 1 .. Len(Outbox[n])
                  PROVE  via[Outbox[n][j]] = NoConn
      BY DEF Unwritten
    <2>1. Outbox[n][j] \in Msgs
      BY ConnectionsAssumption
    <2>. QED  BY <1>2, <2>1
  <1>7. Origin
    BY <1>2, <1>3 DEF Origin, Contains
  <1>8. Pairs
    <2>. SUFFICES ASSUME NEW n \in Nodes, NEW j \in 1 .. Len(Outbox[n]), NEW i \in 1 .. j - 1
                  PROVE  via[Outbox[n][j]] = NoConn
      BY DEF Pairs, Pair
    <2>1. Outbox[n][j] \in Msgs
      BY ConnectionsAssumption
    <2>. QED  BY <1>2, <2>1
  <1>. QED  BY <1>5, <1>6, <1>7, <1>8 DEF OrderInv, PlaceInv

LEMMA OrderKept == OrderInv /\ [Next]_vars => OrderInv'
  <1>1. ASSUME OrderInv, Next
        PROVE  OrderInv'
    <2>1. PlaceInv /\ WritesInv /\ RolesInv /\ EInv /\ IInv
      BY <1>1 DEF OrderInv, PlaceInv, WritesInv, RolesInv, EInv
    <2>2. EInv'
      BY <1>1, <2>1, Typed, UsedKept, CleanKept, WritingKept, QueuedKept, DeliveriesKept, WriterEndsKept
      DEF IInv, EInv
    <2>3. RolesInv'
      BY <1>1, <2>1, <2>2, RolesKept, DialsOnceKept DEF RolesInv
    <2>4. WritesInv'
      BY <1>1, <2>1, <2>3, WrittenKept, DialsAloneKept, PrefersKept, SwitchesKept DEF WritesInv
    <2>5. PlaceInv'
      BY <1>1, <2>1, <2>4, UnwrittenKept, OriginKept DEF PlaceInv
    <2>. QED  BY <1>1, <2>5, PairsKept DEF OrderInv
  <1>2. ASSUME OrderInv, UNCHANGED vars
        PROVE  OrderInv'
    <2>1. UNCHANGED <<dialler, end, stream, writer, outbox, outcome, received, via, hit, faults>>
      BY <1>2 DEF vars, endVars, sendVars, faultVars
    <2>2. EInv'
      BY <1>2, <2>1, Stutters DEF OrderInv, PlaceInv, WritesInv, RolesInv, EInv, WriterEnds
    <2>3. RolesInv'
      BY <1>2, <2>1, <2>2 DEF OrderInv, PlaceInv, WritesInv, RolesInv, Roles, DialsOnce
    <2>4. Written' /\ DialsAlone' /\ Prefers' /\ Switches'
      <3>1. Written'
        <4>1. \A n \in Nodes, m \in Msgs : Delivered(n, m)' = Delivered(n, m)
          BY <2>1 DEF Delivered, Open
        <4>2. \A n \in Nodes : ToSet(Outbox[n]) \subseteq Msgs
          BY ConnectionsAssumption DEF ToSet
        <4>. QED  BY <1>2, <2>1, <4>1, <4>2 DEF OrderInv, PlaceInv, WritesInv, Written
      <3>2. \A n \in Nodes : Uses(n)' = Uses(n) /\ Using(n)' = Using(n)
        BY <2>1 DEF Uses, Using
      <3>3. DialsAlone' /\ Prefers'
        BY <1>2, <2>1, <3>2 DEF OrderInv, PlaceInv, WritesInv, DialsAlone, Prefers
      <3>4. Switches'
        BY <1>2, <2>1, <3>2 DEF OrderInv, PlaceInv, WritesInv, Switches, Moved, Open
      <3>. QED  BY <3>1, <3>3, <3>4
    <2>5. Unwritten' /\ Origin'
      BY <1>2, <2>1 DEF OrderInv, PlaceInv, Unwritten, Origin, Done, Gone
    <2>6. Pairs'
      <3>1. ASSUME NEW n \in Nodes, NEW a, NEW b
            PROVE  Pair(n, a, b)' = Pair(n, a, b)
        <4>1. Nowhere(n, b)' = Nowhere(n, b) /\ Behind(n, a, b)' = Behind(n, a, b)
          BY <2>1 DEF Nowhere, Behind
        <4>2. \A c, d : Moved(n, c, d)' = Moved(n, c, d)
          BY <2>1 DEF Moved
        <4>. QED  BY <2>1, <4>1, <4>2 DEF Pair, Moved
      <3>. QED  BY <1>2, <3>1 DEF OrderInv, Pairs
    <2>. QED  BY <2>3, <2>4, <2>5, <2>6 DEF OrderInv, PlaceInv, WritesInv
  <1>. QED  BY <1>1, <1>2

\* What OvertakesOnSwitch says of two messages that have both arrived.
Ordered(n, a, b) ==
    \/ \E k, l \in 1 .. Len(received[Other(n)]) :
        k < l /\ received[Other(n)][k] = a /\ received[Other(n)][l] = b
    \/ via[a] \in hit
    \/ via[b] < via[a] /\ dialler[via[b]] = Other(n) /\ dialler[via[a]] = n

\* OvertakesOnSwitch of Connections: of two messages of one node that both arrive,
\* the later is received before the earlier only when a fault has struck the
\* connection of the earlier, or the writer has moved from the connection it dialled
\* to the one with a smaller identifier that the other node dialled (comm.py:504-657).
THEOREM OvertakesOnlyOnSwitch == Spec => []OvertakesOnSwitch
  <1>1. ASSUME OrderInv, NEW n \in Nodes, NEW j \in 1 .. Len(Outbox[n]), NEW i \in 1 .. j - 1,
               Contains(received[Other(n)], Outbox[n][i]), Contains(received[Other(n)], Outbox[n][j])
        PROVE  Ordered(n, Outbox[n][i], Outbox[n][j])
    <2>. DEFINE a == Outbox[n][i]
                b == Outbox[n][j]
                got == received[Other(n)]
    <2>. SUFFICES ASSUME via[a] \notin hit
                  PROVE  Ordered(n, a, b)
      BY DEF Ordered
    <2>0. received \in [Nodes -> Seq(Msgs)] /\ Other(n) \in Nodes
      BY <1>1, Others DEF OrderInv, PlaceInv, WritesInv, RolesInv, EInv, IInv, TypeOK
    <2>1. a \in ToSet(Outbox[n]) /\ b \in ToSet(Outbox[n])
      <3>1. Outbox[n] \in Seq(Msgs)
        BY ConnectionsAssumption
      <3>2. i \in 1 .. Len(Outbox[n])
        BY <3>1
      <3>. QED  BY <3>2 DEF ToSet
    <2>2. via[a] # NoConn /\ via[b] # NoConn
      BY <1>1, <2>1 DEF OrderInv, PlaceInv, Origin
    <2>3. Pair(n, a, b)
      BY <1>1 DEF OrderInv, Pairs
    <2>4. CASE Behind(n, a, b)
      <3>1. PICK l \in 1 .. Len(got) : got[l] = b /\ Before(got, l, a)
        BY <1>1, <2>4 DEF Behind
      <3>2. PICK k \in 1 .. l - 1 : got[k] = a
        BY <3>1 DEF Before
      <3>3. Len(got) \in Nat
        BY <2>0
      <3>4. k \in 1 .. Len(got) /\ k < l
        BY <3>1, <3>2, <3>3
      <3>. QED  BY <3>1, <3>2, <3>4 DEF Ordered
    <2>. QED  BY <1>1, <2>2, <2>3, <2>4 DEF Pair, Nowhere, Moved, Ordered
  <1>2. OrderInv => OvertakesOnSwitch
    BY <1>1 DEF OvertakesOnSwitch, Ordered
  <1>. QED  BY <1>2, OrderStarts, OrderKept, PTL DEF Spec

---------------------------------------------------------------------------
(* Where nothing moves, both nodes agree                                   *)

\* What lets the writer of a node, or its listener or a reader, go on.
WriterCan(n) ==
    \/ At(n, "idle") /\ outbox[n] # <<>> /\ (Registered(n) # {} \/ \E c \in Conns : dialler[c] = Nobody)
    \/ At(n, "dial") /\ First(n, writer[n].conn) \in {"ACK", "EOF", "RST"}
    \/ At(n, "write") \/ At(n, "drain")

ReceiverCan(n, c) ==
    \/ end[n][c] = "accepting" /\ First(n, c) \in {"HELLO", "EOF", "RST"}
    \/ end[n][c] = "up" /\ First(n, c) \in Msgs \cup {"EOF", "RST"}
    \/ end[n][c] = "dropped"

AtRest == \A n \in Nodes : ~WriterCan(n) /\ \A c \in Conns : ~ReceiverCan(n, c)

\* The bound on connections is not reached.
UnusedConn == \E c \in Conns : dialler[c] = Nobody

\* When no task can go on, both nodes have registered the same connections, no
\* dial is left half done and nothing is unread; a message waits only if the
\* identifiers have run out, and without a fault all have arrived.
RestIsAgreement ==
    AtRest =>
        /\ \A n \in Nodes : Registered(n) = Registered(Other(n)) /\ At(n, "idle")
        /\ \A n \in Nodes, c \in Conns : Open(n, c) => end[n][c] = "up" /\ stream[n][c] = <<>>
        /\ UnusedConn => \A n \in Nodes : outbox[n] = <<>>
        /\ UnusedConn /\ faults = 0 => AllArrive

\* What the readers of a node may find: messages of the other node, and ends.
Payload(n) == ToSet(Outbox[Other(n)]) \cup {"EOF", "RST"}

\* What the two ends of a connection know of each other: HELLO is answered by
\* ACK, messages follow, and who has left has said so.
EndOk(n, c) ==
    LET o == Other(n) IN
    /\ end[n][c] = "none" => end[o][c] = "none" /\ stream[n][c] = <<>>
    /\ end[n][c] = "accepting" =>
        /\ end[o][c] \in {"dialling", "closed"}
        /\ stream[n][c] \in {<<"HELLO">>, <<"HELLO", "EOF">>, <<"RST">>}
    /\ end[n][c] = "dialling" =>
        /\ end[o][c] \in {"accepting", "up", "dropped", "closed"}
        /\ end[o][c] = "accepting" => stream[n][c] \in {<<>>, <<"RST">>}
        /\ end[o][c] # "accepting" =>
            /\ stream[n][c] # <<>> /\ Head(stream[n][c]) \in {"ACK", "EOF", "RST"}
            /\ Tail(stream[n][c]) \in Seq(Payload(n))
    /\ end[n][c] = "up" => end[o][c] \in {"dialling", "up", "dropped", "closed"}
    /\ end[n][c] \in {"up", "dropped"} => stream[n][c] \in Seq(Payload(n))
    /\ Open(n, c) /\ end[o][c] \in {"dropped", "closed"} => Ended(n, c)

ConnOk(c) == \A n \in Nodes : EndOk(n, c)

---------------------------------------------------------------------------
(* What a step does to a connection, whether a fault has struck or not     *)

\* A frame is put on the connection, unless the other end is gone or told so.
Told(o, c, f) ==
    stream'[o][c] = IF Open(o, c) /\ ~Ended(o, c) THEN stream[o][c] \o <<f>> ELSE stream[o][c]

Still(c) == \A n \in Nodes : end'[n][c] = end[n][c] /\ stream'[n][c] = stream[n][c]

Begun(n, c) ==
    /\ end[n][c] = "none" /\ end'[n][c] = "dialling" /\ stream'[n][c] = stream[n][c]
    /\ end'[Other(n)][c] = "accepting" /\ stream'[Other(n)][c] = <<"HELLO">>

Accepted(n, c) ==
    /\ end[n][c] = "accepting" /\ stream[n][c] # <<>> /\ Head(stream[n][c]) = "HELLO"
    /\ end'[n][c] = "up" /\ stream'[n][c] = Tail(stream[n][c])
    /\ end'[Other(n)][c] = end[Other(n)][c] /\ Told(Other(n), c, "ACK")

Established(n, c) ==
    /\ end[n][c] = "dialling" /\ stream[n][c] # <<>> /\ Head(stream[n][c]) = "ACK"
    /\ end'[n][c] = "up" /\ stream'[n][c] = Tail(stream[n][c])
    /\ end'[Other(n)][c] = end[Other(n)][c] /\ stream'[Other(n)][c] = stream[Other(n)][c]

Filled(n, c) ==
    /\ end[n][c] = "up" /\ \A x \in Nodes : end'[x][c] = end[x][c]
    /\ stream'[n][c] = stream[n][c]
    /\ \E m \in ToSet(Outbox[n]) : Told(Other(n), c, m)

Emptied(n, c) ==
    /\ end[n][c] \in {"up", "dropped"} /\ \A x \in Nodes : end'[x][c] = end[x][c]
    /\ stream[n][c] # <<>> /\ Head(stream[n][c]) \notin {"EOF", "RST"}
    /\ stream'[n][c] = Tail(stream[n][c]) /\ stream'[Other(n)][c] = stream[Other(n)][c]

Quit(n, c) ==
    /\ end[n][c] # "none" /\ end'[Other(n)][c] = end[Other(n)][c]
    /\ Told(Other(n), c, "EOF")
    /\ \/ end'[n][c] = "closed"
       \/ end[n][c] = "up" /\ end'[n][c] = "dropped" /\ stream'[n][c] = stream[n][c]

Cut(c) ==
    \A n \in Nodes : end'[n][c] = end[n][c] /\ stream'[n][c] = IF Open(n, c) THEN <<"RST">> ELSE stream[n][c]

ConnSteps(c) ==
    \/ Still(c) \/ Cut(c)
    \/ \E n \in Nodes : \/ Begun(n, c) \/ Accepted(n, c) \/ Established(n, c)
                        \/ Filled(n, c) \/ Emptied(n, c) \/ Quit(n, c)

\* What a Put does to the streams, and what is then read from one's own.
LEMMA PutTells ==
  ASSUME TypeOK, NEW n \in Nodes, NEW c \in Conns, NEW f \in Frames
  PROVE  /\ Put(n, c, <<f>>) \in StreamType
         /\ Put(n, c, <<f>>)[Other(n)][c]
              = IF Open(Other(n), c) /\ ~Ended(Other(n), c) THEN stream[Other(n)][c] \o <<f>> ELSE stream[Other(n)][c]
         /\ \A o \in Nodes, d \in Conns : o = n \/ d # c => Put(n, c, <<f>>)[o][d] = stream[o][d]
  <1>1. ASSUME ~(Open(Other(n), c) /\ ~Ended(Other(n), c))
        PROVE  Put(n, c, <<f>>) = stream
    BY <1>1 DEF Put
  <1>. QED  BY <1>1, PutStreams, PutElsewhere DEF StreamType

\* A node that closes or drops its end.
LEMMA QuitConn ==
  ASSUME TypeOK, NEW n \in Nodes, NEW d \in Conns, NEW c \in Conns, end[n][d] # "none",
         CloseEnd(n, d) \/ (DropEnd(n, d) /\ end[n][d] = "up")
  PROVE  Still(c) \/ Quit(n, c)
  <1>. DEFINE put == Put(n, d, <<"EOF">>)
  <1>0. "EOF" \in Frames
    BY DEF Frames, Control
  <1>1. /\ put \in StreamType
        /\ put[Other(n)][d] = IF Open(Other(n), d) /\ ~Ended(Other(n), d) THEN stream[Other(n)][d] \o <<"EOF">>
                              ELSE stream[Other(n)][d]
        /\ \A x \in Nodes, e \in Conns : x = n \/ e # d => put[x][e] = stream[x][e]
    BY <1>0, PutTells
  <1>. HIDE DEF put
  <1>2. \A x \in Nodes : x = n \/ x = Other(n)
    BY Others
  <1>3. Other(n) \in Nodes /\ Other(n) # n
    BY Others
  <1>4. CASE CloseEnd(n, d)
    <2>1. stream' = [put EXCEPT ![n][d] = <<>>]
      BY <1>4 DEF CloseEnd, put
    <2>2. \A x \in Nodes, e \in Conns : stream'[x][e] = IF x = n /\ e = d THEN <<>> ELSE put[x][e]
      BY <1>1, <2>1, OneStream DEF StreamType
    <2>3. \A x \in Nodes, e \in Conns : end'[x][e] = IF x = n /\ e = d THEN "closed" ELSE end[x][e]
      BY <1>4, LeftEnds
    <2>4. CASE c = d
      BY <1>1, <1>3, <2>2, <2>3, <2>4 DEF Quit, Told
    <2>5. CASE c # d
      BY <1>1, <2>2, <2>3, <2>5 DEF Still
    <2>. QED  BY <2>4, <2>5
  <1>5. CASE DropEnd(n, d) /\ end[n][d] = "up"
    <2>1. stream' = put
      BY <1>5 DEF DropEnd, put
    <2>2. \A x \in Nodes, e \in Conns : end'[x][e] = IF x = n /\ e = d THEN "dropped" ELSE end[x][e]
      BY <1>5, LeftEnds
    <2>3. CASE c = d
      BY <1>1, <1>3, <1>5, <2>1, <2>2, <2>3 DEF Quit, Told
    <2>4. CASE c # d
      BY <1>1, <2>1, <2>2, <2>4 DEF Still
    <2>. QED  BY <2>3, <2>4
  <1>. QED  BY <1>4, <1>5

LEMMA WriterQuits ==
  ASSUME EInv, NEW n \in Nodes, DialFails(n) \/ WriteFails(n) \/ AckRefused(n) \/ CancelSend(n), NEW c \in Conns
  PROVE  Still(c) \/ Quit(n, c)
  <1>. DEFINE d == writer[n].conn
  <1>1. writer[n].pc \in {"dial", "write", "drain"}
    BY DEF DialFails, WriteFails, AckRefused, CancelSend, At
  <1>2. d \in Conns /\ TypeOK
    BY <1>1 DEF EInv, IInv, Writing
  <1>3. /\ writer[n].pc = "dial" => end[n][d] = "dialling"
        /\ writer[n].pc # "dial" => end[n][d] \in {"up", "dropped", "closed"}
    BY <1>1 DEF EInv, WriterEnds
  <1>4. \/ UNCHANGED endVars
        \/ CloseEnd(n, d) /\ end[n][d] # "none"
        \/ DropEnd(n, d) /\ end[n][d] = "up"
    <2>1. CASE DialFails(n) \/ AckRefused(n)
      BY <1>3, <2>1 DEF DialFails, AckRefused, At
    <2>2. CASE WriteFails(n)
      BY <2>2 DEF WriteFails
    <2>3. CASE CancelSend(n)
      BY <1>1, <1>3, <2>3 DEF CancelSend, At, Open
    <2>. QED  BY <2>1, <2>2, <2>3
  <1>. HIDE DEF d
  <1>5. CASE UNCHANGED endVars
    BY <1>5 DEF Still, endVars
  <1>6. CASE CloseEnd(n, d) /\ end[n][d] # "none"
    BY <1>2, <1>6, QuitConn
  <1>7. CASE DropEnd(n, d) /\ end[n][d] = "up"
    BY <1>2, <1>7, QuitConn
  <1>. QED  BY <1>4, <1>5, <1>6, <1>7

LEMMA DialBegins ==
  ASSUME EInv, NEW n \in Nodes, Dial(n), NEW c \in Conns
  PROVE  Still(c) \/ Begun(n, c)
  <1>. DEFINE Ends == {"none", "dialling", "accepting", "up", "dropped", "closed"}
  <1>1. PICK d \in Conns :
            /\ dialler[d] = Nobody
            /\ end' = [end EXCEPT ![n][d] = "dialling", ![Other(n)][d] = "accepting"]
            /\ stream' = [stream EXCEPT ![Other(n)][d] = <<"HELLO">>]
    BY DEF Dial
  <1>. DEFINE half == [end EXCEPT ![n][d] = "dialling"]
  <1>2. Other(n) \in Nodes /\ Other(n) # n /\ \A x \in Nodes : x = n \/ x = Other(n)
    BY Others
  <1>3. /\ end \in [Nodes -> [Conns -> Ends]] /\ stream \in [Nodes -> [Conns -> Seq(Frames)]]
        /\ "dialling" \in Ends /\ "accepting" \in Ends /\ <<"HELLO">> \in Seq(Frames)
    BY EndTypes DEF EInv, IInv, EndType, StreamType, Frames, Control
  <1>4. end' = [half EXCEPT ![Other(n)][d] = "accepting"]
    BY <1>1
  <1>. HIDE DEF Ends
  <1>5. /\ half \in [Nodes -> [Conns -> Ends]]
        /\ \A x \in Nodes, e \in Conns : half[x][e] = IF x = n /\ e = d THEN "dialling" ELSE end[x][e]
    BY <1>3, OneStream
  <1>. HIDE DEF half
  <1>6. \A x \in Nodes, e \in Conns : end'[x][e] = IF x = Other(n) /\ e = d THEN "accepting" ELSE half[x][e]
    BY <1>2, <1>3, <1>4, <1>5, OneStream
  <1>7. \A x \in Nodes, e \in Conns : stream'[x][e] = IF x = Other(n) /\ e = d THEN <<"HELLO">> ELSE stream[x][e]
    BY <1>1, <1>2, <1>3, OneStream
  <1>8. end[n][d] = "none"
    BY <1>1 DEF EInv, IInv, Used
  <1>9. CASE c = d
    BY <1>2, <1>5, <1>6, <1>7, <1>8, <1>9 DEF Begun
  <1>10. CASE c # d
    BY <1>5, <1>6, <1>7, <1>10 DEF Still
  <1>. QED  BY <1>9, <1>10

LEMMA DialEstablishes ==
  ASSUME EInv, NEW n \in Nodes, DialDone(n), NEW c \in Conns
  PROVE  Still(c) \/ Established(n, c)
  <1>. DEFINE d == writer[n].conn
              Ends == {"none", "dialling", "accepting", "up", "dropped", "closed"}
  <1>1. /\ d \in Conns /\ First(n, d) = "ACK" /\ end[n][d] = "dialling"
        /\ stream' = [stream EXCEPT ![n][d] = Tail(stream[n][d])]
        /\ end' = [end EXCEPT ![n][d] = "up"]
    BY DEF DialDone, EInv, IInv, Writing, WriterEnds, At
  <1>. HIDE DEF d
  <1>2. stream[n][d] # <<>> /\ Head(stream[n][d]) = "ACK"
    BY <1>1 DEF First
  <1>3. /\ end \in [Nodes -> [Conns -> Ends]] /\ stream \in [Nodes -> [Conns -> Seq(Frames)]] /\ "up" \in Ends
    BY EndTypes DEF EInv, IInv, EndType, StreamType
  <1>4. Tail(stream[n][d]) \in Seq(Frames)
    BY <1>1, <1>2, <1>3
  <1>. HIDE DEF Ends
  <1>5. \A x \in Nodes, e \in Conns : end'[x][e] = IF x = n /\ e = d THEN "up" ELSE end[x][e]
    BY <1>1, <1>3, OneStream
  <1>6. \A x \in Nodes, e \in Conns : stream'[x][e] = IF x = n /\ e = d THEN Tail(stream[n][d]) ELSE stream[x][e]
    BY <1>1, <1>3, <1>4, OneStream
  <1>7. Other(n) \in Nodes /\ Other(n) # n
    BY Others
  <1>8. CASE c = d
    BY <1>1, <1>2, <1>5, <1>6, <1>7, <1>8 DEF Established
  <1>9. CASE c # d
    BY <1>5, <1>6, <1>9 DEF Still
  <1>. QED  BY <1>8, <1>9

LEMMA WriteFills ==
  ASSUME EInv, NEW n \in Nodes, Write(n), NEW c \in Conns
  PROVE  Still(c) \/ Filled(n, c)
  <1>. DEFINE d == writer[n].conn
              m == Head(outbox[n])
  <1>1. /\ d \in Conns /\ outbox[n] # <<>> /\ end' = end
        /\ stream' = IF end[n][d] = "up" /\ ~Struck(n, d) THEN Put(n, d, <<m>>) ELSE stream
    BY DEF Write, EInv, IInv, Writing, At
  <1>2. m \in ToSet(Outbox[n]) /\ m \in Frames /\ TypeOK
    <2>1. m = Outbox[n][Gone(n) + 1] /\ Gone(n) + 1 \in 1 .. Len(Outbox[n]) /\ Outbox[n] \in Seq(Msgs)
      BY <1>1, HeadPlace, ConnectionsAssumption
    <2>. HIDE DEF m
    <2>2. m \in ToSet(Outbox[n]) /\ m \in Msgs
      BY <2>1 DEF ToSet
    <2>. QED  BY <2>2 DEF Frames, EInv, IInv
  <1>. HIDE DEF d, m
  <1>3. Other(n) \in Nodes /\ Other(n) # n
    BY Others
  <1>4. CASE stream' = stream
    BY <1>1, <1>4 DEF Still
  <1>5. CASE end[n][d] = "up" /\ stream' = Put(n, d, <<m>>)
    <2>1. /\ stream'[Other(n)][d] = IF Open(Other(n), d) /\ ~Ended(Other(n), d) THEN stream[Other(n)][d] \o <<m>>
                                    ELSE stream[Other(n)][d]
          /\ \A x \in Nodes, e \in Conns : x = n \/ e # d => stream'[x][e] = stream[x][e]
      BY <1>1, <1>2, <1>5, PutTells
    <2>2. CASE c = d
      BY <1>1, <1>2, <1>3, <1>5, <2>1, <2>2 DEF Filled, Told
    <2>3. CASE c # d
      BY <1>1, <2>1, <2>3 DEF Still
    <2>. QED  BY <2>2, <2>3
  <1>. QED  BY <1>1, <1>4, <1>5

LEMMA ListenerAccepts ==
  ASSUME EInv, NEW n \in Nodes, NEW d \in Conns, Accept(n, d), NEW c \in Conns
  PROVE  Still(c) \/ Accepted(n, c)
  <1>. DEFINE Ends == {"none", "dialling", "accepting", "up", "dropped", "closed"}
              put == Put(n, d, <<"ACK">>)
  <1>1. TypeOK /\ "ACK" \in Frames
    BY DEF EInv, IInv, Frames, Control
  <1>2. /\ put \in StreamType
        /\ put[Other(n)][d] = IF Open(Other(n), d) /\ ~Ended(Other(n), d) THEN stream[Other(n)][d] \o <<"ACK">>
                              ELSE stream[Other(n)][d]
        /\ \A x \in Nodes, e \in Conns : x = n \/ e # d => put[x][e] = stream[x][e]
    BY <1>1, PutTells
  <1>3. /\ end[n][d] = "accepting" /\ stream[n][d] # <<>> /\ Head(stream[n][d]) = "HELLO"
        /\ end' = [end EXCEPT ![n][d] = "up"] /\ stream' = [put EXCEPT ![n][d] = Tail(put[n][d])]
    BY DEF Accept, First
  <1>. HIDE DEF put
  <1>4. put[n][d] = stream[n][d] /\ Tail(put[n][d]) \in Seq(Frames)
    BY <1>1, <1>2, <1>3, EndTypes DEF StreamType
  <1>5. end \in [Nodes -> [Conns -> Ends]] /\ "up" \in Ends
    BY <1>1, EndTypes DEF EndType
  <1>. HIDE DEF Ends
  <1>6. \A x \in Nodes, e \in Conns : end'[x][e] = IF x = n /\ e = d THEN "up" ELSE end[x][e]
    BY <1>3, <1>5, OneStream
  <1>7. \A x \in Nodes, e \in Conns : stream'[x][e] = IF x = n /\ e = d THEN Tail(put[n][d]) ELSE put[x][e]
    BY <1>2, <1>3, <1>4, OneStream DEF StreamType
  <1>8. Other(n) \in Nodes /\ Other(n) # n
    BY Others
  <1>9. CASE c = d
    BY <1>2, <1>3, <1>4, <1>6, <1>7, <1>8, <1>9 DEF Accepted, Told
  <1>10. CASE c # d
    BY <1>2, <1>6, <1>7, <1>10 DEF Still
  <1>. QED  BY <1>9, <1>10

LEMMA ReaderEmpties ==
  ASSUME EInv, NEW n \in Nodes, NEW d \in Conns, Read(n, d), NEW c \in Conns
  PROVE  Still(c) \/ Emptied(n, c)
  <1>1. stream \in [Nodes -> [Conns -> Seq(Frames)]]
    BY EndTypes DEF EInv, IInv, StreamType
  <1>2. /\ end[n][d] \in {"up", "dropped"} /\ end' = end
        /\ stream[n][d] # <<>> /\ Head(stream[n][d]) \notin {"EOF", "RST"}
        /\ stream' = [stream EXCEPT ![n][d] = Tail(stream[n][d])]
    BY ConnectionsAssumption DEF Read, First, Control
  <1>3. Tail(stream[n][d]) \in Seq(Frames)
    BY <1>1, <1>2
  <1>4. \A x \in Nodes, e \in Conns : stream'[x][e] = IF x = n /\ e = d THEN Tail(stream[n][d]) ELSE stream[x][e]
    BY <1>1, <1>2, <1>3, OneStream
  <1>5. Other(n) \in Nodes /\ Other(n) # n
    BY Others
  <1>6. CASE c = d
    BY <1>2, <1>4, <1>5, <1>6 DEF Emptied
  <1>7. CASE c # d
    BY <1>2, <1>4, <1>7 DEF Still
  <1>. QED  BY <1>6, <1>7

LEMMA ResetCuts ==
  ASSUME EInv, NEW d \in Conns, Reset(d), NEW c \in Conns
  PROVE  Still(c) \/ Cut(c)
  <1>1. stream \in [Nodes -> [Conns -> Seq(Frames)]]
    BY EndTypes DEF EInv, IInv, StreamType
  <1>2. /\ end' = end
        /\ stream' = [n \in Nodes |-> [stream[n] EXCEPT ![d] = IF Open(n, d) THEN <<"RST">> ELSE stream[n][d]]]
    BY DEF Reset
  <1>3. \A n \in Nodes : stream'[n][c] = IF c = d /\ Open(n, d) THEN <<"RST">> ELSE stream[n][c]
    BY <1>1, <1>2
  <1>. QED  BY <1>2, <1>3 DEF Still, Cut

\* Each step does one of these to a connection.
LEMMA ConnEffects ==
  ASSUME EInv, Next, NEW c \in Conns
  PROVE  ConnSteps(c)
  <1>. USE DEF ConnSteps
  <1>1. ASSUME NEW n \in Nodes, UsePreferred(n) \/ DialRefused(n) \/ Drained(n)
        PROVE  Still(c)
    BY <1>1 DEF UsePreferred, DialRefused, Drained, endVars, Still
  <1>2. ASSUME NEW n \in Nodes, Dial(n) \/ DialDone(n) \/ Write(n)
        PROVE  ConnSteps(c)
    BY <1>2, DialBegins, DialEstablishes, WriteFills
  <1>3. ASSUME NEW n \in Nodes, DialFails(n) \/ WriteFails(n) \/ AckRefused(n) \/ CancelSend(n)
        PROVE  ConnSteps(c)
    BY <1>3, WriterQuits
  <1>4. ASSUME NEW n \in Nodes, NEW d \in Conns, Accept(n, d) \/ Read(n, d)
        PROVE  ConnSteps(c)
    BY <1>4, ListenerAccepts, ReaderEmpties
  <1>5. ASSUME NEW n \in Nodes, NEW d \in Conns, AcceptFails(n, d) \/ HelloRefused(n, d) \/ ReadEnds(n, d)
        PROVE  ConnSteps(c)
    <2>1. CloseEnd(n, d) /\ end[n][d] # "none" /\ TypeOK
      BY <1>5 DEF AcceptFails, HelloRefused, ReadEnds, EInv, IInv
    <2>. QED  BY <2>1, QuitConn
  <1>6. ASSUME NEW d \in Conns, Reset(d)
        PROVE  ConnSteps(c)
    BY <1>6, ResetCuts
  <1>. QED  BY <1>1, <1>2, <1>3, <1>4, <1>5, <1>6
            DEF Next, Runs, Writer, Receives, Listener, Reader, Faulty

---------------------------------------------------------------------------
(* The two ends stay in step                                               *)

\* The last frame of a stream that grows, and of one of which one frame is read.
LEMMA LastFrame ==
  ASSUME NEW s \in Seq(Frames)
  PROVE  /\ \A f \in Frames : s \o <<f>> \in Seq(Frames) /\ s \o <<f>> # <<>> /\ Last(s \o <<f>>) = f
         /\ s # <<>> => Tail(s) \in Seq(Frames)
         /\ s # <<>> /\ Last(s) \in {"EOF", "RST"} /\ Head(s) \notin {"EOF", "RST"} =>
                Tail(s) # <<>> /\ Last(Tail(s)) = Last(s)
  <1>1. ASSUME NEW f \in Frames
        PROVE  s \o <<f>> \in Seq(Frames) /\ s \o <<f>> # <<>> /\ Last(s \o <<f>>) = f
    <2>1. s \o <<f>> \in Seq(Frames) /\ Len(s \o <<f>>) = Len(s) + 1 /\ (s \o <<f>>)[Len(s) + 1] = f /\ Len(s) \in Nat
      OBVIOUS
    <2>. QED  BY <2>1 DEF Last
  <1>2. ASSUME s # <<>>
        PROVE  Tail(s) \in Seq(Frames) /\ Len(s) \in Nat \ {0} /\ Head(s) = s[1] /\ Len(Tail(s)) = Len(s) - 1
               /\ \A i \in 1 .. Len(s) - 1 : Tail(s)[i] = s[i + 1]
    BY <1>2
  <1>3. ASSUME s # <<>>, Last(s) \in {"EOF", "RST"}, Head(s) \notin {"EOF", "RST"}
        PROVE  Tail(s) # <<>> /\ Last(Tail(s)) = Last(s)
    <2>. DEFINE k == Len(s)
                r == Tail(s)
    <2>1. k \in Nat \ {0} /\ k # 1 /\ Len(r) = k - 1 /\ r \in Seq(Frames)
          /\ \A i \in 1 .. k - 1 : r[i] = s[i + 1]
      BY <1>2, <1>3 DEF Last
    <2>2. Last(s) = s[k] /\ Last(r) = r[Len(r)]
      BY DEF Last
    <2>. HIDE DEF k, r
    <2>3. k - 1 \in 1 .. k - 1 /\ (k - 1) + 1 = k
      BY <2>1
    <2>4. r[k - 1] = s[k] /\ Len(r) # 0
      BY <2>1, <2>3
    <2>5. r # <<>>
      BY <2>4
    <2>. QED  BY <2>1, <2>2, <2>4, <2>5 DEF r
  <1>. QED  BY <1>1, <1>2, <1>3

\* A stream keeps to the payload when payload is added or read.
LEMMA PayloadFrames ==
  ASSUME NEW n, NEW s \in Seq(Payload(n))
  PROVE  /\ \A f \in Payload(n) : s \o <<f>> \in Seq(Payload(n))
         /\ s # <<>> => Tail(s) \in Seq(Payload(n)) /\ Head(s) \in Payload(n)
  OBVIOUS

\* Where the tail keeps to the payload, it does when payload is added behind.
LEMMA PayloadBehind ==
  ASSUME NEW n, NEW s \in Seq(Frames), s # <<>>, Tail(s) \in Seq(Payload(n)), NEW f \in Payload(n), f \in Frames
  PROVE  Head(s \o <<f>>) = Head(s) /\ Tail(s \o <<f>>) \in Seq(Payload(n))
  <1>1. /\ Len(s) \in Nat \ {0} /\ s \o <<f>> \in Seq(Frames) /\ Len(s \o <<f>>) = Len(s) + 1
        /\ \A i \in 1 .. Len(s) + 1 : (s \o <<f>>)[i] = IF i <= Len(s) THEN s[i] ELSE f
    OBVIOUS
  <1>2. Head(s) = s[1] /\ Head(s \o <<f>>) = (s \o <<f>>)[1]
    BY <1>1
  <1>3. /\ Len(Tail(s)) = Len(s) - 1 /\ \A i \in 1 .. Len(s) - 1 : Tail(s)[i] = s[i + 1]
        /\ \A i \in 1 .. Len(s) - 1 : Tail(s)[i] \in Payload(n)
    BY <1>1
  <1>4. /\ Tail(s \o <<f>>) \in Seq(Frames) /\ Len(Tail(s \o <<f>>)) = Len(s)
        /\ \A i \in 1 .. Len(s) : Tail(s \o <<f>>)[i] = (s \o <<f>>)[i + 1]
    BY <1>1
  <1>5. \A i \in 1 .. Len(s) : Tail(s \o <<f>>)[i] \in Payload(n)
    <2>. SUFFICES ASSUME NEW i \in 1 .. Len(s) PROVE Tail(s \o <<f>>)[i] \in Payload(n)
      OBVIOUS
    <2>1. CASE i = Len(s)
      BY <1>1, <1>4, <2>1
    <2>2. CASE i # Len(s)
      <3>1. i \in 1 .. Len(s) - 1 /\ i + 1 <= Len(s) /\ i + 1 \in 1 .. Len(s) + 1
        BY <1>1, <2>2
      <3>2. Tail(s \o <<f>>)[i] = s[i + 1] /\ s[i + 1] = Tail(s)[i]
        BY <1>1, <1>3, <1>4, <3>1
      <3>. QED  BY <1>3, <3>1, <3>2
    <2>. QED  BY <2>1, <2>2
  <1>. DEFINE t == Tail(s \o <<f>>)
  <1>. HIDE DEF t
  <1>6. t \in Seq(Payload(n))
    BY <1>1, <1>4, <1>5, ElementsIn DEF t
  <1>. QED  BY <1>1, <1>2, <1>6 DEF t

\* Both ends of the connection, and what is on its way.
LEMMA EndFacts ==
  ASSUME TypeOK, NEW c \in Conns, ConnOk(c), NEW n \in Nodes
  PROVE  /\ Other(n) \in Nodes /\ Other(n) # n /\ Other(Other(n)) = n /\ \A x \in Nodes : x = n \/ x = Other(n)
         /\ EndOk(n, c) /\ EndOk(Other(n), c)
         /\ stream[n][c] \in Seq(Frames) /\ stream[Other(n)][c] \in Seq(Frames)
         /\ \A x \in Nodes : end[x][c] \in {"none", "dialling", "accepting", "up", "dropped", "closed"}
         /\ \A x \in Nodes : \A m \in ToSet(Outbox[x]) : m \in Frames /\ m \notin Control
         /\ "EOF" \in Frames /\ "ACK" \in Frames /\ "RST" \in Frames
  <1>1. /\ stream \in [Nodes -> [Conns -> Seq(Frames)]]
        /\ end \in [Nodes -> [Conns -> {"none", "dialling", "accepting", "up", "dropped", "closed"}]]
    BY EndTypes DEF StreamType, EndType
  <1>2. \A x \in Nodes : Outbox[x] \in Seq(Msgs)
    BY ConnectionsAssumption
  <1>3. \A x \in Nodes : \A m \in ToSet(Outbox[x]) : m \in Msgs
    BY <1>2 DEF ToSet
  <1>4. Msgs \cap Control = {}
    BY ConnectionsAssumption
  <1>5. Other(n) \in Nodes
    BY Others
  <1>. QED  BY <1>1, <1>3, <1>4, <1>5, Others DEF ConnOk, Frames, Control

LEMMA BegunOk ==
  ASSUME TypeOK, NEW c \in Conns, ConnOk(c), NEW n \in Nodes, Begun(n, c)
  PROVE  ConnOk(c)'
  <1>. DEFINE o == Other(n)
  <1>1. EndOk(n, c) /\ o \in Nodes /\ o # n /\ Other(o) = n /\ \A x \in Nodes : x = n \/ x = o
    BY EndFacts
  <1>2. /\ end'[n][c] = "dialling" /\ stream'[n][c] = <<>>
        /\ end'[o][c] = "accepting" /\ stream'[o][c] = <<"HELLO">>
    BY <1>1 DEF Begun, EndOk
  <1>. HIDE DEF o
  <1>3. EndOk(n, c)'
    BY <1>1, <1>2 DEF EndOk, o
  <1>4. EndOk(o, c)'
    BY <1>1, <1>2 DEF EndOk
  <1>. QED  BY <1>1, <1>3, <1>4 DEF ConnOk

LEMMA CutOk ==
  ASSUME TypeOK, NEW c \in Conns, ConnOk(c), Cut(c)
  PROVE  ConnOk(c)'
  <1>. SUFFICES ASSUME NEW n \in Nodes PROVE EndOk(n, c)'
    BY DEF ConnOk
  <1>1. /\ EndOk(n, c) /\ Other(n) \in Nodes
        /\ end[n][c] \in {"none", "dialling", "accepting", "up", "dropped", "closed"}
    BY EndFacts
  <1>2. /\ end'[n][c] = end[n][c] /\ end'[Other(n)][c] = end[Other(n)][c]
        /\ stream'[n][c] = IF Open(n, c) THEN <<"RST">> ELSE stream[n][c]
    BY <1>1 DEF Cut
  <1>3. Head(<<"RST">>) = "RST" /\ Tail(<<"RST">>) = <<>> /\ <<"RST">> # <<>> /\ Last(<<"RST">>) = "RST"
        /\ <<>> \in Seq(Payload(n)) /\ <<"RST">> \in Seq(Payload(n))
    BY DEF Last, Payload
  <1>4. CASE Open(n, c)
    <2>1. end[n][c] \in {"dialling", "accepting", "up"} /\ stream'[n][c] = <<"RST">>
      BY <1>2, <1>4 DEF Open
    <2>2. Ended(n, c)'
      BY <1>3, <2>1 DEF Ended
    <2>. QED  BY <1>1, <1>2, <1>3, <2>1, <2>2 DEF EndOk
  <1>5. CASE ~Open(n, c)
    <2>1. end[n][c] \in {"none", "dropped", "closed"} /\ stream'[n][c] = stream[n][c]
      BY <1>1, <1>2, <1>5 DEF Open
    <2>. QED  BY <1>1, <1>2, <2>1 DEF EndOk, Open
  <1>. QED  BY <1>4, <1>5

LEMMA EstablishedOk ==
  ASSUME TypeOK, NEW c \in Conns, ConnOk(c), NEW n \in Nodes, Established(n, c)
  PROVE  ConnOk(c)'
  <1>. DEFINE o == Other(n)
  <1>1. /\ EndOk(n, c) /\ EndOk(o, c) /\ o \in Nodes /\ o # n /\ Other(o) = n /\ \A x \in Nodes : x = n \/ x = o
        /\ stream[n][c] \in Seq(Frames)
    BY EndFacts
  <1>2. /\ end[n][c] = "dialling" /\ stream[n][c] # <<>> /\ Head(stream[n][c]) = "ACK"
        /\ end'[n][c] = "up" /\ stream'[n][c] = Tail(stream[n][c])
        /\ end'[o][c] = end[o][c] /\ stream'[o][c] = stream[o][c]
    BY DEF Established
  <1>3. end[o][c] # "accepting"
    BY <1>1, <1>2 DEF EndOk
  <1>4. /\ end[o][c] \in {"up", "dropped", "closed"} /\ Tail(stream[n][c]) \in Seq(Payload(n))
        /\ end[o][c] \in {"dropped", "closed"} => Ended(n, c)
    BY <1>1, <1>2, <1>3 DEF EndOk, Open
  <1>5. Ended(n, c) => Ended(n, c)'
    BY <1>1, <1>2, LastFrame DEF Ended
  <1>. HIDE DEF o
  <1>6. EndOk(n, c)'
    BY <1>1, <1>2, <1>4, <1>5 DEF EndOk, Open, o
  <1>7. EndOk(o, c)'
    BY <1>1, <1>2, <1>4 DEF EndOk, Open, Ended
  <1>. QED  BY <1>1, <1>6, <1>7 DEF ConnOk

LEMMA EmptiedOk ==
  ASSUME TypeOK, NEW c \in Conns, ConnOk(c), NEW n \in Nodes, Emptied(n, c)
  PROVE  ConnOk(c)'
  <1>. DEFINE o == Other(n)
  <1>1. /\ EndOk(n, c) /\ EndOk(o, c) /\ o \in Nodes /\ o # n /\ Other(o) = n /\ \A x \in Nodes : x = n \/ x = o
        /\ stream[n][c] \in Seq(Frames)
    BY EndFacts
  <1>2. /\ end[n][c] \in {"up", "dropped"} /\ stream[n][c] # <<>> /\ Head(stream[n][c]) \notin {"EOF", "RST"}
        /\ end'[n][c] = end[n][c] /\ stream'[n][c] = Tail(stream[n][c])
        /\ end'[o][c] = end[o][c] /\ stream'[o][c] = stream[o][c]
    BY <1>1 DEF Emptied
  <1>3. Ended(n, c) => Ended(n, c)'
    BY <1>1, <1>2, LastFrame DEF Ended
  <1>4. stream[n][c] \in Seq(Payload(n))
    BY <1>1, <1>2 DEF EndOk
  <1>5. Tail(stream[n][c]) \in Seq(Payload(n))
    BY <1>2, <1>4, PayloadFrames
  <1>. HIDE DEF o
  <1>6. EndOk(n, c)'
    BY <1>1, <1>2, <1>3, <1>5 DEF EndOk, Open, o
  <1>7. EndOk(o, c)'
    BY <1>1, <1>2 DEF EndOk, Open, Ended
  <1>. QED  BY <1>1, <1>6, <1>7 DEF ConnOk

\* What a frame put on the connection does to the stream of the other end.
LEMMA AfterTold ==
  ASSUME TypeOK, NEW c \in Conns, ConnOk(c), NEW n \in Nodes, NEW f \in Payload(n), f \in Frames, Told(n, c, f)
  PROVE  /\ ~Open(n, c) \/ Ended(n, c) => stream'[n][c] = stream[n][c]
         /\ Open(n, c) /\ f = "EOF" => Ended(n, c)'
         /\ end[n][c] \in {"up", "dropped"} => stream'[n][c] \in Seq(Payload(n))
         /\ end[n][c] = "dialling" /\ end[Other(n)][c] # "accepting" =>
                /\ stream'[n][c] # <<>> /\ Head(stream'[n][c]) \in {"ACK", "EOF", "RST"}
                /\ Tail(stream'[n][c]) \in Seq(Payload(n))
  <1>1. EndOk(n, c) /\ stream[n][c] \in Seq(Frames)
    BY EndFacts
  <1>2. CASE ~Open(n, c) \/ Ended(n, c)
    <2>1. stream'[n][c] = stream[n][c]
      BY <1>2 DEF Told
    <2>. QED  BY <1>1, <1>2, <2>1 DEF EndOk, Ended
  <1>3. CASE Open(n, c) /\ ~Ended(n, c)
    <2>1. stream'[n][c] = stream[n][c] \o <<f>>
      BY <1>3 DEF Told
    <2>2. stream'[n][c] # <<>> /\ Last(stream'[n][c]) = f
      BY <1>1, <2>1, LastFrame
    <2>3. end[n][c] = "up" => stream'[n][c] \in Seq(Payload(n))
      BY <1>1, <2>1, PayloadFrames DEF EndOk
    <2>4. ASSUME end[n][c] = "dialling", end[Other(n)][c] # "accepting"
          PROVE  Head(stream'[n][c]) \in {"ACK", "EOF", "RST"} /\ Tail(stream'[n][c]) \in Seq(Payload(n))
      <3>1. stream[n][c] # <<>> /\ Head(stream[n][c]) \in {"ACK", "EOF", "RST"} /\ Tail(stream[n][c]) \in Seq(Payload(n))
        BY <1>1, <2>4 DEF EndOk
      <3>. QED  BY <1>1, <2>1, <3>1, PayloadBehind
    <2>. QED  BY <1>3, <2>2, <2>3, <2>4 DEF Open, Ended
  <1>. QED  BY <1>2, <1>3

LEMMA FilledOk ==
  ASSUME TypeOK, NEW c \in Conns, ConnOk(c), NEW n \in Nodes, Filled(n, c)
  PROVE  ConnOk(c)'
  <1>. DEFINE o == Other(n)
  <1>1. /\ EndOk(n, c) /\ EndOk(o, c) /\ o \in Nodes /\ o # n /\ Other(o) = n /\ \A x \in Nodes : x = n \/ x = o
        /\ \A m \in ToSet(Outbox[n]) : m \in Frames
    BY EndFacts
  <1>2. PICK m \in ToSet(Outbox[n]) : Told(o, c, m)
    BY DEF Filled
  <1>3. /\ end[n][c] = "up" /\ end'[n][c] = end[n][c] /\ end'[o][c] = end[o][c]
        /\ stream'[n][c] = stream[n][c]
    BY <1>1 DEF Filled
  <1>4. m \in Payload(o) /\ m \in Frames
    BY <1>1, <1>2 DEF Payload
  <1>. HIDE DEF o
  <1>5. /\ Ended(o, c) \/ ~Open(o, c) => stream'[o][c] = stream[o][c]
        /\ end[o][c] \in {"up", "dropped"} => stream'[o][c] \in Seq(Payload(o))
        /\ end[o][c] = "dialling" =>
                /\ stream'[o][c] # <<>> /\ Head(stream'[o][c]) \in {"ACK", "EOF", "RST"}
                /\ Tail(stream'[o][c]) \in Seq(Payload(o))
    BY <1>1, <1>2, <1>3, <1>4, AfterTold
  <1>6. end[o][c] \in {"dialling", "up", "dropped", "closed"}
    BY <1>1, <1>3 DEF EndOk, o
  <1>7. EndOk(n, c)'
    BY <1>1, <1>3 DEF EndOk, Open, Ended, o
  <1>8. EndOk(o, c)'
    BY <1>1, <1>3, <1>5, <1>6 DEF EndOk, Open, Ended
  <1>. QED  BY <1>1, <1>7, <1>8 DEF ConnOk

LEMMA AcceptedOk ==
  ASSUME TypeOK, NEW c \in Conns, ConnOk(c), NEW n \in Nodes, Accepted(n, c)
  PROVE  ConnOk(c)'
  <1>. DEFINE o == Other(n)
  <1>1. /\ EndOk(n, c) /\ EndOk(o, c) /\ o \in Nodes /\ o # n /\ Other(o) = n /\ \A x \in Nodes : x = n \/ x = o
        /\ stream[n][c] \in Seq(Frames) /\ "ACK" \in Frames
    BY EndFacts
  <1>2. /\ end[n][c] = "accepting" /\ stream[n][c] # <<>> /\ Head(stream[n][c]) = "HELLO"
        /\ end'[n][c] = "up" /\ stream'[n][c] = Tail(stream[n][c])
        /\ end'[o][c] = end[o][c] /\ Told(o, c, "ACK")
    BY DEF Accepted
  <1>3. end[o][c] \in {"dialling", "closed"} /\ stream[n][c] \in {<<"HELLO">>, <<"HELLO", "EOF">>, <<"RST">>}
    BY <1>1, <1>2 DEF EndOk
  <1>4. /\ <<"HELLO">> # <<>> /\ Tail(<<"HELLO">>) = <<>> /\ Tail(<<"HELLO", "EOF">>) = <<"EOF">> /\ Head(<<"RST">>) = "RST"
        /\ <<>> \in Seq(Payload(n)) /\ <<"EOF">> \in Seq(Payload(n))
    BY DEF Payload
  <1>5. stream'[n][c] \in Seq(Payload(n))
    BY <1>2, <1>3, <1>4
  <1>6. Ended(n, c) => Ended(n, c)'
    BY <1>1, <1>2, LastFrame DEF Ended
  <1>7. end[o][c] = "closed" => Ended(n, c)
    BY <1>1, <1>2 DEF EndOk, Open
  <1>. HIDE DEF o
  <1>8. EndOk(n, c)'
    BY <1>1, <1>2, <1>3, <1>5, <1>6, <1>7 DEF EndOk, Open, o
  <1>9. CASE end[o][c] = "closed"
    <2>1. EndOk(o, c)'
      BY <1>2, <1>9 DEF EndOk, Open
    <2>. QED  BY <1>1, <1>8, <2>1 DEF ConnOk
  <1>10. CASE end[o][c] = "dialling"
    <2>1. stream[o][c] \in {<<>>, <<"RST">>}
      BY <1>1, <1>2, <1>10 DEF EndOk
    <2>2. stream'[o][c] \in {<<"ACK">>, <<"RST">>}
      <3>1. CASE stream[o][c] = <<>>
        <4>1. ~Ended(o, c) /\ Open(o, c) /\ <<>> \o <<"ACK">> = <<"ACK">>
          BY <1>10, <3>1, ConcatEmptySeq, <1>1 DEF Ended, Open
        <4>. QED  BY <1>2, <3>1, <4>1 DEF Told
      <3>2. CASE stream[o][c] = <<"RST">>
        <4>1. Last(<<"RST">>) = "RST" /\ <<"RST">> # <<>>
          BY DEF Last
        <4>2. Ended(o, c)
          BY <3>2, <4>1 DEF Ended
        <4>. QED  BY <1>2, <3>2, <4>2 DEF Told
      <3>. QED  BY <2>1, <3>1, <3>2
    <2>3. \A f : <<f>> # <<>> /\ Head(<<f>>) = f /\ Tail(<<f>>) = <<>>
      OBVIOUS
    <2>4. stream'[o][c] # <<>> /\ Head(stream'[o][c]) \in {"ACK", "RST"} /\ Tail(stream'[o][c]) = <<>>
      BY <2>2, <2>3
    <2>5. <<>> \in Seq(Payload(o))
      OBVIOUS
    <2>6. EndOk(o, c)'
      BY <1>1, <1>2, <1>10, <2>4, <2>5 DEF EndOk, Open
    <2>. QED  BY <1>1, <1>8, <2>6 DEF ConnOk
  <1>. QED  BY <1>3, <1>9, <1>10

LEMMA QuitOk ==
  ASSUME TypeOK, NEW c \in Conns, ConnOk(c), NEW n \in Nodes, Quit(n, c)
  PROVE  ConnOk(c)'
  <1>. DEFINE o == Other(n)
  <1>1. /\ EndOk(n, c) /\ EndOk(o, c) /\ o \in Nodes /\ o # n /\ Other(o) = n /\ \A x \in Nodes : x = n \/ x = o
        /\ stream[n][c] \in Seq(Frames) /\ stream[o][c] \in Seq(Frames) /\ "EOF" \in Frames
        /\ end[o][c] \in {"none", "dialling", "accepting", "up", "dropped", "closed"}
    BY EndFacts
  <1>2. /\ end[n][c] # "none" /\ end'[o][c] = end[o][c] /\ Told(o, c, "EOF")
        /\ \/ end'[n][c] = "closed"
           \/ end[n][c] = "up" /\ end'[n][c] = "dropped" /\ stream'[n][c] = stream[n][c]
    BY DEF Quit
  <1>3. "EOF" \in Payload(o) /\ end[o][c] # "none"
    BY <1>1, <1>2 DEF Payload, EndOk
  <1>. HIDE DEF o
  <1>4. EndOk(n, c)'
    BY <1>1, <1>2 DEF EndOk, Open
  <1>5. /\ Open(o, c) => Ended(o, c)'
        /\ end[o][c] \in {"up", "dropped"} => stream'[o][c] \in Seq(Payload(o))
        /\ end[o][c] = "dialling" /\ end[n][c] # "accepting" =>
                /\ stream'[o][c] # <<>> /\ Head(stream'[o][c]) \in {"ACK", "EOF", "RST"}
                /\ Tail(stream'[o][c]) \in Seq(Payload(o))
    BY <1>1, <1>2, <1>3, AfterTold
  <1>6. /\ <<>> \o <<"EOF">> = <<"EOF">> /\ <<"HELLO">> \o <<"EOF">> = <<"HELLO", "EOF">>
        /\ Last(<<"RST">>) = "RST" /\ Last(<<"HELLO", "EOF">>) = "EOF" /\ Last(<<"HELLO">>) = "HELLO"
    <2>1. <<"EOF">> \in Seq({"HELLO", "EOF"})
      OBVIOUS
    <2>2. <<>> \o <<"EOF">> = <<"EOF">>
      BY <2>1, ConcatEmptySeq
    <2>3. <<"HELLO">> \o <<"EOF">> = <<"HELLO", "EOF">>
      <3>. DEFINE S == {"HELLO", "EOF"}
                  a == <<"HELLO">> \o <<"EOF">>
                  b == <<"HELLO", "EOF">>
      <3>1. /\ a \in Seq(S) /\ Len(a) = 2 /\ a[1] = "HELLO" /\ a[2] = "EOF"
            /\ b \in Seq(S) /\ Len(b) = 2 /\ b[1] = "HELLO" /\ b[2] = "EOF"
        OBVIOUS
      <3>2. \A i \in 1 .. 2 : i = 1 \/ i = 2
        OBVIOUS
      <3>. HIDE DEF a, b
      <3>3. a = b
        BY <3>1, <3>2, SeqEqual
      <3>. QED  BY <3>3 DEF a, b
    <2>4. /\ \A f : Len(<<f>>) = 1 /\ <<f>>[1] = f
          /\ Len(<<"HELLO", "EOF">>) = 2 /\ <<"HELLO", "EOF">>[2] = "EOF"
      OBVIOUS
    <2>5. Last(<<"RST">>) = "RST" /\ Last(<<"HELLO", "EOF">>) = "EOF" /\ Last(<<"HELLO">>) = "HELLO"
      BY <2>4 DEF Last
    <2>. QED  BY <2>2, <2>3, <2>5
  <1>7. \A f, g : <<f>> # <<>> /\ <<f, g>> # <<>> /\ Head(<<f>>) = f /\ Tail(<<f>>) = <<>>
    OBVIOUS
  <1>8. CASE end[o][c] = "accepting"
    <2>1. stream[o][c] \in {<<"HELLO">>, <<"HELLO", "EOF">>, <<"RST">>} /\ end'[n][c] = "closed"
      BY <1>1, <1>2, <1>8 DEF EndOk
    <2>2. stream'[o][c] \in {<<"HELLO", "EOF">>, <<"RST">>}
      <3>1. CASE stream[o][c] = <<"HELLO">>
        <4>1. ~Ended(o, c) /\ Open(o, c)
          BY <1>6, <1>8, <3>1 DEF Ended, Open
        <4>. QED  BY <1>2, <1>6, <3>1, <4>1 DEF Told
      <3>2. CASE stream[o][c] # <<"HELLO">>
        <4>1. Ended(o, c)
          BY <1>6, <1>7, <2>1, <3>2 DEF Ended
        <4>. QED  BY <1>2, <2>1, <3>2, <4>1 DEF Told
      <3>. QED  BY <3>1, <3>2
    <2>3. EndOk(o, c)'
      BY <1>1, <1>2, <1>5, <1>8, <2>1, <2>2 DEF EndOk, Open
    <2>. QED  BY <1>1, <1>4, <2>3 DEF ConnOk
  <1>9. CASE end[o][c] = "dialling"
    <2>1. /\ stream'[o][c] # <<>> /\ Head(stream'[o][c]) \in {"ACK", "EOF", "RST"}
          /\ Tail(stream'[o][c]) \in Seq(Payload(o))
      <3>1. CASE end[n][c] # "accepting"
        BY <1>5, <1>9, <3>1
      <3>2. CASE end[n][c] = "accepting"
        <4>1. stream[o][c] \in {<<>>, <<"RST">>}
          BY <1>1, <1>9, <3>2 DEF EndOk
        <4>2. stream'[o][c] \in {<<"EOF">>, <<"RST">>}
          <5>1. CASE stream[o][c] = <<>>
            <6>1. ~Ended(o, c) /\ Open(o, c)
              BY <1>9, <5>1 DEF Ended, Open
            <6>. QED  BY <1>2, <1>6, <5>1, <6>1 DEF Told
          <5>2. CASE stream[o][c] = <<"RST">>
            <6>1. Ended(o, c)
              BY <1>6, <1>7, <5>2 DEF Ended
            <6>. QED  BY <1>2, <5>2, <6>1 DEF Told
          <5>. QED  BY <4>1, <5>1, <5>2
        <4>3. <<>> \in Seq(Payload(o))
          OBVIOUS
        <4>. QED  BY <1>7, <4>2, <4>3
      <3>. QED  BY <3>1, <3>2
    <2>2. EndOk(o, c)'
      BY <1>1, <1>2, <1>5, <1>9, <2>1 DEF EndOk, Open
    <2>. QED  BY <1>1, <1>4, <2>2 DEF ConnOk
  <1>10. CASE end[o][c] \in {"up", "dropped", "closed"}
    <2>1. EndOk(o, c)'
      BY <1>1, <1>2, <1>5, <1>10 DEF EndOk, Open
    <2>. QED  BY <1>1, <1>4, <2>1 DEF ConnOk
  <1>. QED  BY <1>1, <1>3, <1>8, <1>9, <1>10

\* No step parts the two ends of a connection.
LEMMA ConnOkKept ==
  ASSUME EInv, Next, NEW c \in Conns, ConnOk(c)
  PROVE  ConnOk(c)'
  <1>1. TypeOK
    BY DEF EInv, IInv
  <1>2. CASE Still(c)
    <2>1. \A n \in Nodes : Other(n) \in Nodes
      BY Others
    <2>. QED  BY <1>2, <2>1 DEF Still, ConnOk, EndOk, Open, Ended
  <1>. QED  BY <1>1, <1>2, ConnEffects, CutOk, BegunOk, AcceptedOk, EstablishedOk, FilledOk, EmptiedOk, QuitOk
            DEF ConnSteps

---------------------------------------------------------------------------
(* What has become of the messages                                         *)

\* A message the writer has done with has an outcome.
Over == \A n \in Nodes : \A j \in 1 .. Gone(n) : outcome[Outbox[n][j]] # "queued"

\* A node receives nothing but what the other one sends.
Known == \A n \in Nodes : \A i \in 1 .. Len(received[n]) : received[n][i] \in ToSet(Outbox[Other(n)])

RestInv ==
    /\ OrderInv /\ BlameInv /\ \A c \in Conns : ConnOk(c)
    /\ Over /\ Known /\ (faults = 0 => hit = {})

\* The outcome of a message changes where its send is settled, and nowhere else.
LEMMA Outcomes ==
  ASSUME EInv, Next
  PROVE  \/ UNCHANGED <<outbox, outcome>>
         \/ \E n \in Nodes, how \in {"sent", "failed"} : outbox[n] # <<>> /\ Settle(n, how)
  <1>. DEFINE Goal == \/ UNCHANGED <<outbox, outcome>>
                      \/ \E n \in Nodes, how \in {"sent", "failed"} : outbox[n] # <<>> /\ Settle(n, how)
  <1>1. ASSUME NEW n \in Nodes, UsePreferred(n) \/ Dial(n) \/ DialDone(n) \/ Write(n)
        PROVE  UNCHANGED <<outbox, outcome>>
    BY <1>1 DEF UsePreferred, Dial, DialDone, Write
  <1>2. ASSUME NEW n \in Nodes, DialRefused(n) \/ Drained(n)
        PROVE  outbox[n] # <<>> /\ (Settle(n, "sent") \/ Settle(n, "failed"))
    BY <1>2 DEF DialRefused, Drained, At, EInv, IInv, Writing
  <1>3. ASSUME NEW n \in Nodes, DialFails(n) \/ WriteFails(n) \/ AckRefused(n) \/ CancelSend(n)
        PROVE  outbox[n] # <<>> /\ Settle(n, "failed")
    BY <1>3, FailedEnds
  <1>4. ASSUME NEW n \in Nodes, NEW c \in Conns,
               Accept(n, c) \/ AcceptFails(n, c) \/ HelloRefused(n, c) \/ Read(n, c) \/ ReadEnds(n, c)
        PROVE  UNCHANGED <<outbox, outcome>>
    BY <1>4 DEF Accept, AcceptFails, HelloRefused, Read, ReadEnds, sendVars
  <1>5. ASSUME NEW c \in Conns, Reset(c)
        PROVE  UNCHANGED <<outbox, outcome>>
    BY <1>5 DEF Reset, sendVars
  <1>6. Goal
    BY <1>1, <1>2, <1>3, <1>4, <1>5, Zenon DEF Next, Runs, Writer, Receives, Listener, Reader, Faulty
  <1>. QED  BY <1>6

LEMMA OverKept ==
  ASSUME EInv, Next, Over
  PROVE  Over'
  <1>. SUFFICES ASSUME NEW o \in Nodes, NEW j \in 1 .. Gone(o)' PROVE outcome'[Outbox[o][j]] # "queued"
    BY DEF Over
  <1>0. /\ TypeOK /\ Outbox[o] \in Seq(Msgs) /\ outbox[o] \in Seq(Msgs) /\ Len(outbox[o]) \in Nat /\ Len(Outbox[o]) \in Nat
        /\ Gone(o) \in Nat /\ Gone(o) <= Len(Outbox[o])
    BY ConnectionsAssumption DEF EInv, IInv, TypeOK, Queued, Gone
  <1>1. CASE UNCHANGED <<outbox, outcome>>
    BY <1>1 DEF Over, Gone
  <1>2. ASSUME NEW n \in Nodes, NEW how \in {"sent", "failed"}, outbox[n] # <<>>, Settle(n, how)
        PROVE  outcome'[Outbox[o][j]] # "queued"
    <2>. DEFINE m == Outbox[o][j]
    <2>1. /\ outbox'[n] = Tail(outbox[n]) /\ \A x \in Nodes : x # n => outbox'[x] = outbox[x]
          /\ \A x \in Msgs : outcome'[x] = IF x = Head(outbox[n]) THEN how ELSE outcome[x]
      BY <1>0, <1>2, Settles
    <2>2. CASE j \in 1 .. Gone(o)
      <3>1. j \in 1 .. Len(Outbox[o])
        BY <1>0, <2>2
      <3>2. m \in Msgs /\ outcome[m] # "queued"
        BY <1>0, <2>2, <3>1 DEF Over
      <3>. QED  BY <1>2, <2>1, <3>2
    <2>3. CASE j \notin 1 .. Gone(o)
      <3>1. o = n
        BY <2>1, <2>3 DEF Gone
      <3>2. Len(outbox'[o]) = Len(outbox[o]) - 1
        <4>1. outbox'[o] = Tail(outbox[o]) /\ outbox[o] # <<>>
          BY <1>2, <2>1, <3>1
        <4>. QED  BY <1>0, <4>1
      <3>3. Gone(o)' = Gone(o) + 1
        BY <1>0, <3>2 DEF Gone
      <3>4. j = Gone(o) + 1
        BY <1>0, <2>3, <3>3
      <3>5. Head(outbox[n]) = m /\ j \in 1 .. Len(Outbox[o])
        BY <1>2, <3>1, <3>4, HeadPlace
      <3>6. m \in Msgs
        BY <1>0, <3>5
      <3>. QED  BY <1>2, <2>1, <3>5, <3>6
    <2>. QED  BY <2>2, <2>3
  <1>. QED  BY <1>1, <1>2, Outcomes

LEMMA KnownKept ==
  ASSUME EInv, Next, \A c \in Conns : ConnOk(c), Known
  PROVE  Known'
  <1>. SUFFICES ASSUME NEW o \in Nodes, NEW i \in 1 .. Len(received'[o])
                PROVE  received'[o][i] \in ToSet(Outbox[Other(o)])
    BY DEF Known
  <1>1. CASE received'[o] = received[o]
    BY <1>1 DEF Known
  <1>2. ASSUME NEW d \in Conns, Reads(o, d)
        PROVE  received'[o][i] \in ToSet(Outbox[Other(o)])
    <2>. DEFINE f == Head(stream[o][d])
                r == received[o]
    <2>1. /\ r \in Seq(Msgs) /\ f \in Msgs /\ received'[o] = Append(r, f)
          /\ stream[o][d] # <<>> /\ end[o][d] \in {"up", "dropped"}
      BY <1>2 DEF EInv, IInv, TypeOK, Reads
    <2>2. stream[o][d] \in Seq(Payload(o))
      BY <2>1 DEF ConnOk, EndOk
    <2>3. f \in Payload(o) /\ f \notin Control
      BY <2>1, <2>2, PayloadFrames, ConnectionsAssumption
    <2>4. f \in ToSet(Outbox[Other(o)])
      BY <2>3 DEF Payload, Control
    <2>. HIDE DEF f, r
    <2>5. received'[o][i] = f \/ (i \in 1 .. Len(r) /\ received'[o][i] = r[i])
      BY <2>1
    <2>. QED  BY <2>4, <2>5 DEF Known, r
  <1>. QED  BY <1>1, <1>2, Receipts

\* Without a fault nothing has been struck.
LEMMA FaultCounts ==
  ASSUME EInv, Next
  PROVE  UNCHANGED faultVars \/ faults' # 0
  <1>0. faults \in Nat
    BY ConnectionsAssumption DEF EInv, IInv, TypeOK
  <1>1. ASSUME NEW S, Fault(S)
        PROVE  faults' # 0
    BY <1>0, <1>1 DEF Fault
  <1>2. ASSUME NEW n \in Nodes,
               UsePreferred(n) \/ Dial(n) \/ DialDone(n) \/ DialFails(n) \/ Write(n) \/ Drained(n) \/ WriteFails(n)
        PROVE  UNCHANGED faultVars
    BY <1>2 DEF UsePreferred, Dial, DialDone, DialFails, Write, Drained, WriteFails
  <1>3. ASSUME NEW n \in Nodes, DialRefused(n) \/ AckRefused(n) \/ CancelSend(n)
        PROVE  faults' # 0
    BY <1>1, <1>3 DEF DialRefused, AckRefused, CancelSend
  <1>4. ASSUME NEW n \in Nodes, NEW c \in Conns, Accept(n, c) \/ AcceptFails(n, c) \/ Read(n, c) \/ ReadEnds(n, c)
        PROVE  UNCHANGED faultVars
    BY <1>4 DEF Accept, AcceptFails, Read, ReadEnds
  <1>5. ASSUME NEW n \in Nodes, NEW c \in Conns, HelloRefused(n, c) \/ Reset(c)
        PROVE  faults' # 0
    BY <1>1, <1>5 DEF HelloRefused, Reset
  <1>6. ASSUME NEW c \in Conns, Reset(c)
        PROVE  faults' # 0
    BY <1>1, <1>6 DEF Reset
  <1>. QED  BY <1>2, <1>3, <1>4, <1>5, <1>6 DEF Next, Runs, Writer, Receives, Listener, Reader, Faulty

LEMMA RestStarts == Init => RestInv
  <1>. SUFFICES ASSUME Init
                PROVE  RestInv
    OBVIOUS
  <1>1. OrderInv /\ BlameInv
    BY OrderStarts, Accounts
  <1>2. \A n \in Nodes, c \in Conns : end[n][c] = "none" /\ stream[n][c] = <<>>
    BY DEF Init
  <1>3. \A c \in Conns : ConnOk(c)
    BY <1>2, Others DEF ConnOk, EndOk, Open
  <1>4. \A n \in Nodes : Gone(n) = 0 /\ received[n] = <<>>
    BY ConnectionsAssumption DEF Init, Gone
  <1>5. Over /\ Known
    BY <1>4 DEF Over, Known
  <1>. QED  BY <1>1, <1>3, <1>5 DEF RestInv, Init

LEMMA RestKept == RestInv /\ [Next]_vars => RestInv'
  <1>1. ASSUME RestInv, Next
        PROVE  RestInv'
    <2>1. OrderInv' /\ BlameInv'
      BY <1>1, OrderKept, Accounts DEF RestInv
    <2>2. EInv
      BY <1>1 DEF RestInv, BlameInv
    <2>3. (\A c \in Conns : ConnOk(c))'
      BY <1>1, <2>2, ConnOkKept DEF RestInv
    <2>4. Over' /\ Known'
      BY <1>1, <2>2, OverKept, KnownKept DEF RestInv
    <2>5. faults' = 0 => hit' = {}
      BY <1>1, <2>2, FaultCounts DEF RestInv, faultVars
    <2>. QED  BY <2>1, <2>3, <2>4, <2>5 DEF RestInv
  <1>2. ASSUME RestInv, UNCHANGED vars
        PROVE  RestInv'
    <2>1. OrderInv' /\ BlameInv'
      BY <1>2, OrderKept, Accounts DEF RestInv
    <2>2. UNCHANGED <<end, stream, outbox, outcome, received, hit, faults>>
      BY <1>2 DEF vars, endVars, sendVars, faultVars
    <2>3. \A c \in Conns : ConnOk(c)' = ConnOk(c)
      BY <2>2 DEF ConnOk, EndOk, Open, Ended
    <2>4. Over' = Over /\ Known' = Known
      BY <2>2 DEF Over, Known, Gone
    <2>. QED  BY <1>2, <2>1, <2>2, <2>3, <2>4 DEF RestInv
  <1>. QED  BY <1>1, <1>2

\* At rest no end is half open, and nothing is unread on one that is open.
LEMMA RestingEnds ==
  ASSUME RestInv, AtRest, NEW n \in Nodes
  PROVE  /\ At(n, "idle")
         /\ \A c \in Conns : Open(n, c) => end[n][c] = "up" /\ stream[n][c] = <<>>
  <1>1. /\ EInv /\ TypeOK /\ Roles /\ \A c \in Conns : ConnOk(c)
        /\ writer[n].pc \in {"idle", "dial", "write", "drain"} /\ Other(n) \in Nodes /\ Other(Other(n)) = n
    BY Others DEF RestInv, BlameInv, EInv, IInv, TypeOK, OrderInv, PlaceInv, WritesInv, RolesInv
  <1>2. ~WriterCan(n) /\ \A o \in Nodes, c \in Conns : ~ReceiverCan(o, c)
    BY DEF AtRest
  <1>3. \A o \in Nodes, c \in Conns : end[o][c] # "accepting"
    <2>. SUFFICES ASSUME NEW o \in Nodes, NEW c \in Conns, end[o][c] = "accepting" PROVE FALSE
      OBVIOUS
    <2>1. stream[o][c] \in {<<"HELLO">>, <<"HELLO", "EOF">>, <<"RST">>}
      BY <1>1 DEF ConnOk, EndOk
    <2>2. /\ \A f : <<f>> # <<>> /\ Head(<<f>>) = f
          /\ \A f, g : <<f, g>> # <<>> /\ Head(<<f, g>>) = f
      OBVIOUS
    <2>3. First(o, c) \in {"HELLO", "RST"}
      BY <2>1, <2>2 DEF First
    <2>. QED  BY <1>2, <2>3 DEF ReceiverCan
  <1>4. writer[n].pc # "dial"
    <2>. SUFFICES ASSUME writer[n].pc = "dial" PROVE FALSE
      OBVIOUS
    <2>. DEFINE c == writer[n].conn
    <2>1. c \in Conns /\ end[n][c] = "dialling"
      BY <1>1 DEF EInv, IInv, Writing, WriterEnds
    <2>2. EndOk(n, c) /\ end[Other(n)][c] # "accepting"
      BY <1>1, <1>3, <2>1 DEF ConnOk
    <2>3. First(n, c) \in {"ACK", "EOF", "RST"}
      BY <2>1, <2>2 DEF EndOk, First
    <2>. QED  BY <1>2, <2>3 DEF WriterCan, At
  <1>5. At(n, "idle")
    BY <1>1, <1>2, <1>4 DEF WriterCan, At
  <1>6. ASSUME NEW c \in Conns, Open(n, c)
        PROVE  end[n][c] = "up" /\ stream[n][c] = <<>>
    <2>1. end[n][c] = "up"
      BY <1>1, <1>3, <1>4, <1>6 DEF Open, Roles
    <2>2. stream[n][c] \in Seq(Payload(n))
      BY <1>1, <2>1 DEF ConnOk, EndOk
    <2>3. ASSUME stream[n][c] # <<>>
          PROVE  FALSE
      <3>1. Head(stream[n][c]) \in Payload(n)
        BY <2>2, <2>3, PayloadFrames
      <3>2. Outbox[Other(n)] \in Seq(Msgs)
        BY <1>1, ConnectionsAssumption
      <3>3. ToSet(Outbox[Other(n)]) \subseteq Msgs
        BY <3>2 DEF ToSet
      <3>4. First(n, c) \in Msgs \cup {"EOF", "RST"}
        BY <2>3, <3>1, <3>3 DEF First, Payload
      <3>. QED  BY <1>2, <2>1, <3>4 DEF ReceiverCan
    <2>. QED  BY <2>1, <2>3
  <1>. QED  BY <1>5, <1>6

\* At rest, what one node uses the other uses too.
LEMMA RestingSame ==
  ASSUME RestInv, AtRest, NEW n \in Nodes
  PROVE  Registered(n) \subseteq Registered(Other(n))
  <1>. SUFFICES ASSUME NEW c \in Conns, end[n][c] = "up" PROVE end[Other(n)][c] = "up"
    BY DEF Registered
  <1>1. Other(n) \in Nodes /\ EndOk(n, c)
    BY Others DEF RestInv, ConnOk
  <1>2. end[Other(n)][c] # "dialling"
    BY <1>1, RestingEnds DEF Open
  <1>3. stream[n][c] = <<>>
    BY RestingEnds DEF Open
  <1>4. end[Other(n)][c] \notin {"dropped", "closed"}
    BY <1>1, <1>3 DEF EndOk, Open, Ended
  <1>. QED  BY <1>1, <1>2, <1>4 DEF EndOk

\* At rest, without a fault, a message of an outbox that is empty has arrived.
LEMMA RestingArrived ==
  ASSUME RestInv, AtRest, faults = 0, NEW n \in Nodes, outbox[n] = <<>>
  PROVE  ToSet(received[Other(n)]) = ToSet(Outbox[n])
  <1>. DEFINE o == Other(n)
  <1>1. /\ o \in Nodes /\ Other(o) = n /\ EInv /\ IInv /\ TypeOK /\ hit = {} /\ Outbox[n] \in Seq(Msgs)
        /\ received[o] \in Seq(Msgs)
    BY Others, ConnectionsAssumption DEF RestInv, BlameInv, EInv, IInv, TypeOK
  <1>2. ToSet(received[o]) \subseteq ToSet(Outbox[n])
    BY <1>1 DEF RestInv, Known, ToSet
  <1>3. Failed(n) = {}
    <2>1. Failed(n) \subseteq ToSet(Outbox[n]) /\ Owing(n) \subseteq hit /\ IsFiniteSet(hit)
      BY DEF Failed, Owing, RestInv, BlameInv
    <2>2. IsFiniteSet(Failed(n)) /\ IsFiniteSet(Owing(n))
      BY <2>1, FiniteOutbox, FS_Subset
    <2>3. Cardinality(Failed(n)) \in Nat /\ Cardinality(Owing(n)) \in Nat
      BY <2>2, FS_CardinalityType
    <2>4. Cardinality(Failed(n)) + Cardinality(Owing(n)) <= 0
      BY DEF RestInv, BlameInv, Blame
    <2>5. Cardinality(Failed(n)) = 0
      BY <2>3, <2>4
    <2>. QED  BY <2>2, <2>5, FS_EmptySet
  <1>4. ASSUME NEW m \in ToSet(Outbox[n])
        PROVE  m \in ToSet(received[o])
    <2>1. Gone(n) = Len(Outbox[n])
      BY <1>1 DEF Gone
    <2>2. PICK j \in 1 .. Len(Outbox[n]) : Outbox[n][j] = m
      BY <1>4 DEF ToSet
    <2>3. outcome[m] # "queued" /\ m \in Msgs
      BY <1>1, <2>1, <2>2 DEF RestInv, Over
    <2>4. outcome[m] \in {"queued", "sent", "failed"} /\ outcome[m] # "failed"
      BY <1>1, <1>3, <1>4, <2>3 DEF TypeOK, Failed
    <2>5. Delivered(n, m)
      BY <1>1, <1>4, <2>3, <2>4 DEF IInv, Deliveries
    <2>6. CASE Contains(stream[o][via[m]], m) /\ Open(o, via[m])
      <3>1. stream[o][via[m]] = <<>>
        BY <1>1, <2>5, <2>6, RestingEnds DEF Delivered
      <3>. QED  BY <2>6, <3>1 DEF Contains
    <2>7. CASE Contains(received[o], m)
      BY <1>1, <2>7 DEF Contains, ToSet
    <2>. QED  BY <1>1, <2>5, <2>6, <2>7 DEF Delivered
  <1>. QED  BY <1>2, <1>4

\* The safety that ConnectionsSettle rests on: whenever no writer, listener or
\* reader of the two nodes can go on, both have registered the same connections,
\* no handshake is left half done and nothing is unread; nothing waits to be sent,
\* and what was sent without a fault has arrived.  So nodes whose dials cross
\* never end up waiting for each other, or each on a connection the other has
\* given up (comm.py:504-657).
THEOREM RestMeansAgreement == Spec => []RestIsAgreement
  <1>1. ASSUME RestInv, AtRest, UnusedConn, NEW n \in Nodes
        PROVE  outbox[n] = <<>>
    <2>1. ~WriterCan(n)
      BY <1>1 DEF AtRest
    <2>. QED  BY <1>1, <2>1, RestingEnds DEF WriterCan, UnusedConn
  <1>2. ASSUME RestInv, AtRest
        PROVE  \A n \in Nodes : Registered(n) = Registered(Other(n))
    <2>. SUFFICES ASSUME NEW n \in Nodes PROVE Registered(n) = Registered(Other(n))
      OBVIOUS
    <2>1. Other(n) \in Nodes /\ Other(Other(n)) = n
      BY Others
    <2>2. Registered(n) \subseteq Registered(Other(n))
      BY <1>2, RestingSame
    <2>3. Registered(Other(n)) \subseteq Registered(Other(Other(n)))
      BY <1>2, <2>1, RestingSame
    <2>. QED  BY <2>1, <2>2, <2>3
  <1>3. ASSUME RestInv, AtRest, UnusedConn, faults = 0
        PROVE  AllArrive
    BY <1>1, <1>3, RestingArrived DEF AllArrive
  <1>4. RestInv => RestIsAgreement
    BY <1>1, <1>2, <1>3, RestingEnds DEF RestIsAgreement
  <1>. QED  BY <1>4, RestStarts, RestKept, PTL DEF Spec
=============================================================================
