--------------------------- MODULE SessionProofs ---------------------------
(***************************************************************************)
(* Theorems about Session and LoadStreams for every set of valid settings, *)
(* every number of streams and probes, and failures anywhere.              *)
(***************************************************************************)
EXTENDS Session, DataLemmas, SequenceTheorems, TLAPS

---------------------------------------------------------------------------
(* The script                                                              *)

OpNames == Transfers \cup {"hello", "diagnostics", "ping", "tensor_ping", "tensor_structures", "stop"}

Ops(b) == [op : OpNames, size : Nat, count : Nat]
          \cup [op : {"load"}, size : {0}, count : {0}, load : [direction : b.directions, streams : Nat \ {0}]]

\* A script is a sequence of requests that ends with "stop".
Shape(b, p) == p \in Seq(Ops(b)) /\ Len(p) > 0 /\ p[Len(p)].op = "stop"

LEMMA CountType ==
  ASSUME NEW b, ValidBenchmark(b), NEW size \in Nat \ {0}
  PROVE  MessageCount(b, size) \in Nat
  <1>1. b.target \in Nat /\ b.least \in Nat /\ b.most \in Nat
    BY DEF ValidBenchmark
  <1>2. (b.target + size - 1) \div size \in Int
    BY <1>1
  <1>. DEFINE target == (b.target + size - 1) \div size
  <1>3. target \in Int
    BY <1>2
  <1>. HIDE DEF target
  <1>4. GreatestOf(b.least, target) \in Nat
    BY <1>1, <1>3 DEF GreatestOf
  <1>5. LeastOf(b.most, GreatestOf(b.least, target)) \in Nat
    BY <1>1, <1>4 DEF LeastOf
  <1>. QED  BY <1>5 DEF MessageCount, target

LEMMA RepeatType ==
  ASSUME NEW b, NEW op \in Ops(b), NEW n \in Nat
  PROVE  Repeat(op, n) \in Seq(Ops(b))
  <1>1. Repeat(op, n) \in [1 .. n -> Ops(b)]
    BY DEF Repeat
  <1>. QED  BY <1>1, FunctionIsSeq

LEMMA OpType ==
  ASSUME NEW b, NEW name \in OpNames, NEW size \in Nat, NEW count \in Nat
  PROVE  Op(name, size, count) \in Ops(b)
  BY DEF Op, Ops

LEMMA TransferType ==
  ASSUME NEW b, ValidBenchmark(b), NEW size \in Nat \ {0}
  PROVE  TransferOps(b, size) \in Seq(Ops(b))
  <1>. DEFINE Trials(d) == IF d \in b.directions THEN Repeat(Op(d, size, MessageCount(b, size)), b.trials) ELSE <<>>
  <1>1. b.trials \in Nat /\ MessageCount(b, size) \in Nat
    BY CountType DEF ValidBenchmark
  <1>2. \A d \in Transfers : Trials(d) \in Seq(Ops(b))
    <2>. SUFFICES ASSUME NEW d \in Transfers PROVE Trials(d) \in Seq(Ops(b))
      OBVIOUS
    <2>1. Op(d, size, MessageCount(b, size)) \in Ops(b)
      BY <1>1, OpType DEF OpNames
    <2>2. Repeat(Op(d, size, MessageCount(b, size)), b.trials) \in Seq(Ops(b))
      BY <1>1, <2>1, RepeatType
    <2>. QED  BY <2>2
  <1>3. Trials("upload") \in Seq(Ops(b)) /\ Trials("download") \in Seq(Ops(b)) /\ Trials("bidirectional") \in Seq(Ops(b))
    BY <1>2 DEF Transfers
  <1>4. TransferOps(b, size) = Trials("upload") \o Trials("download") \o Trials("bidirectional")
    BY DEF TransferOps
  <1>. HIDE DEF Trials
  <1>. QED  BY <1>3, <1>4

LEMMA ScriptShape ==
  ASSUME NEW b, ValidBenchmark(b)
  PROVE  Shape(b, ScriptOf(b))
  <1>. DEFINE S == Seq(Ops(b))
              opening == <<Op("hello", 0, 0), Op("diagnostics", 0, 0)>>
              pings == Repeat(Op("ping", 0, 0), b.pings)
              ss == [k \in 1 .. Len(b.sizes) |-> TransferOps(b, b.sizes[k])]
              tensors == IF b.tensors = 0 THEN <<>>
                         ELSE Repeat(Op("tensor_ping", 0, 0), b.tensors) \o <<Op("tensor_structures", 0, 0)>>
              loads == [k \in 1 .. Len(b.loads) |-> [op |-> "load", size |-> 0, count |-> 0, load |-> b.loads[k]]]
              last == Op("stop", 0, 0)
              before == opening \o pings \o FlattenSeq(ss) \o tensors \o loads
  <1>0. \A name \in OpNames : Op(name, 0, 0) \in Ops(b)
    BY OpType
  <1>1. /\ Op("hello", 0, 0) \in Ops(b) /\ Op("diagnostics", 0, 0) \in Ops(b) /\ Op("ping", 0, 0) \in Ops(b)
        /\ Op("tensor_ping", 0, 0) \in Ops(b) /\ Op("tensor_structures", 0, 0) \in Ops(b) /\ last \in Ops(b)
    BY <1>0 DEF OpNames
  <1>2. opening \in S
    BY <1>1
  <1>3. pings \in S
    BY <1>1, RepeatType DEF ValidBenchmark
  <1>4. FlattenSeq(ss) \in S
    <2>1. b.sizes \in Seq(Nat \ {0})
      BY DEF ValidBenchmark
    <2>2. \A k \in 1 .. Len(b.sizes) : b.sizes[k] \in Nat \ {0}
      BY <2>1
    <2>3. \A k \in 1 .. Len(b.sizes) : TransferOps(b, b.sizes[k]) \in S
      BY <2>2, TransferType
    <2>4. Len(b.sizes) \in Nat
      BY <2>1
    <2>5. ss \in [1 .. Len(b.sizes) -> S]
      BY <2>3
    <2>6. ss \in Seq(S)
      BY <2>4, <2>5, FunctionIsSeq
    <2>7. <<>> \in S /\ \A x, y \in S : x \o y \in S
      BY ConcatProperties
    <2>. HIDE DEF S, ss
    <2>. QED  BY <2>6, <2>7, Flattened
  <1>5. tensors \in S
    <2>1. b.tensors \in Nat
      BY DEF ValidBenchmark
    <2>2. Repeat(Op("tensor_ping", 0, 0), b.tensors) \in S
      BY <1>1, <2>1, RepeatType
    <2>3. <<Op("tensor_structures", 0, 0)>> \in S
      BY <1>1
    <2>. QED  BY <2>2, <2>3
  <1>6. loads \in S
    <2>. DEFINE Loads == [direction : b.directions, streams : Nat \ {0}]
    <2>1. b.loads \in Seq(Loads)
      BY DEF ValidBenchmark
    <2>2. \A l \in Loads : [op |-> "load", size |-> 0, count |-> 0, load |-> l] \in Ops(b)
      BY DEF Ops
    <2>. HIDE DEF Loads
    <2>3. \A k \in 1 .. Len(b.loads) : b.loads[k] \in Loads
      BY <2>1
    <2>4. loads \in [1 .. Len(b.loads) -> Ops(b)] /\ Len(b.loads) \in Nat
      BY <2>1, <2>2, <2>3
    <2>. QED  BY <2>4, FunctionIsSeq
  <1>7. ScriptOf(b) = before \o <<last>>
    BY DEF ScriptOf
  <1>8. last.op = "stop"
    BY DEF Op
  <1>. HIDE DEF S, opening, pings, ss, tensors, loads, last
  <1>9. before \in S
    BY <1>2, <1>3, <1>4, <1>5, <1>6 DEF S
  <1>. HIDE DEF before
  <1>10. before \in Seq(Ops(b)) /\ last \in Ops(b)
    BY <1>1, <1>9 DEF S
  <1>11. /\ before \o <<last>> \in Seq(Ops(b)) /\ Len(before \o <<last>>) = Len(before) + 1
         /\ (before \o <<last>>)[Len(before) + 1] = last /\ Len(before) \in Nat
    <2>1. before \o <<last>> = Append(before, last)
      BY <1>10, AppendIsConcat
    <2>2. Append(before, last) \in Seq(Ops(b)) /\ Len(Append(before, last)) = Len(before) + 1
          /\ Append(before, last)[Len(before) + 1] = last
      BY <1>10, AppendProperties
    <2>. QED  BY <1>10, <2>1, <2>2
  <1>. QED  BY <1>7, <1>8, <1>11 DEF Shape

---------------------------------------------------------------------------
(* The server of the load                                                  *)

\* close() has all handlers in view, because the socket it closed first accepts
\* no more; and only a responder on its way out closes the socket.
ServerInv ==
    /\ handler \in [Streams -> {"none", "waiting", "serving", "done"}]
    /\ server \in {"none", "listening", "closing", "closed"}
    /\ server = "none" => \A s \in Streams : handler[s] = "none"
    /\ server = "closing" => Serving \subseteq awaited
    /\ server = "closed" => Serving = {} /\ rstatus # "run"
    /\ server = "closing" /\ rstatus = "run" => rpoint = "leaving"
    /\ rstatus = "done" => server \in {"none", "closed"}

\* What a step does to the server: nothing, let it listen, begin or end its
\* closing, or end it with its process.
ServerKept == UNCHANGED <<server, awaited, rstatus>> /\ (rstatus = "run" => rpoint' = rpoint \/ rpoint = "recv" \/ rpoint = "data")

LEMMA ServerSteps ==
  ASSUME [Next]_vars
  PROVE  \/ ServerKept /\ handler' = handler
         \/ ServerKept /\ \E s \in Streams : Accept(s) \/ Serve(s) \/ HandlerEnds(s)
         \/ ResServes /\ rstatus = "run"
         \/ ResCloses /\ rstatus = "run"
         \/ ResReturns /\ rstatus = "run"
         \/ ServerExits /\ rstatus = "run" /\ rstatus' \in {"failed", "rejected"}
  <1>. USE DEF ServerKept, resVars, loadVars, iniVars
  <1>1. ASSUME IniStep \/ IniBreaks
        PROVE  ServerKept /\ handler' = handler
    BY <1>1 DEF IniStep, IniBreaks, IniAsk, IniAnswered, IniSends, IniReceives, IniCompletes, IniStartsLoad, IniProbes,
       IniProbed, IniJoins, IniLosesPeer, IniEnds, ClientExits, Advance, RunLoad
  <1>2. ASSUME ResStep
        PROVE  \/ ServerKept /\ handler' = handler
               \/ ResServes /\ rstatus = "run"
               \/ ResCloses /\ rstatus = "run"
               \/ ResReturns /\ rstatus = "run"
               \/ ServerExits /\ rstatus = "run" /\ rstatus' \in {"failed", "rejected"}
    BY <1>2 DEF ResStep, ResSends, ResReceives, ResCompletes, ResLosesPeer, ResEnds
  <1>3. CASE TaskStep
    BY <1>3 DEF TaskStep, Go, LoadEnds
  <1>4. ASSUME NEW s \in Streams, ConnStep(s)
        PROVE  ServerKept /\ (handler' = handler \/ Accept(s) \/ Serve(s) \/ HandlerEnds(s))
    BY <1>4 DEF ConnStep, StreamStep, Opened, OpenFails, ClientEnds, ClientFails, Accept, Serve, HandlerEnds
  <1>5. CASE ResBreaks
    BY <1>5 DEF ResBreaks, ResEnds
  <1>6. CASE Losses
    BY <1>6 DEF Losses, Lose
  <1>7. CASE UNCHANGED vars
    BY <1>7 DEF vars
  <1>. QED  BY <1>1, <1>2, <1>3, <1>4, <1>5, <1>6, <1>7 DEF Next

LEMMA ServerStep ==
  ASSUME ServerInv, [Next]_vars
  PROVE  ServerInv'
  <1>. USE DEF ServerInv, Serving
  <1>1. CASE ServerKept /\ handler' = handler
    BY <1>1 DEF ServerKept
  <1>2. ASSUME ServerKept, NEW s \in Streams, Accept(s) \/ Serve(s) \/ HandlerEnds(s)
        PROVE  ServerInv'
    <2>1. /\ handler' \in [Streams -> {"none", "waiting", "serving", "done"}]
          /\ \A t \in Streams : t # s => handler'[t] = handler[t]
          /\ handler'[s] \in {"waiting", "serving"} => server = "listening" \/ handler[s] \in {"waiting", "serving"}
          /\ server = "none" => FALSE
      BY <1>2 DEF Accept, Serve, HandlerEnds
    <2>. QED  BY <1>2, <2>1 DEF ServerKept
  <1>3. CASE ResServes /\ rstatus = "run"
    BY <1>3 DEF ResServes, Starts
  <1>4. CASE ResCloses /\ rstatus = "run"
    BY <1>4 DEF ResCloses, CloseServer, HandlersToAwait, resVars
  <1>5. CASE ResReturns /\ rstatus = "run"
    BY <1>5 DEF ResReturns, ServerClosed, loadVars
  <1>6. CASE ServerExits /\ rstatus = "run" /\ rstatus' \in {"failed", "rejected"}
    BY <1>6 DEF ServerExits
  <1>. QED  BY <1>1, <1>2, <1>3, <1>4, <1>5, <1>6, ServerSteps

\* LoadServer.close() leaves no handler at work, however the streams end and
\* whoever closes first.
THEOREM NoHandlerLeft == Spec => []NothingLeft
  <1>1. Init => ServerInv
    BY DEF Init, LoadInit, ServerInv, Serving
  <1>2. ServerInv /\ [Next]_vars => ServerInv'
    BY ServerStep
  <1>3. ServerInv => NothingLeft
    BY DEF ServerInv, NothingLeft, Serving
  <1>. QED  BY <1>1, <1>2, <1>3, PTL DEF Spec

---------------------------------------------------------------------------
(* The streams of a load                                                   *)

\* The streams of a load that ended well are closed, and while one is opened or
\* runs only its own are not; the initiator waits for it, or has ended.
LoadInv ==
    /\ client \in [Streams -> {"none", "asking", "ready", "going", "closed", "left"}]
    /\ load \in {"none", "opening", "running", "ok", "failed"}
    /\ load \in {"none", "ok"} => \A s \in Streams : client[s] \in {"none", "closed"}
    /\ load = "opening" => \A s \in Streams : client[s] \in {"none", "closed"} \/ s \in mine
    /\ load = "running" => \A s \in Streams : client[s] \in {"none", "closed"} \/ (s \in mine /\ client[s] = "going")
    /\ istatus = "run" /\ load \notin {"none", "ok"} => ipoint \in {"sleep", "pong"}

---------------------------------------------------------------------------
(* The protocol                                                            *)

ToIni == net["ini"]["control"]
ToRes == net["res"]["control"]
IniData == net["ini"]["data"]
ResData == net["res"]["data"]

NoData == IniData = <<>> /\ ResData = <<>>

\* The initiator's request m is on its way.
Asking(m) == ToRes = <<m>> /\ ToIni = <<>> /\ NoData /\ rpoint = "recv"

\* The responder has answered with m.
Replied(m) == ToRes = <<>> /\ ToIni = <<m>> /\ NoData /\ rpoint = "recv"

Stopped ==
    /\ ToRes = <<>> /\ NoData /\ rpoint = "leaving"
    /\ ToIni = <<Message("stopped", ipc, 0)>> \/ (ToIni = <<>> /\ istatus = "done")

\* What the initiator has still to send and to receive of a transfer.
Expected == IF ipoint = "data" THEN ileft ELSE Left(Asked, UpOps, DownOps)

\* Both are in the same transfer: what one side has still to send, and what is
\* on its way, is what the other has still to receive.
Transferring ==
    /\ rat = ipc /\ Asked.op \in Transfers /\ ToRes = <<>>
    /\ rpoint = "data" \/ (rpoint = "recv" /\ Transferred(rleft))
    /\ ToIni = CASE ipoint = "answer" /\ rpoint = "data" -> <<Message("ready", ipc, 0)>>
                 [] ipoint = "answer" /\ rpoint = "recv" -> <<Message("ready", ipc, 0), Message("complete", ipc, 0)>>
                 [] ipoint = "data" /\ rpoint = "data"   -> <<>>
                 [] ipoint = "data" /\ rpoint = "recv"   -> <<Message("complete", ipc, 0)>>
    /\ IniData \in Seq({Message("payload", ipc, 0)}) /\ ResData \in Seq({Message("payload", ipc, 0)})
    /\ Expected \in [send : Nat, recv : Nat] /\ rleft \in [send : Nat, recv : Nat]
    /\ Expected.send + Len(ResData) = rleft.recv
    /\ rleft.send + Len(IniData) = Expected.recv

Places ==
    /\ bench \in Benchmarks /\ ipc \in 1 .. Len(Script[bench]) /\ probes \in Nat
    /\ net = [node \in {"ini", "res"} |-> [tag \in {"control", "data"} |-> net[node][tag]]]
    /\ ipoint \in {"ask", "answer", "data", "sleep", "pong"}
    /\ ipoint \in {"sleep", "pong"} => Asked.op = "load"
    /\ ipoint = "answer" => Asked.op # "load"

\* Where the messages are, by what the initiator does.
Messages ==
    /\ ipoint \in {"ask", "sleep"} => ToIni = <<>> /\ ToRes = <<>> /\ NoData /\ rpoint = "recv"
    /\ ipoint = "pong" => Asking(Message("ping", ipc, probes - 1)) \/ Replied(Message("pong", ipc, probes - 1))
    /\ ipoint = "answer" =>
        \/ Asking(Message(Asked.op, ipc, 0))
        \/ Asked.op \notin Transfers \cup {"stop"} /\ Replied(Message(Answer(Asked.op), ipc, 0))
        \/ Asked.op = "stop" /\ Stopped
        \/ Transferring
    /\ ipoint = "data" => Transferring

ProtocolInv == Places /\ Messages /\ NobodyRejected

---------------------------------------------------------------------------
(* Every step keeps the streams in order                                   *)

\* What a step does to the streams: nothing, open those of a load, close them
\* all with the initiator's process, or move one or all of a load.
LoadKept ==
    /\ UNCHANGED <<load, mine, client>>
    /\ istatus' = "run" => istatus = "run" /\ (load \in {"none", "ok"} \/ ipoint' \in {"sleep", "pong"})

LEMMA LoadSteps ==
  ASSUME LoadInv, [Next]_vars
  PROVE  \/ LoadKept
         \/ ClientExits /\ istatus' # "run"
         \/ load \in {"none", "ok"} /\ ipoint' = "sleep" /\ \E d, n : RunLoad(d, n)
         \/ UNCHANGED <<istatus, ipoint>> /\ (Go \/ LoadEnds)
         \/ UNCHANGED <<istatus, ipoint>> /\ \E s \in Streams : StreamStep(s)
  <1>. USE DEF LoadKept, resVars, loadVars, iniVars
  <1>1. ASSUME IniStep
        PROVE  \/ LoadKept
               \/ ClientExits /\ istatus' # "run"
               \/ load \in {"none", "ok"} /\ ipoint' = "sleep" /\ \E d, n : RunLoad(d, n)
    <2>1. istatus = "run" /\ (load \in {"none", "ok"} \/ ipoint \in {"sleep", "pong"})
      BY <1>1 DEF IniStep, LoadInv
    <2>2. CASE IniAsk \/ IniAnswered
      BY <2>1, <2>2 DEF IniAsk, IniAnswered, IniEnds, Advance
    <2>3. CASE IniSends \/ IniReceives \/ IniCompletes
      BY <2>1, <2>3 DEF IniSends, IniReceives, IniCompletes, IniEnds, Advance
    <2>4. CASE IniStartsLoad
      BY <2>1, <2>4 DEF IniStartsLoad
    <2>5. CASE IniProbes \/ IniProbed
      BY <2>1, <2>5 DEF IniProbes, IniProbed, IniEnds
    <2>6. CASE IniJoins
      BY <2>1, <2>6 DEF IniJoins, IniEnds, Advance, LoadDone
    <2>7. CASE IniLosesPeer
      BY <2>7 DEF IniLosesPeer, IniEnds
    <2>. QED  BY <1>1, <2>2, <2>3, <2>4, <2>5, <2>6, <2>7 DEF IniStep
  <1>2. ASSUME IniBreaks
        PROVE  ClientExits /\ istatus' # "run"
    BY <1>2 DEF IniBreaks, IniEnds
  <1>3. CASE ResStep \/ ResBreaks
    <2>1. UNCHANGED <<load, mine, client, istatus, ipoint>>
      BY <1>3 DEF ResStep, ResBreaks, ResServes, ResSends, ResReceives, ResCompletes, ResCloses, ResReturns, ResLosesPeer,
         ResEnds, ServerExits, CloseServer, ServerClosed
    <2>. QED  BY <2>1 DEF LoadInv
  <1>4. CASE TaskStep
    BY <1>4 DEF TaskStep
  <1>5. CASE \E s \in Streams : ConnStep(s)
    BY <1>5 DEF ConnStep
  <1>6. CASE Losses
    BY <1>6 DEF Losses, Lose, LoadInv
  <1>7. CASE UNCHANGED vars
    BY <1>7 DEF vars, LoadInv
  <1>. QED  BY <1>1, <1>2, <1>3, <1>4, <1>5, <1>6, <1>7 DEF Next

LEMMA LoadStep ==
  ASSUME LoadInv, [Next]_vars
  PROVE  LoadInv'
  <1>. USE DEF LoadInv
  <1>1. CASE LoadKept
    BY <1>1 DEF LoadKept
  <1>2. CASE ClientExits /\ istatus' # "run"
    BY <1>2 DEF ClientExits
  <1>3. ASSUME load \in {"none", "ok"}, ipoint' = "sleep", NEW d, NEW n, RunLoad(d, n)
        PROVE  LoadInv'
    BY <1>3 DEF RunLoad
  <1>4. CASE UNCHANGED <<istatus, ipoint>> /\ (Go \/ LoadEnds)
    BY <1>4 DEF Go, LoadEnds
  <1>5. ASSUME UNCHANGED <<istatus, ipoint>>, NEW s \in Streams, StreamStep(s)
        PROVE  LoadInv'
    <2>1. CASE Opened(s)
      BY <1>5, <2>1 DEF Opened
    <2>2. CASE OpenFails(s) \/ ClientFails(s)
      BY <1>5, <2>2 DEF OpenFails, ClientFails
    <2>3. CASE ClientEnds(s)
      BY <1>5, <2>3 DEF ClientEnds
    <2>4. CASE Accept(s) \/ Serve(s) \/ HandlerEnds(s)
      BY <1>5, <2>4 DEF Accept, Serve, HandlerEnds
    <2>. QED  BY <1>5, <2>1, <2>2, <2>3, <2>4 DEF StreamStep
  <1>. QED  BY <1>1, <1>2, <1>3, <1>4, <1>5, LoadSteps

---------------------------------------------------------------------------
(* Every step keeps the protocol                                           *)

LEMMA ShortQueues ==
  ASSUME NEW m, NEW n
  PROVE  /\ Append(<<>>, m) = <<m>> /\ Append(<<m>>, n) = <<m, n>>
         /\ Head(<<m>>) = m /\ Tail(<<m>>) = <<>> /\ <<m>> # <<>>
         /\ Head(<<m, n>>) = m /\ Tail(<<m, n>>) = <<n>> /\ <<m, n>> # <<>>
  <1>1. Append(<<m>>, n) = <<m, n>>
    <2>. DEFINE S == {m, n}
    <2>1. <<m>> \in Seq(S) /\ n \in S /\ Len(<<m>>) = 1 /\ <<m>>[1] = m
      OBVIOUS
    <2>2. /\ Append(<<m>>, n) \in Seq(S) /\ Len(Append(<<m>>, n)) = 2
          /\ Append(<<m>>, n)[1] = m /\ Append(<<m>>, n)[2] = n
      BY <2>1, AppendProperties
    <2>3. <<m, n>> \in Seq(S) /\ Len(<<m, n>>) = 2 /\ <<m, n>>[1] = m /\ <<m, n>>[2] = n
      OBVIOUS
    <2>4. \A i \in 1 .. 2 : i = 1 \/ i = 2
      OBVIOUS
    <2>. QED  BY <2>2, <2>3, <2>4, SeqEqual
  <1>2. Append(<<>>, m) = <<m>>
    OBVIOUS
  <1>3. Head(<<m>>) = m /\ Tail(<<m>>) = <<>> /\ <<m>> # <<>>
    OBVIOUS
  <1>4. Head(<<m, n>>) = m /\ <<m, n>> # <<>>
    OBVIOUS
  <1>5. Tail(<<m, n>>) = <<n>>
    OBVIOUS
  <1>. QED  BY <1>1, <1>2, <1>3, <1>4, <1>5

\* What Put and Take leave in the four queues.
LEMMA PutQueues ==
  ASSUME Places, NEW dst \in {"ini", "res"}, NEW tag \in {"control", "data"}, NEW m, Put(dst, tag, m)
  PROVE  /\ net' = [node \in {"ini", "res"} |-> [t \in {"control", "data"} |-> net'[node][t]]]
         /\ net'[dst][tag] = Append(net[dst][tag], m)
         /\ \A node \in {"ini", "res"}, t \in {"control", "data"} :
                node # dst \/ t # tag => net'[node][t] = net[node][t]
  BY DEF Put, Places

LEMMA TakeQueues ==
  ASSUME Places, NEW dst \in {"ini", "res"}, NEW tag \in {"control", "data"}, Take(dst, tag)
  PROVE  /\ net' = [node \in {"ini", "res"} |-> [t \in {"control", "data"} |-> net'[node][t]]]
         /\ net[dst][tag] # <<>> /\ net'[dst][tag] = Tail(net[dst][tag])
         /\ \A node \in {"ini", "res"}, t \in {"control", "data"} :
                node # dst \/ t # tag => net'[node][t] = net[node][t]
  BY DEF Take, Waiting, Places

\* A payload that is put on its way, or taken, is one of this transfer.
LEMMA DataQueues ==
  ASSUME NEW x, NEW q \in Seq({x})
  PROVE  /\ Len(q) \in Nat /\ Append(q, x) \in Seq({x}) /\ Len(Append(q, x)) = Len(q) + 1
         /\ q # <<>> => /\ Head(q) = x /\ Tail(q) \in Seq({x}) /\ Len(Tail(q)) = Len(q) - 1 /\ Len(q) > 0
         /\ Len(q) = 0 => q = <<>>
         /\ \A m \in ToSet(q) : m = x
  <1>1. q # <<>> => /\ Head(q) = x /\ Tail(q) \in Seq({x}) /\ Len(Tail(q)) = Len(q) - 1 /\ Len(q) > 0
    BY HeadTailProperties
  <1>2. \A m \in ToSet(q) : m = x
    BY DEF ToSet
  <1>3. Len(q) = 0 => q = <<>>
    BY EmptySeq
  <1>4. Append(q, x) \in Seq({x}) /\ Len(Append(q, x)) = Len(q) + 1
    BY AppendProperties
  <1>. QED  BY <1>1, <1>2, <1>3, <1>4

LEMMA ScriptFacts ==
  ASSUME Places
  PROVE  /\ ipc \in Nat /\ Asked.op \in OpNames \cup {"load"}
         /\ Asked.op = "load" => Asked.load \in [direction : Transfers, streams : Nat]
         /\ Left(Asked, UpOps, DownOps) \in [send : Nat, recv : Nat]
         /\ Left(Asked, DownOps, UpOps) \in [send : Nat, recv : Nat]
         /\ Asked.op # "stop" => ipc + 1 \in 1 .. Len(Script[bench])
  <1>1. bench \in Benchmarks /\ ValidBenchmark(bench)
    BY SessionAssumption DEF Places
  <1>2. Shape(bench, Script[bench])
    BY <1>1, ScriptShape DEF Script
  <1>3. Script[bench] \in Seq(Ops(bench)) /\ ipc \in 1 .. Len(Script[bench])
    BY <1>2 DEF Shape, Places
  <1>4. Asked \in Ops(bench)
    BY <1>3, ElementOfSeq DEF Asked
  <1>5. Asked.op \in OpNames \cup {"load"} /\ Asked.count \in Nat
    BY <1>4 DEF Ops, OpNames
  <1>8. ASSUME Asked.op = "load" PROVE Asked.load \in [direction : Transfers, streams : Nat]
    <2>1. Asked \in [op : {"load"}, size : {0}, count : {0}, load : [direction : bench.directions, streams : Nat \ {0}]]
      BY <1>4, <1>8 DEF Ops, OpNames, Transfers
    <2>2. bench.directions \subseteq Transfers
      BY <1>1 DEF ValidBenchmark
    <2>. QED  BY <2>1, <2>2
  <1>6. Len(Script[bench]) \in Nat /\ ipc \in Nat
    BY <1>3
  <1>7. Asked.op # "stop" => ipc # Len(Script[bench])
    BY <1>2 DEF Shape, Asked
  <1>. QED  BY <1>3, <1>5, <1>6, <1>7, <1>8 DEF Left

\* A step after which every message, and who waits for it, is where it was.
LEMMA ProtocolKept ==
  ASSUME ProtocolInv, UNCHANGED <<bench, ipc, ipoint, ileft, probes, rpoint, rat, rleft, net>>,
         istatus' = istatus \/ (istatus = "run" /\ istatus' # "rejected"),
         rstatus' = rstatus \/ (rstatus = "run" /\ rstatus' # "rejected")
  PROVE  ProtocolInv'
  <1>1. /\ Asked' = Asked /\ Expected' = Expected /\ NoData' = NoData
        /\ ToIni' = ToIni /\ ToRes' = ToRes /\ IniData' = IniData /\ ResData' = ResData
    BY DEF Asked, Expected, NoData, ToIni, ToRes, IniData, ResData
  <1>2. Places'
    BY <1>1 DEF ProtocolInv, Places
  <1>3. Transferring' = Transferring
    BY <1>1 DEF Transferring
  <1>4. Stopped => Stopped'
    BY <1>1 DEF Stopped
  <1>5. \A m : Asking(m)' = Asking(m) /\ Replied(m)' = Replied(m)
    BY <1>1 DEF Asking, Replied
  <1>6. Messages'
    BY <1>1, <1>3, <1>4, <1>5 DEF ProtocolInv, Messages
  <1>. QED  BY <1>2, <1>6 DEF ProtocolInv, NobodyRejected

\* The initiator has all it wanted and makes the next request.
LEMMA AdvanceKeeps ==
  ASSUME ProtocolInv, Advance, Asked.op # "stop", probes' = probes, rpoint = "recv", rpoint' = rpoint,
         net' = [node \in {"ini", "res"} |-> [t \in {"control", "data"} |-> net'[node][t]]],
         ToIni' = <<>>, ToRes' = <<>>, IniData' = <<>>, ResData' = <<>>
  PROVE  ProtocolInv'
  <1>1. Places'
    BY ScriptFacts DEF Advance, ProtocolInv, Places, resVars
  <1>2. Messages'
    BY DEF Advance, Messages, NoData
  <1>. QED  BY <1>1, <1>2 DEF ProtocolInv, NobodyRejected, Advance, resVars

---------------------------------------------------------------------------
(* The initiator's steps                                                   *)

LEMMA AskKeeps ==
  ASSUME ProtocolInv, IniAsk, istatus = "run"
  PROVE  ProtocolInv'
  <1>. DEFINE m == Message(Asked.op, ipc, 0)
  <1>1. /\ UNCHANGED <<bench, ipc, ileft, istatus, probes, resVars>> /\ ipoint = "ask" /\ ipoint' = "answer"
        /\ Asked.op # "load" /\ Put("res", "control", m)
    BY DEF IniAsk
  <1>2. ToIni = <<>> /\ ToRes = <<>> /\ NoData /\ rpoint = "recv"
    BY <1>1 DEF ProtocolInv, Messages
  <1>3. /\ net' = [node \in {"ini", "res"} |-> [t \in {"control", "data"} |-> net'[node][t]]]
        /\ ToIni' = <<>> /\ ToRes' = <<m>> /\ NoData'
    BY <1>1, <1>2, PutQueues, ShortQueues DEF ProtocolInv, ToIni, ToRes, NoData, IniData, ResData
  <1>4. Asked' = Asked
    BY <1>1 DEF Asked
  <1>5. Places'
    BY <1>1, <1>3, <1>4 DEF ProtocolInv, Places
  <1>6. Asking(Message(Asked.op, ipc, 0))'
    BY <1>1, <1>2, <1>3, <1>4 DEF Asking, resVars, Message
  <1>7. Messages'
    BY <1>1, <1>6 DEF Messages
  <1>. QED  BY <1>1, <1>5, <1>7 DEF ProtocolInv, NobodyRejected, resVars

\* The queue the initiator takes its answer from, and the others.
LEMMA ControlTaken ==
  ASSUME ProtocolInv, Take("ini", "control")
  PROVE  /\ net' = [node \in {"ini", "res"} |-> [t \in {"control", "data"} |-> net'[node][t]]]
         /\ ToIni # <<>> /\ ToIni' = Tail(ToIni)
         /\ ToRes' = ToRes /\ IniData' = IniData /\ ResData' = ResData /\ (NoData => NoData')
  BY TakeQueues DEF ProtocolInv, ToIni, ToRes, IniData, ResData, NoData

LEMMA AnsweredKeeps ==
  ASSUME ProtocolInv, IniAnswered, istatus = "run"
  PROVE  ProtocolInv'
  <1>. DEFINE m == First("ini", "control")
  <1>0. m = Head(ToIni)
    BY DEF First, ToIni
  <1>1. ipoint = "answer" /\ Take("ini", "control") /\ UNCHANGED <<bench, probes, rpoint, rat, rleft, rstatus>>
    BY DEF IniAnswered, IniEnds, Advance, resVars
  <1>2. /\ net' = [node \in {"ini", "res"} |-> [t \in {"control", "data"} |-> net'[node][t]]]
        /\ ToIni # <<>> /\ ToIni' = Tail(ToIni)
        /\ ToRes' = ToRes /\ IniData' = IniData /\ ResData' = ResData /\ (NoData => NoData')
    BY <1>1, ControlTaken
  <1>3. /\ m.op # Answer(Asked.op) \/ (m.op \in {"pong", "tensor_pong"} /\ m.at # ipc) => IniEnds("rejected")
        /\ m.op = Answer(Asked.op) /\ (m.op \in {"pong", "tensor_pong"} => m.at = ipc) =>
              /\ Asked.op = "stop" => IniEnds("done")
              /\ Asked.op \in Transfers =>
                   ipoint' = "data" /\ ileft' = Left(Asked, UpOps, DownOps) /\ ipc' = ipc /\ istatus' = istatus
              /\ Asked.op \notin Transfers \cup {"stop"} => Advance
    BY Zenon DEF IniAnswered, Transfers
  <1>4. CASE Asked.op \notin Transfers \cup {"stop"} /\ Replied(Message(Answer(Asked.op), ipc, 0))
    <2>1. m = Message(Answer(Asked.op), ipc, 0) /\ ToIni' = <<>>
      BY <1>0, <1>2, <1>4, ShortQueues DEF Replied
    <2>2. Advance
      BY <1>3, <1>4, <2>1 DEF Message
    <2>3. ToRes' = <<>> /\ IniData' = <<>> /\ ResData' = <<>> /\ rpoint = "recv"
      BY <1>2, <1>4 DEF Replied, NoData
    <2>. QED  BY <1>1, <1>2, <1>4, <2>1, <2>2, <2>3, AdvanceKeeps
  <1>5. CASE Asked.op = "stop" /\ Stopped
    <2>1. m = Message("stopped", ipc, 0) /\ ToIni' = <<>>
      BY <1>0, <1>2, <1>5, ShortQueues DEF Stopped
    <2>2. IniEnds("done")
      <3>1. Answer("stop") = "stopped"
        BY DEF Answer, Transfers
      <3>. QED  BY <1>3, <1>5, <2>1, <3>1 DEF Message
    <2>3. UNCHANGED <<ipc, ipoint, ileft>> /\ istatus' = "done" /\ Asked' = Asked
      BY <1>1, <2>2 DEF IniEnds, Asked
    <2>4. Places'
      BY <1>1, <1>2, <2>3 DEF ProtocolInv, Places
    <2>5. Stopped'
      BY <1>1, <1>2, <1>5, <2>1, <2>3 DEF Stopped
    <2>6. Messages'
      BY <1>1, <1>5, <2>3, <2>5 DEF Messages
    <2>. QED  BY <1>1, <2>3, <2>4, <2>6 DEF ProtocolInv, NobodyRejected
  <1>6. CASE Transferring
    <2>1. /\ m = Message("ready", ipc, 0)
          /\ rpoint = "data" => ToIni' = <<>>
          /\ rpoint = "recv" => ToIni' = <<Message("complete", ipc, 0)>>
          /\ rpoint = "data" \/ (rpoint = "recv" /\ Transferred(rleft))
      BY <1>0, <1>1, <1>2, <1>6, ShortQueues DEF Transferring
    <2>2. Asked.op \in Transfers /\ Asked.op # "stop" /\ Answer(Asked.op) = "ready"
      BY <1>6 DEF Transferring, Transfers, Answer
    <2>3. ipoint' = "data" /\ ileft' = Left(Asked, UpOps, DownOps) /\ ipc' = ipc /\ istatus' = istatus
      BY <1>3, <2>1, <2>2 DEF Message
    <2>4. Asked' = Asked /\ Expected' = Expected
      BY <1>1, <2>3 DEF Asked, Expected
    <2>5. Places'
      BY <1>1, <1>2, <2>3 DEF ProtocolInv, Places
    <2>6. Transferring'
      BY <1>1, <1>2, <1>6, <2>1, <2>3, <2>4 DEF Transferring, Transferred
    <2>7. Messages'
      BY <2>3, <2>6 DEF Messages
    <2>. QED  BY <1>1, <2>3, <2>5, <2>7 DEF ProtocolInv, NobodyRejected
  <1>. QED  BY <1>1, <1>2, <1>4, <1>5, <1>6 DEF ProtocolInv, Messages, Asking

LEMMA SendsKeeps ==
  ASSUME ProtocolInv, IniSends
  PROVE  ProtocolInv'
  <1>. DEFINE x == Message("payload", ipc, 0)
  <1>1. /\ UNCHANGED <<bench, ipc, ipoint, istatus, probes, rpoint, rat, rleft, rstatus>>
        /\ ipoint = "data" /\ ileft.send > 0 /\ ileft' = [ileft EXCEPT !.send = @ - 1] /\ Put("res", "data", x)
    BY DEF IniSends, PutPayload, resVars
  <1>2. Transferring
    BY <1>1 DEF ProtocolInv, Messages
  <1>3. /\ net' = [node \in {"ini", "res"} |-> [t \in {"control", "data"} |-> net'[node][t]]]
        /\ ToIni' = ToIni /\ ToRes' = ToRes /\ IniData' = IniData /\ ResData' = Append(ResData, x)
    BY <1>1, PutQueues DEF ProtocolInv, ToIni, ToRes, IniData, ResData
  <1>4. Asked' = Asked /\ Expected = ileft /\ Expected' = ileft'
    BY <1>1 DEF Asked, Expected
  <1>5. ResData' \in Seq({x}) /\ Len(ResData') = Len(ResData) + 1 /\ Len(ResData) \in Nat
    BY <1>2, <1>3, DataQueues DEF Transferring
  <1>6. /\ ileft' \in [send : Nat, recv : Nat] /\ ileft'.send = ileft.send - 1 /\ ileft'.recv = ileft.recv
        /\ ileft.send \in Nat
    BY <1>1, <1>2, <1>4 DEF Transferring
  <1>7. Expected'.send + Len(ResData') = rleft.recv /\ rleft.send + Len(IniData') = Expected'.recv
    BY <1>2, <1>3, <1>4, <1>5, <1>6 DEF Transferring
  <1>8. Places'
    BY <1>1, <1>3, <1>4 DEF ProtocolInv, Places
  <1>9. Transferring'
    BY <1>1, <1>2, <1>3, <1>4, <1>5, <1>6, <1>7 DEF Transferring
  <1>10. Messages'
    BY <1>1, <1>9 DEF Messages
  <1>. QED  BY <1>1, <1>8, <1>10 DEF ProtocolInv, NobodyRejected

LEMMA ReceivesKeeps ==
  ASSUME ProtocolInv, IniReceives
  PROVE  ProtocolInv'
  <1>. DEFINE x == Message("payload", ipc, 0)
  <1>1. ipoint = "data" /\ ileft.recv > 0 /\ Take("ini", "data")
    BY DEF IniReceives
  <1>2. Transferring
    BY <1>1 DEF ProtocolInv, Messages
  <1>3. /\ net' = [node \in {"ini", "res"} |-> [t \in {"control", "data"} |-> net'[node][t]]]
        /\ ToIni' = ToIni /\ ToRes' = ToRes /\ ResData' = ResData /\ IniData # <<>> /\ IniData' = Tail(IniData)
    BY <1>1, TakeQueues DEF ProtocolInv, ToIni, ToRes, IniData, ResData
  <1>4. /\ Head(IniData) = x /\ IniData' \in Seq({x}) /\ Len(IniData') = Len(IniData) - 1
        /\ Len(IniData) \in Nat /\ Len(IniData) > 0
    BY <1>2, <1>3, DataQueues DEF Transferring
  <1>5. SizeAccepted(First("ini", "data"), ipc)
    BY <1>4 DEF SizeAccepted, First, IniData, Message
  <1>6. /\ UNCHANGED <<bench, ipc, ipoint, istatus, probes, rpoint, rat, rleft, rstatus>>
        /\ ileft' = [ileft EXCEPT !.recv = @ - 1]
    BY <1>5 DEF IniReceives, resVars
  <1>7. Asked' = Asked /\ Expected = ileft /\ Expected' = ileft'
    BY <1>1, <1>6 DEF Asked, Expected
  <1>8. /\ ileft' \in [send : Nat, recv : Nat] /\ ileft'.send = ileft.send /\ ileft'.recv = ileft.recv - 1
        /\ ileft.recv \in Nat
    BY <1>1, <1>2, <1>6, <1>7 DEF Transferring
  <1>9. Expected'.send + Len(ResData') = rleft.recv /\ rleft.send + Len(IniData') = Expected'.recv
    BY <1>2, <1>3, <1>4, <1>7, <1>8 DEF Transferring
  <1>10. Places'
    BY <1>1, <1>3, <1>6, <1>7 DEF ProtocolInv, Places
  <1>11. Transferring'
    BY <1>1, <1>2, <1>3, <1>4, <1>6, <1>7, <1>8, <1>9 DEF Transferring
  <1>12. Messages'
    BY <1>1, <1>6, <1>11 DEF Messages
  <1>. QED  BY <1>6, <1>10, <1>12 DEF ProtocolInv, NobodyRejected

LEMMA CompletesKeeps ==
  ASSUME ProtocolInv, IniCompletes
  PROVE  ProtocolInv'
  <1>. DEFINE m == First("ini", "control")
  <1>1. ipoint = "data" /\ Transferred(ileft) /\ Take("ini", "control") /\ UNCHANGED <<bench, probes, rpoint>>
    BY DEF IniCompletes, IniEnds, Advance, resVars
  <1>2. Transferring /\ Expected = ileft
    BY <1>1 DEF ProtocolInv, Messages, Expected
  <1>3. /\ net' = [node \in {"ini", "res"} |-> [t \in {"control", "data"} |-> net'[node][t]]]
        /\ ToIni # <<>> /\ ToIni' = Tail(ToIni)
        /\ ToRes' = ToRes /\ IniData' = IniData /\ ResData' = ResData
    BY <1>1, ControlTaken
  <1>4. rpoint = "recv" /\ Transferred(rleft) /\ ToIni = <<Message("complete", ipc, 0)>> /\ ToRes = <<>>
    BY <1>1, <1>2, <1>3 DEF Transferring
  <1>5. m = Message("complete", ipc, 0) /\ ToIni' = <<>>
    BY <1>3, <1>4, ShortQueues DEF First, ToIni
  <1>6. IniData = <<>> /\ ResData = <<>>
    <2>1. /\ IniData \in Seq({Message("payload", ipc, 0)}) /\ ResData \in Seq({Message("payload", ipc, 0)})
          /\ ileft.send + Len(ResData) = rleft.recv /\ rleft.send + Len(IniData) = ileft.recv
          /\ ileft.send = 0 /\ ileft.recv = 0 /\ rleft.send = 0 /\ rleft.recv = 0
      BY <1>1, <1>2, <1>4 DEF Transferring, Transferred
    <2>2. Len(IniData) = 0 /\ Len(ResData) = 0
      BY <2>1, DataQueues
    <2>. QED  BY <2>1, <2>2, DataQueues
  <1>7. Asked.op # "stop"
    BY <1>2 DEF Transferring, Transfers
  <1>8. Advance
    BY <1>5 DEF IniCompletes, SameWorkload, Asked, Message
  <1>. QED  BY <1>1, <1>3, <1>4, <1>5, <1>6, <1>7, <1>8, AdvanceKeeps

LEMMA StartsLoadKeeps ==
  ASSUME ProtocolInv, IniStartsLoad
  PROVE  ProtocolInv'
  <1>1. /\ UNCHANGED <<bench, ipc, istatus, resVars, net>> /\ ipoint = "ask" /\ ipoint' = "sleep"
        /\ probes' = 0 /\ Asked.op = "load" /\ Asked' = Asked
    BY DEF IniStartsLoad, Asked
  <1>2. Places'
    BY <1>1 DEF ProtocolInv, Places
  <1>3. Messages'
    BY <1>1 DEF ProtocolInv, Messages, ToIni, ToRes, NoData, IniData, ResData, resVars
  <1>. QED  BY <1>1, <1>2, <1>3 DEF ProtocolInv, NobodyRejected, resVars

LEMMA ProbesKeeps ==
  ASSUME ProtocolInv, IniProbes
  PROVE  ProtocolInv'
  <1>. DEFINE m == Message("ping", ipc, probes)
  <1>1. /\ UNCHANGED <<bench, ipc, istatus, resVars>> /\ ipoint = "sleep" /\ ipoint' = "pong"
        /\ probes' = probes + 1 /\ Put("res", "control", m) /\ Asked' = Asked
    BY DEF IniProbes, Asked
  <1>2. ToIni = <<>> /\ ToRes = <<>> /\ NoData /\ rpoint = "recv" /\ probes \in Nat
    BY <1>1 DEF ProtocolInv, Messages, Places
  <1>3. /\ net' = [node \in {"ini", "res"} |-> [t \in {"control", "data"} |-> net'[node][t]]]
        /\ ToIni' = <<>> /\ ToRes' = <<m>> /\ NoData'
    BY <1>1, <1>2, PutQueues, ShortQueues DEF ProtocolInv, ToIni, ToRes, NoData, IniData, ResData
  <1>4. Places'
    BY <1>1, <1>2, <1>3 DEF ProtocolInv, Places
  <1>5. m = Message("ping", ipc, probes - 1)'
    <2>1. probes' - 1 = probes
      BY <1>1, <1>2
    <2>. QED  BY <1>1, <2>1 DEF Message
  <1>6. Asking(Message("ping", ipc, probes - 1))'
    BY <1>1, <1>2, <1>3, <1>5 DEF Asking, resVars
  <1>7. Messages'
    BY <1>1, <1>6 DEF Messages
  <1>. QED  BY <1>1, <1>4, <1>7 DEF ProtocolInv, NobodyRejected, resVars

LEMMA ProbedKeeps ==
  ASSUME ProtocolInv, IniProbed
  PROVE  ProtocolInv'
  <1>. DEFINE m == First("ini", "control")
  <1>1. ipoint = "pong" /\ Take("ini", "control") /\ UNCHANGED <<bench, probes, rpoint, rat, rleft, rstatus>>
    BY DEF IniProbed, IniEnds, resVars
  <1>2. /\ net' = [node \in {"ini", "res"} |-> [t \in {"control", "data"} |-> net'[node][t]]]
        /\ ToIni # <<>> /\ ToIni' = Tail(ToIni) /\ ToRes' = ToRes /\ (NoData => NoData')
    BY <1>1, ControlTaken
  <1>3. Replied(Message("pong", ipc, probes - 1))
    BY <1>1, <1>2 DEF ProtocolInv, Messages, Asking
  <1>4. m = Message("pong", ipc, probes - 1) /\ ToIni' = <<>> /\ ToRes' = <<>> /\ NoData' /\ rpoint = "recv"
    BY <1>2, <1>3, ShortQueues DEF Replied, First, ToIni
  <1>5. ipoint' = "sleep" /\ UNCHANGED <<ipc, istatus>> /\ Asked' = Asked
    BY <1>4 DEF IniProbed, Message, Asked
  <1>6. Places'
    BY <1>1, <1>2, <1>5 DEF ProtocolInv, Places
  <1>7. Messages'
    BY <1>1, <1>4, <1>5 DEF Messages
  <1>. QED  BY <1>1, <1>5, <1>6, <1>7 DEF ProtocolInv, NobodyRejected

LEMMA JoinsKeeps ==
  ASSUME ProtocolInv, IniJoins, istatus = "run"
  PROVE  ProtocolInv'
  <1>1. ipoint = "sleep" /\ net' = net
    BY DEF IniJoins
  <1>2. ToIni = <<>> /\ ToRes = <<>> /\ NoData /\ rpoint = "recv" /\ Asked.op = "load"
    BY <1>1 DEF ProtocolInv, Messages, Places
  <1>3. CASE IniEnds("failed")
    BY <1>1, <1>3, ProtocolKept DEF IniEnds, resVars
  <1>4. CASE Advance /\ probes' = probes
    <2>1. net' = [node \in {"ini", "res"} |-> [t \in {"control", "data"} |-> net'[node][t]]]
      BY <1>1 DEF ProtocolInv, Places
    <2>2. ToIni' = <<>> /\ ToRes' = <<>> /\ IniData' = <<>> /\ ResData' = <<>> /\ rpoint' = rpoint
      BY <1>1, <1>2, <1>4 DEF ToIni, ToRes, IniData, ResData, NoData, Advance, resVars
    <2>. QED  BY <1>2, <1>4, <2>1, <2>2, AdvanceKeeps
  <1>. QED  BY <1>3, <1>4 DEF IniJoins

---------------------------------------------------------------------------
(* The responder's steps                                                   *)

\* The responder finds one request, the initiator's.
LEMMA RequestFound ==
  ASSUME ProtocolInv, rpoint = "recv", Waiting("res", "control")
  PROVE  \/ ipoint = "pong" /\ Asking(Message("ping", ipc, probes - 1))
         \/ ipoint = "answer" /\ Asking(Message(Asked.op, ipc, 0))
  <1>1. ToRes # <<>> /\ ipoint \in {"ask", "answer", "data", "sleep", "pong"}
    BY DEF Waiting, ToRes, ProtocolInv, Places
  <1>. QED  BY <1>1 DEF ProtocolInv, Messages, Replied, Stopped, Transferring

\* What it leaves in the four queues when it answers with r.
LEMMA ServeQueues ==
  ASSUME Places, NEW r,
         net' = [net EXCEPT !["res"]["control"] = Tail(@), !["ini"]["control"] = Append(@, r)]
  PROVE  /\ net' = [node \in {"ini", "res"} |-> [t \in {"control", "data"} |-> net'[node][t]]]
         /\ ToIni' = Append(ToIni, r) /\ ToRes' = Tail(ToRes) /\ IniData' = IniData /\ ResData' = ResData
  <1>1. net = [node \in {"ini", "res"} |-> [t \in {"control", "data"} |-> net[node][t]]]
    BY DEF Places
  <1>. DEFINE toRes == [net["res"] EXCEPT !["control"] = Tail(@)]
              toIni == [net["ini"] EXCEPT !["control"] = Append(@, r)]
  <1>2. /\ toRes = [t \in {"control", "data"} |-> toRes[t]]
        /\ toRes["control"] = Tail(ToRes) /\ toRes["data"] = ResData
    BY <1>1 DEF ToRes, ResData
  <1>3. /\ toIni = [t \in {"control", "data"} |-> toIni[t]]
        /\ toIni["control"] = Append(ToIni, r) /\ toIni["data"] = IniData
    BY <1>1 DEF ToIni, IniData
  <1>4. DOMAIN net = {"ini", "res"}
    BY <1>1
  <1>5. net' = [net EXCEPT !["res"] = toRes, !["ini"] = toIni]
    BY <1>4
  <1>. HIDE DEF toRes, toIni
  <1>6. net'["res"] = toRes /\ net'["ini"] = toIni /\ DOMAIN net' = {"ini", "res"}
    BY <1>1, <1>5
  <1>7. net' = [node \in {"ini", "res"} |-> net'[node]]
    BY <1>1, <1>5
  <1>8. \A node \in {"ini", "res"} : net'[node] = [t \in {"control", "data"} |-> net'[node][t]]
    <2>1. net'["res"] = [t \in {"control", "data"} |-> net'["res"][t]]
      BY <1>2, <1>6
    <2>2. net'["ini"] = [t \in {"control", "data"} |-> net'["ini"][t]]
      BY <1>3, <1>6
    <2>. QED  BY <2>1, <2>2
  <1>9. net' = [node \in {"ini", "res"} |-> [t \in {"control", "data"} |-> net'[node][t]]]
    BY <1>7, <1>8
  <1>10. /\ net'["ini"]["control"] = Append(ToIni, r) /\ net'["res"]["control"] = Tail(ToRes)
         /\ net'["ini"]["data"] = IniData /\ net'["res"]["data"] = ResData
    BY <1>2, <1>3, <1>6
  <1>. QED  BY <1>9, <1>10 DEF ToIni, ToRes, IniData, ResData

LEMMA ServesKeeps ==
  ASSUME ProtocolInv, ResServes, rstatus = "run"
  PROVE  ProtocolInv'
  <1>. DEFINE m == First("res", "control")
              r == Reply(m)
  <1>1. /\ UNCHANGED <<bench, ipc, ipoint, ileft, istatus, probes, rstatus>>
        /\ rpoint = "recv" /\ Waiting("res", "control") /\ rat' = m.at
        /\ net' = [net EXCEPT !["res"]["control"] = Tail(@), !["ini"]["control"] = Append(@, r)]
    BY DEF ResServes, iniVars
  <1>2. /\ m.op = "stop" => rpoint' = "leaving"
        /\ m.op \in Transfers => rpoint' = "data" /\ rleft' = Left(Script[bench][m.at], DownOps, UpOps)
        /\ m.op \notin Transfers \cup {"stop"} => rpoint' = "recv"
    BY DEF ResServes, Transfers
  <1>3. /\ net' = [node \in {"ini", "res"} |-> [t \in {"control", "data"} |-> net'[node][t]]]
        /\ ToIni' = Append(ToIni, r) /\ ToRes' = Tail(ToRes) /\ IniData' = IniData /\ ResData' = ResData
    BY <1>1, ServeQueues DEF ProtocolInv
  <1>4. Asked' = Asked /\ Expected' = Expected
    BY <1>1 DEF Asked, Expected
  <1>5. Places'
    BY <1>1, <1>3, <1>4 DEF ProtocolInv, Places
  <1>6. m = Head(ToRes)
    BY DEF First, ToRes
  <1>7. CASE ipoint = "pong" /\ Asking(Message("ping", ipc, probes - 1))
    <2>1. /\ m = Message("ping", ipc, probes - 1) /\ ToRes' = <<>> /\ ToIni' = <<r>> /\ NoData'
      BY <1>3, <1>6, <1>7, ShortQueues DEF Asking, NoData
    <2>2. Answer("ping") = "pong"
      BY DEF Answer, Transfers
    <2>3. r = Message("pong", ipc, probes - 1) /\ rpoint' = "recv"
      BY <1>2, <2>1, <2>2 DEF Reply, Message, Transfers
    <2>4. Replied(Message("pong", ipc, probes - 1))'
      BY <1>1, <2>1, <2>3 DEF Replied, Message
    <2>. QED  BY <1>1, <1>5, <1>7, <2>4 DEF ProtocolInv, NobodyRejected, Messages
  <1>8. CASE ipoint = "answer" /\ Asking(Message(Asked.op, ipc, 0))
    <2>1. /\ m = Message(Asked.op, ipc, 0) /\ ToRes' = <<>> /\ ToIni' = <<r>> /\ NoData'
          /\ IniData' = <<>> /\ ResData' = <<>>
      BY <1>3, <1>6, <1>8, ShortQueues DEF Asking, NoData
    <2>2. r = Message(Answer(Asked.op), ipc, 0) /\ m.op = Asked.op /\ m.at = ipc
      BY <2>1 DEF Reply, Message
    <2>3. CASE Asked.op \notin Transfers \cup {"stop"}
      <3>1. Replied(Message(Answer(Asked.op), ipc, 0))'
        BY <1>1, <1>2, <1>4, <2>1, <2>2, <2>3 DEF Replied, Answer, Message
      <3>. QED  BY <1>1, <1>4, <1>5, <1>8, <2>3, <3>1 DEF ProtocolInv, NobodyRejected, Messages
    <2>4. CASE Asked.op = "stop"
      <3>1. Answer("stop") = "stopped"
        BY DEF Answer, Transfers
      <3>2. Stopped'
        BY <1>1, <1>2, <2>1, <2>2, <2>4, <3>1 DEF Stopped, Message
      <3>. QED  BY <1>1, <1>4, <1>5, <1>8, <2>4, <3>2 DEF ProtocolInv, NobodyRejected, Messages
    <2>5. CASE Asked.op \in Transfers
      <3>1. Answer(Asked.op) = "ready"
        BY <2>5 DEF Answer, Transfers
      <3>2. rpoint' = "data" /\ rleft' = Left(Asked, DownOps, UpOps) /\ rat' = ipc
        BY <1>1, <1>2, <2>2, <2>5 DEF Asked
      <3>3. Expected = Left(Asked, UpOps, DownOps) /\ Left(Asked, UpOps, DownOps) \in [send : Nat, recv : Nat]
            /\ Left(Asked, DownOps, UpOps) \in [send : Nat, recv : Nat]
        BY <1>8, ScriptFacts DEF Expected, ProtocolInv
      <3>4. Expected.send = rleft'.recv /\ rleft'.send = Expected.recv
        BY <3>2, <3>3 DEF Left
      <3>5. IniData' \in Seq({Message("payload", ipc, 0)}) /\ ResData' \in Seq({Message("payload", ipc, 0)})
            /\ Len(IniData') = 0 /\ Len(ResData') = 0
        BY <2>1
      <3>6. Transferring'
        <4>1. Expected'.send + Len(ResData') = rleft'.recv /\ rleft'.send + Len(IniData') = Expected'.recv
          BY <1>4, <3>2, <3>3, <3>4, <3>5
        <4>. QED  BY <1>1, <1>4, <1>8, <2>1, <2>2, <2>5, <3>1, <3>2, <3>3, <3>5, <4>1 DEF Transferring, Message
      <3>. QED  BY <1>1, <1>5, <1>8, <3>6 DEF ProtocolInv, NobodyRejected, Messages
    <2>. QED  BY <2>3, <2>4, <2>5
  <1>. QED  BY <1>1, <1>7, <1>8, RequestFound

\* Only in a transfer is the responder at "data".
LEMMA ResponderTransfers ==
  ASSUME ProtocolInv, rpoint = "data"
  PROVE  Transferring /\ ipoint \in {"answer", "data"}
  BY DEF ProtocolInv, Places, Messages, Asking, Replied, Stopped

LEMMA ResSendsKeeps ==
  ASSUME ProtocolInv, ResSends
  PROVE  ProtocolInv'
  <1>. DEFINE x == Message("payload", ipc, 0)
  <1>1. /\ UNCHANGED <<bench, ipc, ipoint, ileft, istatus, probes, rpoint, rat, rstatus>> /\ rpoint = "data"
        /\ rleft.send > 0 /\ rleft' = [rleft EXCEPT !.send = @ - 1] /\ PutPayload("ini", rat)
    BY DEF ResSends, iniVars
  <1>2. Transferring /\ ipoint \in {"answer", "data"}
    BY <1>1, ResponderTransfers
  <1>3. Put("ini", "data", x)
    BY <1>1, <1>2 DEF PutPayload, Transferring
  <1>4. /\ net' = [node \in {"ini", "res"} |-> [t \in {"control", "data"} |-> net'[node][t]]]
        /\ ToIni' = ToIni /\ ToRes' = ToRes /\ ResData' = ResData /\ IniData' = Append(IniData, x)
    BY <1>3, PutQueues DEF ProtocolInv, ToIni, ToRes, IniData, ResData
  <1>5. Asked' = Asked /\ Expected' = Expected
    BY <1>1 DEF Asked, Expected
  <1>6. IniData' \in Seq({x}) /\ Len(IniData') = Len(IniData) + 1 /\ Len(IniData) \in Nat
    BY <1>2, <1>4, DataQueues DEF Transferring
  <1>7. /\ rleft' \in [send : Nat, recv : Nat] /\ rleft'.send = rleft.send - 1 /\ rleft'.recv = rleft.recv
        /\ rleft.send \in Nat
    BY <1>1, <1>2 DEF Transferring
  <1>8. Expected.send + Len(ResData') = rleft'.recv /\ rleft'.send + Len(IniData') = Expected.recv
    BY <1>2, <1>4, <1>6, <1>7 DEF Transferring
  <1>9. Places'
    BY <1>1, <1>4, <1>5 DEF ProtocolInv, Places
  <1>10. Transferring'
    BY <1>1, <1>2, <1>4, <1>5, <1>6, <1>7, <1>8 DEF Transferring
  <1>. QED  BY <1>1, <1>2, <1>9, <1>10 DEF ProtocolInv, NobodyRejected, Messages

LEMMA ResReceivesKeeps ==
  ASSUME ProtocolInv, ResReceives
  PROVE  ProtocolInv'
  <1>. DEFINE x == Message("payload", ipc, 0)
  <1>1. rpoint = "data" /\ rleft.recv > 0 /\ Take("res", "data")
    BY DEF ResReceives
  <1>2. Transferring /\ ipoint \in {"answer", "data"}
    BY <1>1, ResponderTransfers
  <1>3. /\ net' = [node \in {"ini", "res"} |-> [t \in {"control", "data"} |-> net'[node][t]]]
        /\ ToIni' = ToIni /\ ToRes' = ToRes /\ IniData' = IniData /\ ResData # <<>> /\ ResData' = Tail(ResData)
    BY <1>1, TakeQueues DEF ProtocolInv, ToIni, ToRes, IniData, ResData
  <1>4. /\ Head(ResData) = x /\ ResData' \in Seq({x}) /\ Len(ResData') = Len(ResData) - 1
        /\ Len(ResData) \in Nat /\ Len(ResData) > 0
    BY <1>2, <1>3, DataQueues DEF Transferring
  <1>5. SizeAccepted(First("res", "data"), rat)
    <2>1. rat = ipc
      BY <1>2 DEF Transferring
    <2>. QED  BY <1>4, <2>1 DEF SizeAccepted, First, ResData, Message
  <1>6. /\ UNCHANGED <<bench, ipc, ipoint, ileft, istatus, probes, rpoint, rat, rstatus>>
        /\ rleft' = [rleft EXCEPT !.recv = @ - 1]
    BY <1>5 DEF ResReceives, iniVars
  <1>7. Asked' = Asked /\ Expected' = Expected
    BY <1>6 DEF Asked, Expected
  <1>8. /\ rleft' \in [send : Nat, recv : Nat] /\ rleft'.send = rleft.send /\ rleft'.recv = rleft.recv - 1
        /\ rleft.recv \in Nat
    BY <1>1, <1>2, <1>6 DEF Transferring
  <1>9. Expected.send + Len(ResData') = rleft'.recv /\ rleft'.send + Len(IniData') = Expected.recv
    BY <1>2, <1>3, <1>4, <1>8 DEF Transferring
  <1>10. Places'
    BY <1>3, <1>6, <1>7 DEF ProtocolInv, Places
  <1>11. Transferring'
    BY <1>1, <1>2, <1>3, <1>4, <1>6, <1>7, <1>8, <1>9 DEF Transferring
  <1>. QED  BY <1>2, <1>6, <1>10, <1>11 DEF ProtocolInv, NobodyRejected, Messages

LEMMA ResCompletesKeeps ==
  ASSUME ProtocolInv, ResCompletes
  PROVE  ProtocolInv'
  <1>. DEFINE c == Message("complete", ipc, 0)
  <1>1. /\ UNCHANGED <<bench, ipc, ipoint, ileft, istatus, probes, rat, rleft, rstatus>> /\ rpoint = "data"
        /\ rpoint' = "recv" /\ Transferred(rleft) /\ Put("ini", "control", Message("complete", rat, 0))
    BY DEF ResCompletes, iniVars
  <1>2. Transferring /\ ipoint \in {"answer", "data"}
    BY <1>1, ResponderTransfers
  <1>3. Put("ini", "control", c)
    BY <1>1, <1>2 DEF Transferring
  <1>4. /\ net' = [node \in {"ini", "res"} |-> [t \in {"control", "data"} |-> net'[node][t]]]
        /\ ToIni' = Append(ToIni, c) /\ ToRes' = ToRes /\ IniData' = IniData /\ ResData' = ResData
    BY <1>3, PutQueues DEF ProtocolInv, ToIni, ToRes, IniData, ResData
  <1>5. Asked' = Asked /\ Expected' = Expected /\ Transferred(rleft)'
    BY <1>1 DEF Asked, Expected, Transferred
  <1>6. /\ ipoint = "answer" => ToIni' = <<Message("ready", ipc, 0), c>>
        /\ ipoint = "data" => ToIni' = <<c>>
    BY <1>1, <1>2, <1>4, ShortQueues DEF Transferring
  <1>7. Places'
    BY <1>1, <1>4, <1>5 DEF ProtocolInv, Places
  <1>8. Transferring'
    BY <1>1, <1>2, <1>4, <1>5, <1>6 DEF Transferring, Message
  <1>. QED  BY <1>1, <1>2, <1>7, <1>8 DEF ProtocolInv, NobodyRejected, Messages

---------------------------------------------------------------------------
(* Every step                                                              *)

LEMMA ProtocolStep ==
  ASSUME ProtocolInv, [Next]_vars
  PROVE  ProtocolInv'
  <1>1. CASE IniStep
    <2>1. CASE IniAsk \/ IniAnswered \/ IniSends
      BY <1>1, <2>1, AskKeeps, AnsweredKeeps, SendsKeeps DEF IniStep
    <2>2. CASE IniReceives \/ IniCompletes
      BY <2>2, ReceivesKeeps, CompletesKeeps
    <2>3. CASE IniStartsLoad \/ IniProbes \/ IniProbed \/ IniJoins
      BY <1>1, <2>3, StartsLoadKeeps, ProbesKeeps, ProbedKeeps, JoinsKeeps DEF IniStep
    <2>4. CASE IniLosesPeer
      BY <2>4, ProtocolKept DEF IniLosesPeer, IniEnds, resVars
    <2>. QED  BY <1>1, <2>1, <2>2, <2>3, <2>4 DEF IniStep
  <1>2. CASE ResStep
    <2>1. CASE ResServes \/ ResSends \/ ResReceives \/ ResCompletes
      BY <1>2, <2>1, ServesKeeps, ResSendsKeeps, ResReceivesKeeps, ResCompletesKeeps DEF ResStep
    <2>2. CASE ResCloses
      BY <2>2, ProtocolKept DEF ResCloses, iniVars, resVars
    <2>3. CASE ResReturns
      BY <1>2, <2>3, ProtocolKept DEF ResStep, ResReturns, iniVars
    <2>4. CASE ResLosesPeer
      BY <2>4, ProtocolKept DEF ResLosesPeer, ResEnds, iniVars
    <2>. QED  BY <1>2, <2>1, <2>2, <2>3, <2>4 DEF ResStep
  <1>3. CASE TaskStep
    BY <1>3, ProtocolKept DEF TaskStep, iniVars, resVars
  <1>4. CASE \E s \in Streams : ConnStep(s)
    BY <1>4, ProtocolKept DEF ConnStep, iniVars, resVars
  <1>5. CASE IniBreaks
    BY <1>5, ProtocolKept DEF IniBreaks, IniEnds, resVars
  <1>6. CASE ResBreaks
    BY <1>6, ProtocolKept DEF ResBreaks, ResEnds, iniVars
  <1>7. CASE Losses
    BY <1>7, ProtocolKept DEF Losses, iniVars, resVars
  <1>8. CASE UNCHANGED vars
    BY <1>8, ProtocolKept DEF vars, iniVars, resVars
  <1>. QED  BY <1>1, <1>2, <1>3, <1>4, <1>5, <1>6, <1>7, <1>8 DEF Next

LEMMA InitKeeps == Init => LoadInv /\ ProtocolInv
  <1>. SUFFICES ASSUME Init PROVE LoadInv /\ ProtocolInv
    OBVIOUS
  <1>1. bench \in Benchmarks /\ ValidBenchmark(bench)
    BY SessionAssumption DEF Init
  <1>2. Len(Script[bench]) \in Nat /\ Len(Script[bench]) > 0
    BY <1>1, ScriptShape DEF Script, Shape
  <1>3. 1 \in 1 .. Len(Script[bench])
    BY <1>2
  <1>4. net = [node \in {"ini", "res"} |-> [tag \in {"control", "data"} |-> net[node][tag]]]
        /\ ToIni = <<>> /\ ToRes = <<>> /\ NoData
    BY DEF Init, ToIni, ToRes, NoData, IniData, ResData
  <1>5. Places
    BY <1>1, <1>3, <1>4 DEF Init, Places
  <1>6. Messages
    BY <1>4 DEF Init, Messages
  <1>7. LoadInv
    BY DEF Init, LoadInit, LoadInv
  <1>. QED  BY <1>5, <1>6, <1>7 DEF ProtocolInv, NobodyRejected, Init

\* While both run, payloads on their way are those of the transfer both are in.
LEMMA PayloadsApart ==
  ASSUME ProtocolInv, NEW node \in {"ini", "res"}, NEW m \in ToSet(net[node]["data"])
  PROVE  m.at = ipc /\ m.at = rat /\ ipoint \in {"answer", "data"}
  <1>1. ~NoData
    BY DEF NoData, IniData, ResData, ToSet
  <1>2. Transferring /\ ipoint \in {"answer", "data"}
    BY <1>1 DEF ProtocolInv, Places, Messages, Asking, Replied, Stopped
  <1>. DEFINE x == Message("payload", ipc, 0)
  <1>3. net[node]["data"] \in Seq({x}) /\ rat = ipc
    BY <1>2 DEF Transferring, IniData, ResData
  <1>4. m = x
    BY <1>3, DataQueues
  <1>. QED  BY <1>2, <1>3, <1>4 DEF Message

\* No request, payload or stream of one measurement is left when the next begins,
\* and neither side takes a message of another: for all valid settings, whatever
\* fails, and however the two nodes and the streams interleave.
THEOREM NothingOverlaps == Spec => []MeasurementsApart
  <1>1. LoadInv /\ [Next]_vars => LoadInv'
    BY LoadStep
  <1>2. ProtocolInv /\ [Next]_vars => ProtocolInv'
    BY ProtocolStep
  <1>3. LoadInv /\ ProtocolInv => MeasurementsApart
    <2>. SUFFICES ASSUME LoadInv, ProtocolInv PROVE MeasurementsApart
      OBVIOUS
    <2>1. NobodyRejected
      BY DEF ProtocolInv
    <2>2. \A node \in {"ini", "res"} : \A m \in ToSet(net[node]["data"]) :
             m.at = ipc /\ m.at = rat /\ ipoint \in {"answer", "data"}
      BY PayloadsApart
    <2>3. istatus = "run" /\ (Asked.op # "load" \/ ipoint = "ask") => load \in {"none", "ok"}
      BY DEF LoadInv, ProtocolInv, Places
    <2>4. load \in {"none", "ok"} => \A s \in Streams : client[s] \in {"none", "closed"}
      BY DEF LoadInv
    <2>. QED  BY <2>1, <2>2, <2>3, <2>4 DEF MeasurementsApart
  <1>. QED  BY <1>1, <1>2, <1>3, InitKeeps, PTL DEF Spec

---------------------------------------------------------------------------
(* Nobody waits in vain                                                    *)

\* What lets the initiator, the responder, the load task or a stream go on.
IniMoves ==
    \/ ipoint = "ask"
    \/ ipoint \in {"answer", "pong"} /\ Waiting("ini", "control")
    \/ ipoint = "data" /\ \/ ileft.send > 0
                          \/ ileft.recv > 0 /\ Waiting("ini", "data")
                          \/ Transferred(ileft) /\ Waiting("ini", "control")
    \/ ipoint = "sleep" /\ (LoadDone \/ probes < MaxProbes)
    \/ /\ UsesComm /\ ResGone /\ ~Waiting("ini", "control")
       /\ ipoint = "data" => ~Waiting("ini", "data")

ResMoves ==
    \/ rpoint = "recv" /\ Waiting("res", "control")
    \/ rpoint = "data" /\ \/ rleft.send > 0
                          \/ rleft.recv > 0 /\ Waiting("res", "data")
                          \/ Transferred(rleft)
    \/ rpoint = "leaving" /\ \/ server \in {"none", "listening"}
                             \/ server = "closing" /\ awaited \cap Serving = {}
    \/ /\ rpoint # "leaving" /\ istatus # "run"
       /\ ~Waiting("res", IF rpoint = "data" THEN "data" ELSE "control")

TaskMoves ==
    \/ load = "opening" /\ \A s \in mine : client[s] = "ready"
    \/ load = "running" /\ \A s \in mine : client[s] # "going"

ClientMoves(s) ==
    \/ client[s] = "asking" /\ (s \in lost \/ Refused(s) \/ handler[s] = "waiting")
    \/ client[s] = "going" /\ (s \in lost \/ dirs[s] # "download" \/ handler[s] = "done")

HandlerMoves(s) ==
    \/ server = "listening" /\ client[s] # "none" /\ handler[s] = "none"
    \/ s \in Serving /\ s \in lost
    \/ handler[s] = "waiting" /\ (s \in went \/ client[s] = "closed")
    \/ handler[s] = "serving" /\ (dirs[s] = "download" \/ client[s] = "closed")

\* The bound on streams covers those of the present load.
WithinBound == mine \subseteq Streams

SomeoneMoves ==
    \/ istatus = "run" /\ IniMoves
    \/ rstatus = "run" /\ ResMoves
    \/ TaskMoves
    \/ \E s \in Streams : ClientMoves(s) \/ HandlerMoves(s)

\* A node that has not ended waits for nothing that cannot come.
NobodyStuck ==
    (istatus = "run" \/ rstatus = "run") /\ WithinBound => SomeoneMoves

\* Handler and client of a stream know of each other what the connection carried:
\* GO was written only after READY was read, a handler serves only after GO, and
\* one that ended before it answered lost its connection.
StreamOk(s) ==
    /\ s > Len(dirs) => client[s] = "none"
    /\ client[s] \in {"none", "asking"} => s \notin went
    /\ client[s] \in {"ready", "going"} => handler[s] # "none"
    /\ client[s] = "going" => s \in went
    /\ client[s] = "none" => handler[s] = "none"
    /\ handler[s] = "serving" => s \in went
    /\ client[s] = "asking" /\ handler[s] = "done" => s \in lost

StreamsInv ==
    /\ dirs \in Seq(Transfers)
    /\ \A s \in Streams : StreamOk(s)
    /\ load = "opening" => \A s \in mine \cap Streams : client[s] \in {"asking", "ready"}
    /\ istatus # "run" => load \notin {"opening", "running"} /\ \A s \in Streams : client[s] \in {"none", "closed"}

---------------------------------------------------------------------------
(* The steps of the streams                                                *)

\* What a step does to streams whose clients it leaves alone, but for a loss of
\* connections; the initiator does not end.
StreamsKept ==
    /\ UNCHANGED <<load, mine, dirs, client, went, handler, istatus>>
    /\ lost \subseteq lost'

LEMMA StreamSteps ==
  ASSUME [Next]_vars
  PROVE  \/ StreamsKept
         \/ ClientExits /\ istatus' # "run"
         \/ IniStartsLoad /\ istatus = "run"
         \/ istatus' = istatus /\ (Go \/ LoadEnds)
         \/ istatus' = istatus /\ \E s \in Streams : StreamStep(s)
         \/ istatus' = istatus /\ ServerExits
  <1>. USE DEF StreamsKept, resVars, loadVars, iniVars
  <1>1. ASSUME IniStep
        PROVE  \/ StreamsKept
               \/ ClientExits /\ istatus' # "run"
               \/ IniStartsLoad /\ istatus = "run"
    <2>1. CASE IniAsk \/ IniAnswered
      BY <2>1 DEF IniAsk, IniAnswered, IniEnds, Advance
    <2>2. CASE IniSends \/ IniReceives \/ IniCompletes
      BY <2>2 DEF IniSends, IniReceives, IniCompletes, IniEnds, Advance
    <2>3. CASE IniStartsLoad
      BY <1>1, <2>3 DEF IniStep
    <2>4. CASE IniProbes \/ IniProbed \/ IniJoins
      BY <2>4 DEF IniProbes, IniProbed, IniJoins, IniEnds, Advance
    <2>5. CASE IniLosesPeer
      BY <2>5 DEF IniLosesPeer, IniEnds
    <2>. QED  BY <1>1, <2>1, <2>2, <2>3, <2>4, <2>5 DEF IniStep
  <1>2. CASE IniBreaks
    BY <1>2 DEF IniBreaks, IniEnds
  <1>3. CASE ResStep
    <2>1. CASE ResServes \/ ResSends \/ ResCompletes \/ ResCloses \/ ResReturns
      BY <2>1 DEF ResServes, ResSends, ResCompletes, ResCloses, ResReturns, CloseServer, ServerClosed
    <2>2. CASE ResReceives \/ ResLosesPeer
      BY <2>2 DEF ResReceives, ResLosesPeer, ResEnds
    <2>. QED  BY <1>3, <2>1, <2>2 DEF ResStep
  <1>4. CASE ResBreaks
    BY <1>4 DEF ResBreaks, ResEnds
  <1>5. CASE TaskStep
    BY <1>5 DEF TaskStep
  <1>6. CASE \E s \in Streams : ConnStep(s)
    BY <1>6 DEF ConnStep
  <1>7. CASE Losses
    BY <1>7 DEF Losses, Lose
  <1>8. CASE UNCHANGED vars
    BY <1>8 DEF vars
  <1>. QED  BY <1>1, <1>2, <1>3, <1>4, <1>5, <1>6, <1>7, <1>8 DEF Next

\* The streams of a new load have the next numbers.
LEMMA NewStreams ==
  ASSUME Places, dirs \in Seq(Transfers), IniStartsLoad
  PROVE  /\ dirs' \in Seq(Transfers) /\ Len(dirs) \in Nat /\ Len(dirs') \in Nat /\ Len(dirs) <= Len(dirs')
         /\ mine' = Len(dirs) + 1 .. Len(dirs')
         /\ client' = [s \in Streams |-> IF s \in mine' THEN "asking" ELSE client[s]]
         /\ load' = "opening" /\ UNCHANGED <<went, lost, handler, istatus>>
  <1>. DEFINE d == Asked.load.direction
              n == Asked.load.streams
              new == Directions(d, n)
  <1>1. d \in Transfers /\ n \in Nat
    BY ScriptFacts DEF IniStartsLoad
  <1>2. /\ dirs' = dirs \o new /\ mine' = Len(dirs) + 1 .. Len(dirs') /\ load' = "opening"
        /\ client' = [s \in Streams |-> IF s \in mine' THEN "asking" ELSE client[s]]
        /\ UNCHANGED <<went, lost, handler, istatus>>
    BY DEF IniStartsLoad, RunLoad
  <1>3. new \in Seq(Transfers)
    <2>1. CASE d = "bidirectional"
      <3>1. new \in [1 .. 2 * n -> Transfers] /\ 2 * n \in Nat
        BY <1>1, <2>1 DEF Directions, Transfers
      <3>. HIDE DEF new
      <3>. QED  BY <3>1, FunctionIsSeq
    <2>2. CASE d # "bidirectional"
      <3>1. new \in [1 .. n -> Transfers]
        BY <1>1, <2>2 DEF Directions
      <3>. HIDE DEF new
      <3>. QED  BY <1>1, <3>1, FunctionIsSeq
    <2>. QED  BY <2>1, <2>2
  <1>. HIDE DEF new
  <1>4. dirs \o new \in Seq(Transfers) /\ Len(dirs \o new) = Len(dirs) + Len(new)
    BY <1>3, ConcatProperties
  <1>5. Len(dirs) \in Nat /\ Len(new) \in Nat
    BY <1>3
  <1>. QED  BY <1>2, <1>4, <1>5

\* A stream is as before, but perhaps lost, when it is not the one that moves.
LEMMA StreamKept ==
  ASSUME NEW s, StreamOk(s), dirs' = dirs, client'[s] = client[s], handler'[s] = handler[s],
         s \in went' <=> s \in went, lost \subseteq lost'
  PROVE  StreamOk(s)'
  BY DEF StreamOk

LEMMA ClientSteps ==
  ASSUME StreamsInv, LoadInv, ServerInv, NEW s \in Streams,
         Opened(s) \/ OpenFails(s) \/ ClientEnds(s) \/ ClientFails(s), istatus' = istatus
  PROVE  StreamsInv'
  <1>. USE DEF LoadInv, ServerInv
  <1>1. /\ UNCHANGED <<dirs, mine, went, lost, handler>>
        /\ \A t \in Streams : t # s => client'[t] = client[t]
        /\ client[s] \in {"asking", "going"}
        /\ load' = load \/ load' = "failed"
    BY DEF Opened, OpenFails, ClientEnds, ClientFails
  <1>2. StreamOk(s)
    BY DEF StreamsInv
  <1>3. StreamOk(s)'
    BY <1>2 DEF Opened, OpenFails, ClientEnds, ClientFails, StreamOk
  <1>4. \A t \in Streams : t # s => StreamOk(t)'
    <2>. SUFFICES ASSUME NEW t \in Streams, t # s PROVE StreamOk(t)'
      OBVIOUS
    <2>1. StreamOk(t)
      BY DEF StreamsInv
    <2>. QED  BY <1>1, <2>1, StreamKept
  <1>5. istatus' = "run"
    BY <1>1 DEF StreamsInv
  <1>6. ASSUME load' = "opening"
        PROVE  \A t \in mine' \cap Streams : client'[t] \in {"asking", "ready"}
    <2>1. load = "opening" /\ (client[s] = "going" => s \notin mine)
      BY <1>1, <1>6 DEF StreamsInv
    <2>2. s \in mine
      BY <1>1, <2>1
    <2>3. client'[s] \in {"asking", "ready"}
      BY <1>1, <1>6, <2>1, <2>2 DEF Opened, OpenFails, ClientEnds, ClientFails
    <2>. QED  BY <1>1, <2>1, <2>3 DEF StreamsInv
  <1>7. \A t \in Streams : StreamOk(t)'
    BY <1>3, <1>4
  <1>. QED  BY <1>1, <1>5, <1>6, <1>7 DEF StreamsInv

LEMMA HandlerSteps ==
  ASSUME StreamsInv, LoadInv, ServerInv, NEW s \in Streams,
         Accept(s) \/ Serve(s) \/ HandlerEnds(s), istatus' = istatus
  PROVE  StreamsInv'
  <1>. USE DEF LoadInv, ServerInv
  <1>1. /\ UNCHANGED <<load, dirs, mine, client, went, lost>>
        /\ \A t \in Streams : t # s => handler'[t] = handler[t]
    BY DEF Accept, Serve, HandlerEnds
  <1>2. StreamOk(s)
    BY DEF StreamsInv
  <1>3. StreamOk(s)'
    <2>1. CASE Accept(s)
      BY <1>2, <2>1 DEF Accept, StreamOk
    <2>2. CASE Serve(s)
      BY <1>2, <2>2 DEF Serve, StreamOk
    <2>3. CASE HandlerEnds(s)
      BY <1>2, <2>3 DEF HandlerEnds, Serving, StreamOk
    <2>. QED  BY <2>1, <2>2, <2>3
  <1>4. \A t \in Streams : t # s => StreamOk(t)'
    <2>. SUFFICES ASSUME NEW t \in Streams, t # s PROVE StreamOk(t)'
      OBVIOUS
    <2>1. StreamOk(t)
      BY DEF StreamsInv
    <2>. QED  BY <1>1, <2>1, StreamKept
  <1>5. \A t \in Streams : StreamOk(t)'
    BY <1>3, <1>4
  <1>. QED  BY <1>1, <1>5 DEF StreamsInv

LEMMA LoadStarts ==
  ASSUME StreamsInv, LoadInv, Places, IniStartsLoad, istatus = "run"
  PROVE  StreamsInv'
  <1>1. dirs \in Seq(Transfers)
    BY DEF StreamsInv
  <1>2. /\ dirs' \in Seq(Transfers) /\ Len(dirs) \in Nat /\ Len(dirs') \in Nat /\ Len(dirs) <= Len(dirs')
        /\ mine' = Len(dirs) + 1 .. Len(dirs')
        /\ client' = [s \in Streams |-> IF s \in mine' THEN "asking" ELSE client[s]]
        /\ load' = "opening" /\ UNCHANGED <<went, lost, handler, istatus>>
    BY <1>1, NewStreams
  <1>3. \A s \in Streams : StreamOk(s)'
    <2>. SUFFICES ASSUME NEW s \in Streams PROVE StreamOk(s)'
      OBVIOUS
    <2>1. StreamOk(s) /\ s \in Int
      BY DEF StreamsInv, Streams
    <2>2. CASE s \in mine'
      <3>1. client[s] = "none" /\ ~(s > Len(dirs'))
        BY <1>2, <2>1, <2>2 DEF StreamOk
      <3>. QED  BY <1>2, <2>1, <2>2, <3>1 DEF StreamOk
    <2>3. CASE s \notin mine'
      <3>1. s > Len(dirs') => s > Len(dirs)
        BY <1>2, <2>1
      <3>. QED  BY <1>2, <2>1, <2>3, <3>1 DEF StreamOk
    <2>. QED  BY <2>2, <2>3
  <1>4. \A s \in mine' \cap Streams : client'[s] \in {"asking", "ready"}
    BY <1>2
  <1>. QED  BY <1>2, <1>3, <1>4 DEF StreamsInv

LEMMA StreamsStep ==
  ASSUME StreamsInv, LoadInv, ServerInv, ProtocolInv, [Next]_vars
  PROVE  StreamsInv'
  <1>0. \A s \in Streams : StreamOk(s)
    BY DEF StreamsInv
  <1>1. CASE StreamsKept
    <2>1. \A s \in Streams : StreamOk(s)'
      BY <1>0, <1>1, StreamKept DEF StreamsKept
    <2>. QED  BY <1>1, <2>1 DEF StreamsKept, StreamsInv, StreamOk
  <1>2. CASE ClientExits /\ istatus' # "run"
    <2>1. /\ client' = [s \in Streams |-> IF client[s] = "none" THEN "none" ELSE "closed"]
          /\ load' \notin {"opening", "running"} /\ UNCHANGED <<mine, dirs, went, lost, handler>>
      BY <1>2 DEF ClientExits
    <2>2. \A s \in Streams : StreamOk(s)'
      BY <1>0, <2>1 DEF StreamOk
    <2>3. \A s \in Streams : client'[s] \in {"none", "closed"}
      BY <2>1
    <2>. QED  BY <1>2, <2>1, <2>2, <2>3 DEF StreamsInv
  <1>3. CASE IniStartsLoad /\ istatus = "run"
    BY <1>3, LoadStarts DEF ProtocolInv
  <1>4. CASE istatus' = istatus /\ Go
    <2>1. /\ went' = went \cup mine /\ UNCHANGED <<mine, dirs, lost, handler>> /\ load' # "opening"
          /\ load = "opening" /\ \A s \in mine : client[s] = "ready"
          /\ \A s \in Streams : client'[s] = client[s] \/ (s \in mine /\ client'[s] = "going")
      BY <1>4 DEF Go
    <2>2. \A s \in Streams : StreamOk(s)'
      BY <1>0, <2>1 DEF StreamOk
    <2>3. istatus' = "run"
      BY <1>4, <2>1 DEF StreamsInv
    <2>. QED  BY <2>1, <2>2, <2>3 DEF StreamsInv
  <1>5. CASE istatus' = istatus /\ LoadEnds
    <2>1. UNCHANGED <<mine, dirs, client, went, lost, handler>> /\ load' = "ok"
      BY <1>5 DEF LoadEnds
    <2>2. \A s \in Streams : StreamOk(s)'
      BY <1>0, <2>1 DEF StreamOk
    <2>. QED  BY <1>5, <2>1, <2>2 DEF StreamsInv
  <1>6. ASSUME istatus' = istatus, NEW s \in Streams, StreamStep(s)
        PROVE  StreamsInv'
    BY <1>6, ClientSteps, HandlerSteps DEF StreamStep
  <1>7. CASE istatus' = istatus /\ ServerExits
    <2>1. /\ lost' = lost \cup {s \in Streams : client[s] # "none" /\ handler[s] # "done"}
          /\ handler' = [s \in Streams |-> IF s \in Serving THEN "done" ELSE handler[s]]
          /\ UNCHANGED <<load, mine, dirs, went, client>>
      BY <1>7 DEF ServerExits
    <2>2. \A s \in Streams : StreamOk(s)'
      BY <1>0, <2>1 DEF StreamOk, Serving
    <2>. QED  BY <1>7, <2>1, <2>2 DEF StreamsInv
  <1>. QED  BY <1>1, <1>2, <1>3, <1>4, <1>5, <1>6, <1>7, StreamSteps

\* An initiator that sleeps or probes has started a load.
HasLoad == ipoint \in {"sleep", "pong"} => load # "none"

LEMMA HasLoadStep ==
  ASSUME HasLoad, [Next]_vars
  PROVE  HasLoad'
  <1>. USE DEF HasLoad, resVars, loadVars, iniVars
  <1>1. CASE IniStep
    <2>1. CASE IniAsk \/ IniAnswered
      BY <2>1 DEF IniAsk, IniAnswered, IniEnds, Advance, ClientExits
    <2>2. CASE IniSends \/ IniReceives \/ IniCompletes
      BY <2>2 DEF IniSends, IniReceives, IniCompletes, IniEnds, Advance, ClientExits
    <2>3. CASE IniStartsLoad
      BY <2>3 DEF IniStartsLoad, RunLoad
    <2>4. CASE IniProbes \/ IniProbed \/ IniJoins
      BY <2>4 DEF IniProbes, IniProbed, IniJoins, IniEnds, Advance, ClientExits
    <2>5. CASE IniLosesPeer
      BY <2>5 DEF IniLosesPeer, IniEnds, ClientExits
    <2>. QED  BY <1>1, <2>1, <2>2, <2>3, <2>4, <2>5 DEF IniStep
  <1>2. CASE IniBreaks
    BY <1>2 DEF IniBreaks, IniEnds, ClientExits
  <1>3. CASE ResStep \/ ResBreaks
    <2>1. UNCHANGED <<load, ipoint>>
      BY <1>3 DEF ResStep, ResBreaks, ResServes, ResSends, ResReceives, ResCompletes, ResCloses, ResReturns, ResLosesPeer,
         ResEnds, ServerExits, CloseServer, ServerClosed
    <2>. QED  BY <2>1
  <1>4. CASE TaskStep
    BY <1>4 DEF TaskStep, Go, LoadEnds
  <1>5. ASSUME NEW s \in Streams, ConnStep(s)
        PROVE  HasLoad'
    BY <1>5 DEF ConnStep, StreamStep, Opened, OpenFails, ClientEnds, ClientFails, Accept, Serve, HandlerEnds
  <1>6. CASE Losses
    BY <1>6 DEF Losses, Lose
  <1>7. CASE UNCHANGED vars
    BY <1>7 DEF vars
  <1>. QED  BY <1>1, <1>2, <1>3, <1>4, <1>5, <1>6, <1>7 DEF Next

\* While the initiator waits for a load, its task or one of its streams can go on.
LEMMA LoadGoesOn ==
  ASSUME StreamsInv, LoadInv, ServerInv, WithinBound, load \in {"opening", "running"}
  PROVE  SomeoneMoves
  <1>. USE DEF StreamsInv, LoadInv, ServerInv, WithinBound, SomeoneMoves
  <1>1. CASE TaskMoves
    BY <1>1
  <1>2. CASE ~TaskMoves /\ load = "opening"
    <2>1. PICK s \in mine : client[s] # "ready"
      BY <1>2 DEF TaskMoves
    <2>2. s \in Streams /\ client[s] = "asking"
      BY <1>2, <2>1
    <2>3. handler[s] = "serving" \/ (handler[s] = "done" /\ s \notin lost) => FALSE
      BY <2>2 DEF StreamOk
    <2>4. handler[s] \in {"none", "waiting", "serving", "done"}
      BY <2>2
    <2>5. ClientMoves(s) \/ HandlerMoves(s)
      BY <2>2, <2>3, <2>4 DEF ClientMoves, HandlerMoves, Refused
    <2>. QED  BY <2>2, <2>5
  <1>3. CASE ~TaskMoves /\ load = "running"
    <2>1. PICK s \in mine : client[s] = "going"
      BY <1>3 DEF TaskMoves
    <2>2. s \in Streams
      BY <2>1
    <2>3. handler[s] \in {"waiting", "serving", "done"} /\ s \in went
      BY <2>1, <2>2 DEF StreamOk
    <2>4. ClientMoves(s) \/ HandlerMoves(s)
      BY <2>1, <2>3 DEF ClientMoves, HandlerMoves
    <2>. QED  BY <2>2, <2>4
  <1>. QED  BY <1>2, <1>3, <1>1

\* LoadServer.close() waits for no handler in vain: the clients of all are closed.
LEMMA CloseGoesOn ==
  ASSUME StreamsInv, LoadInv, ServerInv, ProtocolInv, rstatus = "run", rpoint = "leaving"
  PROVE  SomeoneMoves
  <1>. USE DEF ServerInv, SomeoneMoves
  <1>1. \A s \in Streams : client[s] \in {"none", "closed"}
    <2>1. CASE istatus = "run"
      <3>1. ipoint = "answer"
        BY DEF ProtocolInv, Places, Messages, Asking, Replied, Transferring
      <3>. QED  BY <2>1, <3>1 DEF LoadInv
    <2>2. CASE istatus # "run"
      BY <2>2 DEF StreamsInv
    <2>. QED  BY <2>1, <2>2
  <1>2. CASE server \in {"none", "listening"} \/ (server = "closing" /\ awaited \cap Serving = {})
    BY <1>2 DEF ResMoves
  <1>3. CASE server = "closing" /\ awaited \cap Serving # {}
    <2>1. PICK s \in Streams : s \in Serving
      BY <1>3 DEF Serving
    <2>2. client[s] = "closed" /\ handler[s] \in {"waiting", "serving"}
      BY <1>1, <2>1 DEF Serving, StreamsInv, StreamOk
    <2>3. HandlerMoves(s)
      BY <2>2 DEF HandlerMoves
    <2>. QED  BY <2>3
  <1>4. server # "closed"
    OBVIOUS
  <1>. QED  BY <1>2, <1>3

\* The initiator has what it waits for, or the responder or the load goes on.
LEMMA InitiatorGoesOn ==
  ASSUME StreamsInv, HasLoad, LoadInv, ServerInv, ProtocolInv, WithinBound, istatus = "run"
  PROVE  SomeoneMoves
  <1>. USE DEF SomeoneMoves, Waiting, ToIni, ToRes, IniData, ResData, NoData
  <1>0. /\ Places /\ Messages /\ rstatus # "rejected"
    BY DEF ProtocolInv, NobodyRejected
  <1>1. CASE ipoint = "ask"
    BY <1>1 DEF IniMoves
  <1>2. CASE ipoint \in {"answer", "pong"} /\ ToIni = <<>>
    <2>1. Asked.op # "load" \/ ipoint = "pong"
      BY <1>0, <1>2 DEF Places
    <2>2. PICK m : Asking(m)
      <3>1. ASSUME ipoint = "answer", Stopped PROVE FALSE
        BY <1>2, <3>1, ShortQueues DEF Stopped
      <3>2. ASSUME ipoint = "answer", Transferring PROVE FALSE
        BY <1>2, <3>2, ShortQueues DEF Transferring
      <3>3. ASSUME NEW m, Replied(m) PROVE FALSE
        BY <1>2, <3>3, ShortQueues DEF Replied
      <3>. QED  BY <1>0, <1>2, <3>1, <3>2, <3>3 DEF Messages
    <2>3. ToRes # <<>> /\ rpoint = "recv"
      BY <2>2, ShortQueues DEF Asking
    <2>4. CASE rstatus = "run"
      BY <2>3, <2>4 DEF ResMoves
    <2>5. CASE rstatus # "run"
      BY <1>2, <2>1, <2>5 DEF IniMoves, UsesComm, ResGone
    <2>. QED  BY <2>4, <2>5
  <1>3. CASE ipoint \in {"answer", "pong"} /\ ToIni # <<>>
    BY <1>3 DEF IniMoves
  <1>4. CASE ipoint = "data"
    <2>1. Transferring /\ Expected = ileft
      BY <1>0, <1>4 DEF Messages, Expected
    <2>2. /\ ileft \in [send : Nat, recv : Nat] /\ rleft \in [send : Nat, recv : Nat]
          /\ ileft.send + Len(ResData) = rleft.recv /\ rleft.send + Len(IniData) = ileft.recv
          /\ rpoint = "data" \/ (rpoint = "recv" /\ Transferred(rleft))
      BY <2>1 DEF Transferring
    <2>3. /\ Len(ResData) \in Nat /\ (Len(ResData) = 0 <=> ResData = <<>>)
          /\ Len(IniData) \in Nat /\ (Len(IniData) = 0 <=> IniData = <<>>)
      <3>1. ResData \in Seq({Message("payload", ipc, 0)}) /\ IniData \in Seq({Message("payload", ipc, 0)})
        BY <2>1 DEF Transferring
      <3>. QED  BY <3>1, EmptySeq
    <2>4. CASE ileft.send > 0 \/ (ileft.recv > 0 /\ IniData # <<>>) \/ (Transferred(ileft) /\ ToIni # <<>>)
      BY <1>4, <2>4 DEF IniMoves
    <2>5. CASE ileft.send = 0 /\ (ileft.recv = 0 \/ IniData = <<>>) /\ (Transferred(ileft) => ToIni = <<>>)
      <3>1. rpoint = "data" /\ ToIni = <<>> /\ IniData = <<>>
        <4>1. CASE rpoint = "recv"
          <5>1. rleft.send = 0 /\ ToIni # <<>>
            BY <1>4, <2>1, <2>2, <4>1, ShortQueues DEF Transferring, Transferred
          <5>2. ileft.recv = 0
            BY <2>2, <2>3, <2>5, <5>1
          <5>. QED  BY <2>5, <5>1, <5>2 DEF Transferred
        <4>2. CASE rpoint = "data"
          <5>1. ToIni = <<>>
            BY <1>4, <2>1, <4>2 DEF Transferring
          <5>2. IniData = <<>>
            BY <2>2, <2>3, <2>5
          <5>. QED  BY <4>2, <5>1, <5>2
        <4>. QED  BY <2>2, <4>1, <4>2
      <3>2. CASE rstatus # "run"
        BY <1>4, <3>1, <3>2 DEF IniMoves, UsesComm, ResGone
      <3>3. CASE rstatus = "run"
        <4>1. rleft.send > 0 \/ (rleft.recv > 0 /\ ResData # <<>>) \/ Transferred(rleft)
          BY <2>2, <2>3, <2>5 DEF Transferred
        <4>. QED  BY <3>1, <3>3, <4>1 DEF ResMoves
      <3>. QED  BY <3>2, <3>3
    <2>6. ileft.send > 0 \/ ileft.send = 0
      BY <2>2
    <2>7. ileft.recv > 0 \/ ileft.recv = 0
      BY <2>2
    <2>. QED  BY <2>4, <2>5, <2>6, <2>7
  <1>5. CASE ipoint = "sleep"
    <2>1. CASE load \in {"opening", "running"}
      BY <2>1, LoadGoesOn
    <2>2. CASE load \in {"ok", "failed"}
      BY <1>5, <2>2 DEF IniMoves, LoadDone
    <2>3. load # "none"
      BY <1>5 DEF HasLoad
    <2>. QED  BY <2>1, <2>2, <2>3 DEF LoadInv
  <1>. QED  BY <1>0, <1>1, <1>2, <1>3, <1>4, <1>5 DEF Places

\* When the initiator has ended, the responder has what it waits for or finds
\* out, or its server is closing.
LEMMA ResponderGoesOn ==
  ASSUME StreamsInv, LoadInv, ServerInv, ProtocolInv, istatus # "run", rstatus = "run"
  PROVE  SomeoneMoves
  <1>1. CASE rpoint = "recv"
    BY <1>1 DEF SomeoneMoves, ResMoves
  <1>2. CASE rpoint = "leaving"
    BY <1>2, CloseGoesOn
  <1>3. CASE rpoint = "data" /\ ResData = <<>>
    BY <1>3 DEF SomeoneMoves, ResMoves, Waiting, ResData
  <1>4. CASE rpoint = "data" /\ ResData # <<>>
    <2>1. Transferring
      BY <1>4 DEF ProtocolInv, Places, Messages, Asking, Replied, Stopped
    <2>2. rleft \in [send : Nat, recv : Nat]
      BY <2>1 DEF Transferring
    <2>3. rleft.send > 0 \/ rleft.recv > 0 \/ Transferred(rleft)
      BY <2>2 DEF Transferred
    <2>. QED  BY <1>4, <2>3 DEF SomeoneMoves, ResMoves, Waiting, ResData
  <1>5. rpoint \in {"recv", "leaving", "data"}
    BY DEF ProtocolInv, Places, Messages, Asking, Replied, Stopped, Transferring
  <1>. QED  BY <1>1, <1>2, <1>3, <1>4, <1>5

\* As long as one of the two nodes runs, it, the other or a stream of the load
\* can take a step, whatever failed before: neither waits for an answer, a payload,
\* a load or a handler that cannot come.
THEOREM NobodyWaitsInVain == Spec => []NobodyStuck
  <1>1. Init => StreamsInv /\ HasLoad /\ ServerInv
    <2>. SUFFICES ASSUME Init PROVE StreamsInv /\ HasLoad /\ ServerInv
      OBVIOUS
    <2>1. ServerInv
      BY DEF Init, LoadInit, ServerInv, Serving
    <2>2. dirs \in Seq(Transfers) /\ \A s \in Streams : StreamOk(s)
      BY DEF Init, LoadInit, StreamOk
    <2>. QED  BY <2>1, <2>2 DEF Init, LoadInit, StreamsInv, HasLoad
  <1>2. StreamsInv /\ HasLoad /\ LoadInv /\ ServerInv /\ ProtocolInv /\ [Next]_vars
            => StreamsInv' /\ HasLoad' /\ LoadInv' /\ ServerInv' /\ ProtocolInv'
    BY StreamsStep, HasLoadStep, LoadStep, ServerStep, ProtocolStep
  <1>3. StreamsInv /\ HasLoad /\ LoadInv /\ ServerInv /\ ProtocolInv => NobodyStuck
    BY InitiatorGoesOn, ResponderGoesOn DEF NobodyStuck
  <1>. QED  BY <1>1, <1>2, <1>3, InitKeeps, PTL DEF Spec
=============================================================================
