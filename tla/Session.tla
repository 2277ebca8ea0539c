------------------------------ MODULE Session ------------------------------
(***************************************************************************)
(* The benchmark of two nodes (benchmark.py): the initiator walks a script *)
(* of requests, the responder serves one after the other, payloads go in   *)
(* both directions, and loads run behind probes (LoadStreams).  The two    *)
(* Comms are a FIFO channel for each node and tag, as in TagChannels.      *)
(***************************************************************************)
EXTENDS LoadStreams, SequencesExt

CONSTANTS
    Benchmarks,  \* the settings a run may have
    MayFail,     \* whether sends and receives of Comm may fail or time out
    MaxProbes    \* bound: probes during one load

VARIABLES
    bench,    \* the settings of this run
    ipc,      \* the request of its script the initiator is at
    ipoint,   \* what it does for this request
    ileft,    \* payloads it has still to send and to receive
    istatus,
    probes,   \* answered and pending probes of the present load
    rpoint,   \* what the responder does
    rat,      \* the request it serves
    rleft,
    rstatus,
    net       \* for each node and tag, messages sent and not received

iniVars == <<ipc, ipoint, ileft, istatus, probes>>
resVars == <<rpoint, rat, rleft, rstatus>>
vars == <<bench, iniVars, resVars, net, loadVars>>

---------------------------------------------------------------------------
(* The script                                                              *)

Op(op, size, count) == [op |-> op, size |-> size, count |-> count]

Transfers == {"upload", "download", "bidirectional"}

LeastOf(a, b) == IF a < b THEN a ELSE b

GreatestOf(a, b) == IF a < b THEN b ELSE a

MessageCount(b, size) ==
    LeastOf(b.most, GreatestOf(b.least, (b.target + size - 1) \div size))

Repeat(op, n) == [k \in 1 .. n |-> op]

TransferOps(b, size) ==
    LET Trials(d) == IF d \in b.directions THEN Repeat(Op(d, size, MessageCount(b, size)), b.trials) ELSE <<>>
    IN  Trials("upload") \o Trials("download") \o Trials("bidirectional")

ScriptOf(b) ==
    <<Op("hello", 0, 0), Op("diagnostics", 0, 0)>>
    \o Repeat(Op("ping", 0, 0), b.pings)
    \o FlattenSeq([k \in 1 .. Len(b.sizes) |-> TransferOps(b, b.sizes[k])])
    \o (IF b.tensors = 0 THEN <<>> ELSE Repeat(Op("tensor_ping", 0, 0), b.tensors) \o <<Op("tensor_structures", 0, 0)>>)
    \o [k \in 1 .. Len(b.loads) |-> [op |-> "load", size |-> 0, count |-> 0, load |-> b.loads[k]]]
    \o <<Op("stop", 0, 0)>>

\* BenchmarkSettings.__post_init__
ValidBenchmark(b) ==
    /\ b.directions # {} /\ b.directions \subseteq Transfers
    /\ b.sizes \in Seq(Nat \ {0}) /\ b.sizes # <<>>
    /\ {b.pings, b.trials, b.target, b.least, b.most} \subseteq Nat \ {0} /\ b.least <= b.most
    /\ b.tensors \in Nat
    /\ b.loads \in Seq([direction : b.directions, streams : Nat \ {0}])

ASSUME SessionAssumption ==
    /\ \A b \in Benchmarks : ValidBenchmark(b)
    /\ MayFail \in BOOLEAN /\ MaxProbes \in Nat

Script == [b \in Benchmarks |-> ScriptOf(b)]

Asked == Script[bench][ipc]

\* What one side of a transfer has to send and to receive.
Left(op, sends, receives) ==
    [send |-> IF op.op \in sends THEN op.count ELSE 0, recv |-> IF op.op \in receives THEN op.count ELSE 0]

UpOps == {"upload", "bidirectional"}
DownOps == {"download", "bidirectional"}

LastMissing(left) == left.send = 0 /\ left.recv <= 1

Transferred(left) == left.send = 0 /\ left.recv = 0

Init ==
    /\ bench \in Benchmarks
    /\ ipc = 1 /\ ipoint = "ask" /\ ileft = [send |-> 0, recv |-> 0] /\ istatus = "run" /\ probes = 0
    /\ rpoint = "recv" /\ rat = 1 /\ rleft = [send |-> 0, recv |-> 0] /\ rstatus = "run"
    /\ net = [node \in {"ini", "res"} |-> [tag \in {"control", "data"} |-> <<>>]]
    /\ LoadInit

---------------------------------------------------------------------------
(* Messages                                                                *)

Message(op, at, n) == [op |-> op, at |-> at, n |-> n]

Put(dst, tag, m) == net' = [net EXCEPT ![dst][tag] = Append(@, m)]

PutPayload(dst, at) == Put(dst, "data", Message("payload", at, 0))

Waiting(node, tag) == net[node][tag] # <<>>

First(node, tag) == Head(net[node][tag])

Take(node, tag) == Waiting(node, tag) /\ net' = [net EXCEPT ![node][tag] = Tail(@)]

SameWorkload(x, y) == x.op = y.op /\ x.size = y.size /\ x.count = y.count

\* A payload is accepted when it has the size of this transfer.
SizeAccepted(m, at) == Script[bench][m.at].size = Script[bench][at].size

---------------------------------------------------------------------------
(* The initiator                                                           *)

\* Comm is closed on the way out, and the process ends.
IniEnds(how) ==
    /\ istatus' = how
    /\ ClientExits
    /\ UNCHANGED <<bench, ipc, ipoint, ileft, probes, resVars>>

Advance ==
    /\ ipc' = ipc + 1 /\ ipoint' = "ask"
    /\ UNCHANGED <<bench, ileft, istatus, resVars>>

IniAsk ==
    /\ ipoint = "ask" /\ Asked.op # "load"
    /\ Put("res", "control", Message(Asked.op, ipc, 0))
    /\ ipoint' = "answer"
    /\ UNCHANGED <<bench, ipc, ileft, istatus, probes, resVars, loadVars>>

Answer(op) ==
    CASE op = "ping"        -> "pong"
      [] op = "tensor_ping" -> "tensor_pong"
      [] op = "stop"        -> "stopped"
      [] op \in Transfers   -> "ready"
      [] OTHER              -> op

IniAnswered ==
    /\ ipoint = "answer"
    /\ Take("ini", "control")
    /\ LET m == First("ini", "control") IN
        IF m.op # Answer(Asked.op) \/ (m.op \in {"pong", "tensor_pong"} /\ m.at # ipc)
           THEN IniEnds("rejected")
           ELSE IF Asked.op = "stop"
           THEN IniEnds("done")
           ELSE IF Asked.op \in Transfers
           THEN /\ ipoint' = "data" /\ ileft' = Left(Asked, UpOps, DownOps)
                /\ UNCHANGED <<bench, ipc, istatus, probes, resVars, loadVars>>
           ELSE Advance /\ UNCHANGED <<probes, loadVars>>

IniSends ==
    /\ ipoint = "data" /\ ileft.send > 0
    /\ PutPayload("res", ipc)
    /\ ileft' = [ileft EXCEPT !.send = @ - 1]
    /\ UNCHANGED <<bench, ipc, ipoint, istatus, probes, resVars, loadVars>>

IniReceives ==
    /\ ipoint = "data" /\ ileft.recv > 0
    /\ Take("ini", "data")
    /\ IF SizeAccepted(First("ini", "data"), ipc)
           THEN /\ ileft' = [ileft EXCEPT !.recv = @ - 1]
                /\ UNCHANGED <<bench, ipc, ipoint, istatus, probes, resVars, loadVars>>
           ELSE IniEnds("rejected")

IniCompletes ==
    /\ ipoint = "data" /\ Transferred(ileft)
    /\ Take("ini", "control")
    /\ LET m == First("ini", "control") IN
        IF m.op = "complete" /\ SameWorkload(Script[bench][m.at], Asked)
           THEN Advance /\ UNCHANGED <<probes, loadVars>>
           ELSE IniEnds("rejected")

---------------------------------------------------------------------------
(* Latency under load                                                      *)

IniStartsLoad ==
    /\ ipoint = "ask" /\ Asked.op = "load"
    /\ RunLoad(Asked.load.direction, Asked.load.streams)
    /\ ipoint' = "sleep" /\ probes' = 0
    /\ UNCHANGED <<bench, ipc, ileft, istatus, resVars, net>>

IniProbes ==
    /\ ipoint = "sleep" /\ ~LoadDone /\ probes < MaxProbes
    /\ Put("res", "control", Message("ping", ipc, probes))
    /\ ipoint' = "pong" /\ probes' = probes + 1
    /\ UNCHANGED <<bench, ipc, ileft, istatus, resVars, loadVars>>

IniProbed ==
    /\ ipoint = "pong"
    /\ Take("ini", "control")
    /\ LET m == First("ini", "control") IN
        IF m.op = "pong" /\ m.at = ipc /\ m.n = probes - 1
           THEN ipoint' = "sleep" /\ UNCHANGED <<bench, ipc, ileft, istatus, probes, resVars, loadVars>>
           ELSE IniEnds("rejected")

\* await load_task; without a sample there is nothing to summarize.
IniJoins ==
    /\ ipoint = "sleep" /\ LoadDone
    /\ UNCHANGED net
    /\ IF load = "failed" \/ probes = 0
       THEN IniEnds("failed")
       ELSE Advance /\ UNCHANGED <<probes, loadVars>>

---------------------------------------------------------------------------
(* The responder                                                           *)

\* Comm is closed and the process ends; load_server.close() is not reached.
ResEnds(how) ==
    /\ rstatus' = how
    /\ ServerExits
    /\ UNCHANGED <<bench, iniVars, rpoint, rat, rleft>>

Starts(m) == m.op = "hello" /\ Len(bench.loads) > 0

Reply(m) == Message(Answer(m.op), m.at, m.n)

ResServes ==
    /\ rpoint = "recv"
    /\ Waiting("res", "control")
    /\ LET m == First("res", "control") IN
        /\ net' = [net EXCEPT !["res"]["control"] = Tail(@), !["ini"]["control"] = Append(@, Reply(m))]
        /\ rat' = m.at
        /\ rpoint' = CASE m.op = "stop" -> "leaving" [] m.op \in Transfers -> "data" [] OTHER -> "recv"
        /\ rleft' = IF m.op \in Transfers THEN Left(Script[bench][m.at], DownOps, UpOps) ELSE rleft
        /\ server' = IF Starts(m) THEN "listening" ELSE server
    /\ UNCHANGED <<bench, iniVars, rstatus, load, mine, dirs, client, went, lost, handler, awaited>>

ResSends ==
    /\ rpoint = "data" /\ rleft.send > 0
    /\ PutPayload("ini", rat)
    /\ rleft' = [rleft EXCEPT !.send = @ - 1]
    /\ UNCHANGED <<bench, iniVars, rpoint, rat, rstatus, loadVars>>

ResReceives ==
    /\ rpoint = "data" /\ rleft.recv > 0
    /\ Take("res", "data")
    /\ IF SizeAccepted(First("res", "data"), rat)
           THEN /\ rleft' = [rleft EXCEPT !.recv = @ - 1]
                /\ UNCHANGED <<bench, iniVars, rpoint, rat, rstatus, loadVars>>
           ELSE ResEnds("rejected")

ResCompletes ==
    /\ rpoint = "data" /\ Transferred(rleft)
    /\ Put("ini", "control", Message("complete", rat, 0))
    /\ rpoint' = "recv"
    /\ UNCHANGED <<bench, iniVars, rat, rleft, rstatus, loadVars>>

ResCloses ==
    /\ rpoint = "leaving" /\ server = "listening" /\ CloseServer
    /\ UNCHANGED <<bench, iniVars, resVars, net>>

ResReturns ==
    /\ rpoint = "leaving"
    /\ \/ server = "none" /\ UNCHANGED loadVars
       \/ ServerClosed
    /\ rstatus' = "done"
    /\ UNCHANGED <<bench, iniVars, rpoint, rat, rleft, net>>

---------------------------------------------------------------------------
(* Failures                                                                *)

UsesComm == ipoint # "sleep" /\ ~(ipoint = "ask" /\ Asked.op = "load")

\* A send or a receive fails or times out, a send also when it was delivered.
IniBreaks ==
    /\ MayFail /\ istatus = "run" /\ UsesComm
    /\ IniEnds("failed") /\ UNCHANGED net

ResBreaks ==
    /\ MayFail /\ rstatus = "run" /\ server # "closing"
    /\ ResEnds("failed") /\ UNCHANGED net

\* The other side has closed its Comm.
ResGone == rstatus # "run" \/ rpoint = "leaving"

IniLosesPeer ==
    /\ istatus = "run" /\ UsesComm /\ ResGone
    /\ ~Waiting("ini", "control") /\ (ipoint = "data" => ~Waiting("ini", "data"))
    /\ IniEnds("failed") /\ UNCHANGED net

ResLosesPeer ==
    /\ rstatus = "run" /\ rpoint # "leaving" /\ istatus # "run"
    /\ ~Waiting("res", IF rpoint = "data" THEN "data" ELSE "control")
    /\ ResEnds("failed") /\ UNCHANGED net

---------------------------------------------------------------------------
IniStep ==
    /\ istatus = "run"
    /\ \/ IniAsk \/ IniAnswered \/ IniSends \/ IniReceives \/ IniCompletes
       \/ IniStartsLoad \/ IniProbes \/ IniProbed \/ IniJoins \/ IniLosesPeer

ResStep ==
    /\ rstatus = "run"
    /\ ResServes \/ ResSends \/ ResReceives \/ ResCompletes \/ ResCloses \/ ResReturns \/ ResLosesPeer

TaskStep == (Go \/ LoadEnds) /\ UNCHANGED <<bench, iniVars, resVars, net>>

ConnStep(s) == StreamStep(s) /\ UNCHANGED <<bench, iniVars, resVars, net>>

Losses == \E s \in Streams : Lose(s) /\ UNCHANGED <<bench, iniVars, resVars, net>>

Next ==
    \/ IniStep \/ ResStep \/ TaskStep
    \/ \E s \in Streams : ConnStep(s)
    \/ IniBreaks \/ ResBreaks \/ Losses

Spec == Init /\ [][Next]_vars

\* Event loops run, time passes and TCP delivers what was sent.
FairSpec ==
    /\ Spec
    /\ WF_vars(IniStep) /\ WF_vars(ResStep) /\ WF_vars(TaskStep)
    /\ \A s \in Streams : WF_vars(ConnStep(s))

---------------------------------------------------------------------------
(* Properties                                                              *)

\* An answer belongs to its question and a payload to its transfer.
NobodyRejected == istatus # "rejected" /\ rstatus # "rejected"

\* Measurements do not disturb each other: payloads on their way belong to the
\* transfer both sides are in, no stream of a load is left when the next request
\* is made, and neither side, wherever the other fails, objects to a message.
MeasurementsApart ==
    /\ NobodyRejected
    /\ istatus = "run" /\ rstatus = "run" =>
        /\ \A node \in {"ini", "res"} : \A m \in ToSet(net[node]["data"]) :
            m.at = ipc /\ m.at = rat /\ ipoint \in {"answer", "data"}
        /\ (Asked.op # "load" \/ ipoint = "ask") => \A s \in Streams : client[s] \in {"none", "closed"}

\* A responder that returns its report has no handler of a load at work and no
\* listening socket: LoadServer.close() waits for all handlers there are.
NothingLeft ==
    rstatus = "done" => Serving = {} /\ server \in {"none", "closed"}

\* Whatever fails, both sides end; close() waits for no handler in vain.
BothEnd == <>(istatus # "run" /\ rstatus # "run")
=============================================================================
