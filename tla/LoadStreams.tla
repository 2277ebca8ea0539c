---------------------------- MODULE LoadStreams ----------------------------
(***************************************************************************)
(* Background load (load.py): TCP streams of a load task on one node, a    *)
(* LoadServer with a handler for each on the other.  What one end sees of  *)
(* the other is what the connection carries: the request, READY, GO, the   *)
(* payload and the end of stream, in this order.                           *)
(***************************************************************************)
EXTENDS Integers, Sequences, FiniteSets

CONSTANTS
    MaxStreams,  \* bound: streams of all loads of a run
    MayLose      \* streams whose connection may be lost

ASSUME LoadAssumption == MaxStreams \in Nat /\ MayLose \subseteq 1 .. MaxStreams

VARIABLES
    load,      \* the load task: none, opening, running, ok or failed
    mine,      \* the streams of the present load
    dirs,      \* the direction of every stream so far
    client,    \* where the client of a stream is
    went,      \* streams on which GO was written
    lost,      \* streams whose connection was lost
    handler,   \* where the server's handler of a stream is
    server,    \* the listening socket: none, listening, closing, closed
    awaited    \* handlers LoadServer.close() waits for

loadVars == <<load, mine, dirs, client, went, lost, handler, server, awaited>>

Streams == 1 .. MaxStreams

LoadInit ==
    /\ load = "none" /\ mine = {} /\ dirs = <<>>
    /\ client = [s \in Streams |-> "none"]
    /\ went = {} /\ lost = {}
    /\ handler = [s \in Streams |-> "none"]
    /\ server = "none" /\ awaited = {}

LoadSucceeded == load = "ok"

\* load_task.done()
LoadDone == load \in {"ok", "failed"}

Serving == {s \in Streams : handler[s] \in {"waiting", "serving"}}

---------------------------------------------------------------------------
(* The load task                                                           *)

Directions(direction, n) ==
    IF direction = "bidirectional"
    THEN [k \in 1 .. 2 * n |-> IF k <= n THEN "upload" ELSE "download"]
    ELSE [k \in 1 .. n |-> direction]

\* run_load opens its streams: each connects and writes its request.
RunLoad(direction, n) ==
    /\ dirs' = dirs \o Directions(direction, n)
    /\ mine' = Len(dirs) + 1 .. Len(dirs')
    /\ load' = "opening"
    /\ client' = [s \in Streams |-> IF s \in mine' THEN "asking" ELSE client[s]]
    /\ UNCHANGED <<went, lost, handler, server, awaited>>

Opened(s) ==
    /\ client[s] = "asking" /\ s \notin lost /\ handler[s] = "waiting"
    /\ client' = [client EXCEPT ![s] = "ready"]
    /\ UNCHANGED <<load, mine, dirs, went, lost, handler, server, awaited>>

\* A connection is refused where nobody listens.
Refused(s) == handler[s] = "none" /\ server # "listening"

\* gather() raises; the streams that were opened are closed by nobody.
OpenFails(s) ==
    /\ client[s] = "asking" /\ (s \in lost \/ Refused(s))
    /\ client' = [client EXCEPT ![s] = "left"]
    /\ load' = "failed"
    /\ UNCHANGED <<mine, dirs, went, lost, handler, server, awaited>>

\* GO to all of them at once; a drain may notice that a connection is lost.
Go ==
    /\ load = "opening" /\ \A s \in mine : client[s] = "ready"
    /\ went' = went \cup mine
    /\ \/ load' = "running" /\ client' = [s \in Streams |-> IF s \in mine THEN "going" ELSE client[s]]
       \/ mine \cap lost # {} /\ load' = "failed" /\ UNCHANGED client
    /\ UNCHANGED <<mine, dirs, lost, handler, server, awaited>>

\* An upload ends with its duration, a download at the end of the stream.
ClientEnds(s) ==
    /\ client[s] = "going"
    /\ dirs[s] = "download" => s \notin lost /\ handler[s] = "done"
    /\ client' = [client EXCEPT ![s] = "closed"]
    /\ UNCHANGED <<load, mine, dirs, went, lost, handler, server, awaited>>

ClientFails(s) ==
    /\ client[s] = "going" /\ s \in lost
    /\ client' = [client EXCEPT ![s] = "closed"]
    /\ load' = "failed"
    /\ UNCHANGED <<mine, dirs, went, lost, handler, server, awaited>>

LoadEnds ==
    /\ load = "running" /\ \A s \in mine : client[s] # "going"
    /\ load' = "ok"
    /\ UNCHANGED <<mine, dirs, client, went, lost, handler, server, awaited>>

---------------------------------------------------------------------------
(* The server                                                              *)

Accept(s) ==
    /\ server = "listening" /\ client[s] # "none" /\ handler[s] = "none"
    /\ handler' = [handler EXCEPT ![s] = IF s \in lost THEN "done" ELSE "waiting"]
    /\ UNCHANGED <<load, mine, dirs, client, went, lost, server, awaited>>

Serve(s) ==
    /\ handler[s] = "waiting" /\ s \in went /\ s \notin lost
    /\ handler' = [handler EXCEPT ![s] = "serving"]
    /\ UNCHANGED <<load, mine, dirs, client, went, lost, server, awaited>>

\* The handler ends: without GO, at the end of an upload, after the duration of
\* a download, or because the connection is lost.
HandlerEnds(s) ==
    /\ s \in Serving
    /\ \/ s \in lost
       \/ handler[s] = "waiting" /\ client[s] = "closed" /\ s \notin went
       \/ handler[s] = "serving" /\ (dirs[s] = "download" \/ client[s] = "closed")
    /\ handler' = [handler EXCEPT ![s] = "done"]
    /\ UNCHANGED <<load, mine, dirs, client, went, lost, server, awaited>>

Lose(s) ==
    /\ s \in MayLose \ lost /\ client[s] # "none" /\ handler[s] # "done"
    /\ lost' = lost \cup {s}
    /\ UNCHANGED <<load, mine, dirs, client, went, handler, server, awaited>>

NoHandlers == {}

HandlersToAwait == Serving

CloseServer ==
    /\ server' = "closing"
    /\ awaited' = HandlersToAwait
    /\ UNCHANGED <<load, mine, dirs, client, went, lost, handler>>

ServerClosed ==
    /\ server = "closing" /\ awaited \cap Serving = {}
    /\ server' = "closed"
    /\ UNCHANGED <<load, mine, dirs, client, went, lost, handler, awaited>>

---------------------------------------------------------------------------
(* The end of a process takes its sockets along (asyncio.run)              *)

ClientExits ==
    /\ client' = [s \in Streams |-> IF client[s] = "none" THEN "none" ELSE "closed"]
    /\ load' = IF load \in {"opening", "running"} THEN "failed" ELSE load
    /\ UNCHANGED <<mine, dirs, went, lost, handler, server, awaited>>

ServerExits ==
    /\ lost' = lost \cup {s \in Streams : client[s] # "none" /\ handler[s] # "done"}
    /\ handler' = [s \in Streams |-> IF s \in Serving THEN "done" ELSE handler[s]]
    /\ server' = IF server = "none" THEN "none" ELSE "closed"
    /\ UNCHANGED <<load, mine, dirs, client, went, awaited>>

StreamStep(s) ==
    \/ Opened(s) \/ OpenFails(s) \/ ClientEnds(s) \/ ClientFails(s)
    \/ Accept(s) \/ Serve(s) \/ HandlerEnds(s)
=============================================================================
