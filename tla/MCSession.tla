----------------------------- MODULE MCSession -----------------------------
(* Settings for TLC.                                                       *)
EXTENDS Session

Benchmark(pings, directions, sizes, trials, target, tensors, loads) ==
    [pings |-> pings, directions |-> directions, sizes |-> sizes, trials |-> trials,
     target |-> target, least |-> 1, most |-> 2, tensors |-> tensors, loads |-> loads]

Load(direction, streams) == [direction |-> direction, streams |-> streams]

MCBenchmarks == {
    Benchmark(1, Transfers, <<1, 2>>, 2, 3, 1, <<>>),
    Benchmark(1, {"bidirectional", "upload"}, <<1>>, 1, 1, 0, <<Load("bidirectional", 1), Load("upload", 2)>>),
    Benchmark(2, {"upload", "download"}, <<1>>, 1, 1, 0, <<Load("download", 2), Load("upload", 1)>>)}
=============================================================================
