----------------------------- MODULE MCCluster -----------------------------
(* Settings for TLC.                                                       *)
EXTENDS Cluster

Setting(cluster, node, ring, collectives, sizes, rounds, root, concurrency, block) ==
    [cluster |-> cluster, world |-> Len(ring), node |-> node, ring |-> ring,
     collectives |-> collectives, sizes |-> sizes, rounds |-> rounds,
     root |-> root, concurrency |-> concurrency, block |-> block]

Nodes(owner) == [r \in 0 .. Len(owner) - 1 |-> owner[r + 1]]

MCSettings == {
    Setting(TRUE, Nodes(<<1, 2, 3>>), <<0, 2, 1>>, <<"broadcast", "barrier", "allgather">>, <<3>>, 2, 1, 3, 0),
    Setting(TRUE, Nodes(<<1, 2, 1>>), <<0, 1, 2>>, <<"ring_allreduce">>, <<3, 9>>, 2, 0, 3, 2),
    Setting(TRUE, Nodes(<<1, 2, 3>>), <<0, 1, 2>>, <<"all_to_all_exchange", "ring_exchange">>, <<3>>, 2, 0, 1, 0),
    Setting(FALSE, Nodes(<<1, 2>>), <<0, 1>>, <<"ring_allreduce", "allgather">>, <<2, 4>>, 2, 0, 2, 0),
    Setting(FALSE, Nodes(<<1, 2, 1, 2>>), <<0, 1, 2, 3>>, <<"ring_exchange", "ring_allreduce">>, <<4>>, 1, 0, 3, 0)}

\* The conditions under which all stages are proved to be told apart.
ASSUME MCStagesApart == \A s \in MCSettings : SizesApart(s) /\ AnswersApart(s)
=============================================================================
