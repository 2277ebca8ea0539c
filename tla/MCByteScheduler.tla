------------------------- MODULE MCByteScheduler -------------------------
(* Small instances of ByteScheduler for TLC.                               *)
EXTENDS ByteScheduler

CONSTANTS c1, c2, c3, p1, p2, p3

ThreeClients == {c1, c2, c3}

\* Two clients of one peer (a writer and its replacement) and one of another.
SharedPeer == [x \in ThreeClients |-> IF x = c3 THEN p2 ELSE p1]
OwnPeers == [x \in ThreeClients |-> CASE x = c1 -> p1 [] x = c2 -> p2 [] x = c3 -> p3]
=============================================================================
