--------------------------- MODULE MCPeerWriter ---------------------------
(* Small instances of PeerWriter for TLC.                                  *)
EXTENDS PeerWriterRefinement

CONSTANTS m1, m2, m3, m4

MCMsgs == {m1, m2, m3}
MCFour == {m1, m2, m3, m4}

\* m3 is the large message: with MaxBytes = 2 it fits beside no other message,
\* so the limit in bytes bites before the limit in messages; with MaxBytes = 4
\* only the limit in messages does.
MCSize == [m \in MCMsgs |-> IF m = m3 THEN 2 ELSE 1]

\* A fourth message, for what is written behind a frame that was left unfinished.
MCSizeOfFour == [m \in MCFour |-> IF m = m3 THEN 2 ELSE 1]
=============================================================================
