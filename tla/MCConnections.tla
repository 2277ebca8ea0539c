--------------------------- MODULE MCConnections ---------------------------
(* A small instance of Connections for TLC.                                *)
EXTENDS Connections

CONSTANTS A, B, a1, a2, b1

MCOutbox == [n \in Nodes |-> IF n = A THEN <<a1, a2>> ELSE <<b1>>]
=============================================================================
