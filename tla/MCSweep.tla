------------------------------ MODULE MCSweep ------------------------------
(* A small instance of Sweep for TLC.                                      *)
EXTENDS Sweep

CONSTANTS n1, n2, p2p, knee, confirm

\* A variant of p2p and one of p2p-confirm have the same name.
MCNameOf == [v \in Variants |-> IF v = knee THEN "knee" ELSE "p2p"]
MCPlans == {<<knee, p2p>>, <<p2p, confirm>>}
=============================================================================
