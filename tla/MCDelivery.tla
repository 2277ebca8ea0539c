---------------------------- MODULE MCDelivery ----------------------------
(* Small instances of Delivery for TLC.                                    *)
EXTENDS Delivery

CONSTANTS m1, m2, m3, r1, r3, c1, c2, Bad

\* m3 and r3 have a tag of their own.
MCTag == [m \in Msgs |-> IF m = m3 THEN 2 ELSE 1]
MCRTag == [r \in Receivers |-> IF r = r3 THEN 2 ELSE 1]

\* Messages of one tag and connections are interchangeable.
MCSymmetry == Permutations({m1, m2}) \cup Permutations({c1, c2})
=============================================================================
