---------------------------- MODULE TagChannels ----------------------------
(***************************************************************************)
(* What recv(src, tag) promises, whatever queue, tasks and connections     *)
(* implement it: each tag of a peer is a FIFO channel of its own, in which *)
(* every message is put at most once and from which it is taken at most    *)
(* once.  The order of a channel is a relation, so that nothing is said    *)
(* about how messages of different tags stand to each other.               *)
(***************************************************************************)
CONSTANTS Msgs, Tag

VARIABLES
    waiting,   \* the messages that wait for a receiver
    ahead,     \* <<a, b>>: both wait in one channel, and a was put in first
    taken      \* the messages that a receiver got

Init ==
    /\ waiting = {}
    /\ ahead = {}
    /\ taken = {}

Channel(t) == {a \in waiting : Tag[a] = t}

Put(m) ==
    /\ m \notin waiting \cup taken
    /\ waiting' = waiting \cup {m}
    /\ ahead' = ahead \cup {<<a, m>> : a \in Channel(Tag[m])}
    /\ UNCHANGED taken

\* Only the head of a channel is taken.
Take(m) ==
    /\ m \in waiting
    /\ \A a \in waiting : <<a, m>> \notin ahead
    /\ waiting' = waiting \ {m}
    /\ ahead' = {p \in ahead : p[1] # m}
    /\ taken' = taken \cup {m}

Next == \E m \in Msgs : Put(m) \/ Take(m)

Spec == Init /\ [][Next]_<<waiting, ahead, taken>>
=============================================================================
