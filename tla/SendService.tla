---------------------------- MODULE SendService ----------------------------
(***************************************************************************)
(* What Comm.send promises to its callers, whatever tasks and connections  *)
(* implement it: a bounded backlog of messages, each of them written at    *)
(* most once, only while its send() still runs (the buffer is borrowed),   *)
(* and whole when that send() returns without an error.                    *)
(***************************************************************************)
EXTENDS Integers, FiniteSets

CONSTANTS Msgs, Size, MaxMessages, MaxBytes, Parts

VARIABLES
    place,    \* a message is outside the service, in its backlog, or gone
    result,   \* how its send() ended, "none" while it runs
    given     \* number of parts of its frame given to a transport

Init ==
    /\ place = [m \in Msgs |-> "outside"]
    /\ result = [m \in Msgs |-> "none"]
    /\ given = [m \in Msgs |-> 0]

Backlog == {m \in Msgs : place[m] = "backlog"}

\* The bytes of the messages in S: <<m, k>> is the k-th byte of m.
Bytes(S) == Cardinality(UNION {{m} \X (1 .. Size[m]) : m \in S})

Accept(m) ==
    /\ place[m] = "outside" /\ result[m] = "none"
    /\ Cardinality(Backlog) < MaxMessages
    /\ Bytes(Backlog \cup {m}) <= MaxBytes
    /\ place' = [place EXCEPT ![m] = "backlog"]
    /\ UNCHANGED <<result, given>>

Write(m) ==
    /\ place[m] = "backlog"
    /\ \E n \in given[m] + 1 .. Parts : given' = [given EXCEPT ![m] = n]
    /\ UNCHANGED <<place, result>>

\* A message that was written, or whose connection failed, leaves the backlog.
Leave(m) ==
    /\ place[m] = "backlog"
    /\ place' = [place EXCEPT ![m] = "gone"]
    /\ UNCHANGED <<result, given>>

\* A cancelled send takes a message back that no transport has seen.
Withdraw(m) ==
    /\ place[m] = "backlog" /\ given[m] = 0
    /\ place' = [place EXCEPT ![m] = "gone"]
    /\ result' = [result EXCEPT ![m] = "cancelled"]
    /\ UNCHANGED given

Return(m) ==
    /\ result[m] = "none" /\ place[m] # "backlog"
    /\ \E r \in {"ok", "error", "cancelled"} :
         /\ r = "ok" => place[m] = "gone" /\ given[m] = Parts
         /\ result' = [result EXCEPT ![m] = r]
    /\ UNCHANGED <<place, given>>

Next == \E m \in Msgs : Accept(m) \/ Write(m) \/ Leave(m) \/ Withdraw(m) \/ Return(m)

Spec == Init /\ [][Next]_<<place, result, given>>
=============================================================================
