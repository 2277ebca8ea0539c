----------------------- MODULE PeerWriterRefinement -----------------------
(* The writer of a peer implements SendService.                            *)
EXTENDS PeerWriter

\* Where a message is: outside until the queue accepts it, in the backlog
\* while it is queued or in the hands of a writer task, then gone.
PlaceOf(m) ==
    IF Queued(m) \/ Active(m) THEN "backlog"
    ELSE IF \E i \in 1 .. Len(accepted) : accepted[i] = m THEN "gone" ELSE "outside"

Service == INSTANCE SendService WITH
    place <- [m \in Msgs |-> PlaceOf(m)],
    result <- [m \in Msgs |-> IF spc[m] \in Ended THEN spc[m] ELSE "none"],
    given <- written

\* Every behaviour of the senders, writer tasks and connections of a peer is one
\* of the service: whatever the interleaving, the backlog stays within its
\* limits, a buffer is read only while its send() runs, and a send() that
\* returns without an error had its whole frame written once (comm.py send,
\* _enqueue, _writer_loop).
RefinesSendService == Service!Spec
=============================================================================
