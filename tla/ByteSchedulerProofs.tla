------------------------ MODULE ByteSchedulerProofs ------------------------
(* Theorems about ByteScheduler for every value of its constants.          *)
EXTENDS ByteScheduler, SequenceTheorems, TLAPS

USE ByteSchedulerAssumption

---------------------------------------------------------------------------
(* Sequences of clients                                                    *)

Distinct(s) == \A i, j \in 1 .. Len(s) : s[i] = s[j] => i = j

\* c comes before d in s.
Precedes(s, c, d) == \E i, j \in 1 .. Len(s) : i < j /\ s[i] = c /\ s[j] = d

\* What a client adds to the queue.
LEMMA Appended ==
  ASSUME NEW s \in Seq(Clients), NEW c \in Clients
  PROVE  /\ Append(s, c) \in Seq(Clients)
         /\ \A d \in Clients : Contains(Append(s, c), d) <=> Contains(s, d) \/ d = c
         /\ Distinct(s) /\ ~Contains(s, c) => Distinct(Append(s, c))
         /\ \A b, d \in Clients : Precedes(Append(s, c), b, d) => Precedes(s, b, d) \/ d = c
  <1>. DEFINE t == Append(s, c)
  <1>1. /\ t \in Seq(Clients) /\ Len(s) \in Nat /\ Len(t) = Len(s) + 1
        /\ \A i \in 1 .. Len(s) : t[i] = s[i]
        /\ t[Len(s) + 1] = c
    BY AppendProperties
  <1>. HIDE DEF t
  <1>2. 1 .. Len(t) = 1 .. Len(s) \cup {Len(s) + 1}
    BY <1>1
  <1>3. \A d \in Clients : Contains(t, d) <=> Contains(s, d) \/ d = c
    BY <1>1, <1>2 DEF Contains
  <1>4. Distinct(s) /\ ~Contains(s, c) => Distinct(t)
    BY <1>1, <1>2 DEF Distinct, Contains
  <1>5. \A b, d \in Clients : Precedes(t, b, d) => Precedes(s, b, d) \/ d = c
    BY <1>1, <1>2 DEF Precedes
  <1>. QED  BY <1>1, <1>3, <1>4, <1>5 DEF t

\* What is left when the head is popped.
LEMMA Popped ==
  ASSUME NEW s \in Seq(Clients), s # <<>>
  PROVE  /\ Tail(s) \in Seq(Clients) /\ Head(s) \in Clients /\ Contains(s, Head(s))
         /\ Distinct(s) => /\ Distinct(Tail(s))
                           /\ \A d \in Clients : Contains(Tail(s), d) <=> Contains(s, d) /\ d # Head(s)
         /\ \A d \in Clients : Contains(Tail(s), d) => Precedes(s, Head(s), d)
         /\ \A c, d \in Clients : Precedes(Tail(s), c, d) => Precedes(s, c, d)
  <1>. DEFINE t == Tail(s)
  <1>1. /\ t \in Seq(Clients) /\ Len(s) \in Nat /\ Len(s) >= 1 /\ Len(t) = Len(s) - 1
        /\ \A k \in 1 .. Len(t) : t[k] = s[k + 1]
        /\ Head(s) = s[1] /\ s[1] \in Clients
    BY HeadTailProperties
  <1>. HIDE DEF t
  <1>2. \A k \in 1 .. Len(t) : k + 1 \in 1 .. Len(s) /\ k + 1 # 1
    BY <1>1
  <1>3. \A j \in 1 .. Len(s) : j = 1 \/ (j - 1 \in 1 .. Len(t) /\ (j - 1) + 1 = j)
    BY <1>1
  <1>4. Contains(s, s[1])
    BY <1>1 DEF Contains
  <1>5. ASSUME Distinct(s)  PROVE Distinct(t)
    BY <1>1, <1>2, <1>5 DEF Distinct
  <1>6. ASSUME Distinct(s), NEW d \in Clients
        PROVE  Contains(t, d) <=> Contains(s, d) /\ d # s[1]
    <2>1. ASSUME Contains(t, d)  PROVE Contains(s, d) /\ d # s[1]
      BY <1>1, <1>2, <1>6, <2>1 DEF Contains, Distinct
    <2>2. ASSUME Contains(s, d), d # s[1]  PROVE Contains(t, d)
      <3>1. PICK j \in 1 .. Len(s) : s[j] = d /\ j # 1
        BY <2>2 DEF Contains
      <3>. QED  BY <1>1, <1>3, <3>1 DEF Contains
    <2>. QED  BY <2>1, <2>2
  <1>7. \A d \in Clients : Contains(t, d) => Precedes(s, s[1], d)
    BY <1>1, <1>2 DEF Contains, Precedes
  <1>8. \A c, d \in Clients : Precedes(t, c, d) => Precedes(s, c, d)
    <2>1. \A i, j \in 1 .. Len(t) : i < j => i + 1 < j + 1
      BY <1>1
    <2>. QED  BY <1>1, <1>2, <2>1 DEF Precedes
  <1>. QED  BY <1>1, <1>4, <1>5, <1>6, <1>7, <1>8 DEF t

\* What is left without the i-th element.
LEMMA Removed ==
  ASSUME NEW s \in Seq(Clients), NEW i \in 1 .. Len(s)
  PROVE  /\ RemoveAt(s, i) \in Seq(Clients)
         /\ Distinct(s) => /\ Distinct(RemoveAt(s, i))
                           /\ \A d \in Clients : Contains(RemoveAt(s, i), d) <=> Contains(s, d) /\ d # s[i]
                           /\ \A c, d \in Clients : Precedes(RemoveAt(s, i), c, d) => Precedes(s, c, d)
  <1>. DEFINE a == SubSeq(s, 1, i - 1)
              b == SubSeq(s, i + 1, Len(s))
  <1>1. /\ a \in Seq(Clients) /\ Len(a) = i - 1
        /\ \A k \in 1 .. i - 1 : a[k] = s[k]
    BY SubSeqProperties
  <1>2. /\ b \in Seq(Clients) /\ Len(b) = Len(s) - i
        /\ \A k \in 1 .. Len(s) - i : b[k] = s[k + i]
    BY SubSeqProperties
  <1>3. RemoveAt(s, i) = a \o b
    BY DEF RemoveAt
  <1>4. \A x, y \in Seq(Clients) :
          /\ x \o y \in Seq(Clients)
          /\ Len(x \o y) = Len(x) + Len(y)
          /\ \A k \in 1 .. Len(x) + Len(y) : (x \o y)[k] = IF k <= Len(x) THEN x[k] ELSE y[k - Len(x)]
    BY ConcatProperties
  <1>. HIDE DEF a, b
  <1>5. a \in Seq(Clients) /\ b \in Seq(Clients)
    BY <1>1, <1>2, Zenon
  <1>6. /\ a \o b \in Seq(Clients)
        /\ Len(a \o b) = Len(a) + Len(b)
        /\ \A k \in 1 .. Len(a) + Len(b) : (a \o b)[k] = IF k <= Len(a) THEN a[k] ELSE b[k - Len(a)]
    BY <1>4, <1>5, Zenon
  <1>7. ASSUME NEW u, Len(u) = Len(a) + Len(b),
               \A k \in 1 .. Len(a) + Len(b) : u[k] = IF k <= Len(a) THEN a[k] ELSE b[k - Len(a)],
               Distinct(s)
        PROVE  /\ Distinct(u)
               /\ \A d \in Clients : Contains(u, d) <=> Contains(s, d) /\ d # s[i]
               /\ \A c, d \in Clients : Precedes(u, c, d) => Precedes(s, c, d)
    <2>1. i \in Int /\ Len(s) \in Nat /\ 1 <= i /\ i <= Len(s)
      OBVIOUS
    <2>2. Len(u) = Len(s) - 1
      BY <1>1, <1>2, <1>7, <2>1
    <2>3. ASSUME NEW k \in 1 .. Len(u)
          PROVE  \E j \in 1 .. Len(s) : u[k] = s[j] /\ j = IF k < i THEN k ELSE k + 1
      <3>1. k \in Int /\ k \in 1 .. Len(a) + Len(b)
        BY <1>7, <2>1, <2>2
      <3>2. CASE k < i
        BY <1>1, <1>7, <2>1, <3>1, <3>2
      <3>3. CASE ~(k < i)
        <4>1. ~(k <= Len(a)) /\ k - Len(a) \in 1 .. Len(s) - i /\ (k - Len(a)) + i = k + 1
          BY <1>1, <2>1, <2>2, <3>1, <3>3
        <4>2. u[k] = s[(k - Len(a)) + i]
          BY <1>2, <1>7, <3>1, <4>1
        <4>3. k + 1 \in 1 .. Len(s)
          BY <2>2, <3>1, <2>1
        <4>. QED  BY <3>3, <4>1, <4>2, <4>3
      <3>. QED  BY <3>2, <3>3
    <2>4. \A x, y \in 1 .. Len(s) : s[x] = s[y] => x = y
      BY <1>7 DEF Distinct
    <2>5. ASSUME NEW k \in 1 .. Len(u), NEW j \in 1 .. Len(u), u[k] = u[j]  PROVE k = j
      <3>1. PICK x \in 1 .. Len(s) : u[k] = s[x] /\ x = IF k < i THEN k ELSE k + 1
        BY <2>3, Zenon
      <3>2. PICK y \in 1 .. Len(s) : u[j] = s[y] /\ y = IF j < i THEN j ELSE j + 1
        BY <2>3, Zenon
      <3>3. x = y
        BY <2>4, <2>5, <3>1, <3>2, Zenon
      <3>. QED  BY <2>1, <3>1, <3>2, <3>3
    <2>6. ASSUME NEW d \in Clients, Contains(u, d)  PROVE Contains(s, d) /\ d # s[i]
      <3>1. PICK k \in 1 .. Len(u) : u[k] = d
        BY <2>6 DEF Contains
      <3>2. PICK x \in 1 .. Len(s) : u[k] = s[x] /\ x = IF k < i THEN k ELSE k + 1
        BY <2>3, Zenon
      <3>3. x # i
        BY <2>1, <3>2
      <3>. QED  BY <2>4, <3>1, <3>2, <3>3 DEF Contains
    <2>7. ASSUME NEW d \in Clients, Contains(s, d), d # s[i]  PROVE Contains(u, d)
      <3>1. PICK j \in 1 .. Len(s) : s[j] = d /\ j # i
        BY <2>7 DEF Contains
      <3>2. PICK k \in 1 .. Len(u) : j = IF k < i THEN k ELSE k + 1
        <4>1. CASE j < i
          BY <2>1, <2>2, <4>1
        <4>2. CASE ~(j < i)
          <5>1. j - 1 \in 1 .. Len(u) /\ ~(j - 1 < i) /\ (j - 1) + 1 = j
            BY <2>1, <2>2, <3>1, <4>2
          <5>. QED  BY <5>1
        <4>. QED  BY <4>1, <4>2
      <3>3. u[k] = s[j]
        BY <2>3, <3>2
      <3>. QED  BY <3>1, <3>3 DEF Contains
    <2>8. ASSUME NEW c, NEW d, Precedes(u, c, d)  PROVE Precedes(s, c, d)
      <3>1. PICK k \in 1 .. Len(u), j \in 1 .. Len(u) : k < j /\ u[k] = c /\ u[j] = d
        BY <2>8 DEF Precedes
      <3>2. PICK x \in 1 .. Len(s) : u[k] = s[x] /\ x = IF k < i THEN k ELSE k + 1
        BY <2>3, Zenon
      <3>3. PICK y \in 1 .. Len(s) : u[j] = s[y] /\ y = IF j < i THEN j ELSE j + 1
        BY <2>3, Zenon
      <3>4. x < y
        BY <2>1, <3>1, <3>2, <3>3
      <3>. QED  BY <3>1, <3>2, <3>3, <3>4 DEF Precedes
    <2>. QED  BY <2>5, <2>6, <2>7, <2>8 DEF Distinct
  <1>8. Distinct(s) => /\ Distinct(a \o b)
                       /\ \A d \in Clients : Contains(a \o b, d) <=> Contains(s, d) /\ d # s[i]
                       /\ \A c, d \in Clients : Precedes(a \o b, c, d) => Precedes(s, c, d)
    BY <1>6, <1>7, Zenon
  <1>. QED  BY <1>3, <1>6, <1>8, Zenon

---------------------------------------------------------------------------
(* Types                                                                   *)

\* The runner grants no more than a quantum, and the bucket never overflows.
LEMMA BucketTypes ==
  ASSUME TypeOK, requests # <<>>
  PROVE  /\ Head(requests) \in Clients
         /\ Granted \in 0 .. Quantum
         /\ Refilled \in 0 .. Burst
  <1>1. requests \in Seq(Clients) /\ ask \in [Clients -> Amounts \cup {0}]
        /\ tokens \in 0 .. Burst /\ credit \in 0 .. Burst
    BY DEF TypeOK
  <1>2. Head(requests) \in Clients
    BY <1>1, Popped
  <1>3. \A n \in Amounts \cup {0} : n \in Nat
    OBVIOUS
  <1>4. ask[Head(requests)] \in Nat
    BY <1>1, <1>2, <1>3
  <1>. QED  BY <1>1, <1>2, <1>4 DEF Granted, Refilled, Least

\* Failing what is queued keeps the types of the queue.
LEMMA FailQueuedTypes ==
  ASSUME TypeOK, FailQueued
  PROVE  /\ requests' \in Seq(Clients)
         /\ pending' \in [Peers -> Clients \cup {NoClient}]
         /\ completion' \in [Clients -> {"none", "pending", "granted", "cancelled", "failed"}]
  BY DEF TypeOK, FailQueued

\* Every action keeps the types of all variables.
LEMMA TypeStep ==
  ASSUME TypeOK, [Next]_vars
  PROVE  TypeOK'
  <1>. USE DEF clientVars, queueVars, runnerVars, paceVars, bucketVars, ghostVars
  <1>. 0 \in 0 .. Burst
    OBVIOUS
  <1>1. ASSUME NEW c \in Clients, NEW n \in Amounts, Acquire(c, n)  PROVE TypeOK'
    <2>1. requests' \in Seq(Clients)
      BY <1>1, Appended DEF TypeOK, Acquire, QueueRequest
    <2>. QED  BY <1>1, <2>1 DEF TypeOK, Acquire
  <1>2. ASSUME NEW c \in Clients, AcquireRaises(c) \/ AcquireReturns(c) \/ Cancel(c)  PROVE TypeOK'
    BY <1>2 DEF TypeOK, AcquireRaises, AcquireReturns, Cancel
  <1>3. ASSUME NEW c \in Clients, AcquireCancelled(c)  PROVE TypeOK'
    <2>1. requests' \in Seq(Clients) /\ pending' \in [Peers -> Clients \cup {NoClient}]
      <3>1. CASE UNCHANGED queueVars
        BY <3>1 DEF TypeOK
      <3>2. CASE \E i \in 1 .. Len(requests) : requests' = RemoveAt(requests, i) /\ pending' = Released(pending, c)
        <4>1. requests' \in Seq(Clients)
          BY <3>2, Removed DEF TypeOK
        <4>. QED  BY <3>2, <4>1 DEF TypeOK, Released
      <3>. QED  BY <1>3, <3>1, <3>2 DEF AcquireCancelled
    <2>. QED  BY <1>3, <2>1 DEF TypeOK, AcquireCancelled
  <1>4. CASE RunnerWakes \/ YieldedToNone
    BY <1>4 DEF TypeOK, RunnerWakes, YieldedToNone, Loop
  <1>5. CASE SkipCancelled
    <2>1. requests' \in Seq(Clients) /\ pending' \in [Peers -> Clients \cup {NoClient}]
      BY <1>5, Popped DEF TypeOK, SkipCancelled, Released
    <2>. QED  BY <1>5, <2>1 DEF TypeOK, SkipCancelled, Loop
  <1>6. CASE GrantHead
    <2>1. requests' \in Seq(Clients) /\ pending' \in [Peers -> Clients \cup {NoClient}]
      BY <1>6, Popped DEF TypeOK, GrantHead, HeadReady, Released
    <2>2. tokens' \in 0 .. Burst /\ credit' \in 0 .. Burst /\ allowance' \in Int
      BY <1>6, BucketTypes DEF TypeOK, GrantHead, HeadReady
    <2>3. overtaken' \in [Clients -> [Peers -> 0 .. 2]]
      <3>1. \A d \in Clients, p \in Peers : overtaken[d][p] \in 0 .. 2
        BY DEF TypeOK
      <3>. QED  BY <1>6, <3>1 DEF GrantHead, Least
    <2>4. completion' \in [Clients -> {"none", "pending", "granted", "cancelled", "failed"}]
      BY <1>6 DEF TypeOK, GrantHead
    <2>. QED  BY <1>6, <2>1, <2>2, <2>3, <2>4 DEF TypeOK, GrantHead, HeadReady, Loop
  <1>7. CASE DelayHead
    <2>1. requests' \in Seq(Clients)
      BY <1>7, Popped, Appended DEF TypeOK, DelayHead, HeadReady
    <2>2. tokens' \in 0 .. Burst /\ credit' \in 0 .. Burst /\ timer' \in 0 .. Burst
      BY <1>7, BucketTypes DEF TypeOK, DelayHead, HeadReady
    <2>. QED  BY <1>7, <2>1, <2>2 DEF TypeOK, DelayHead
  <1>8. CASE RunnerCancelled
    <2>1. /\ requests' \in Seq(Clients)
          /\ pending' \in [Peers -> Clients \cup {NoClient}]
          /\ completion' \in [Clients -> {"none", "pending", "granted", "cancelled", "failed"}]
      <3>1. CASE FailQueued
        BY <3>1, FailQueuedTypes
      <3>2. CASE UNCHANGED <<queueVars, completion>>
        BY <3>2 DEF TypeOK
      <3>. QED  BY <1>8, <3>1, <3>2 DEF RunnerCancelled
    <2>. QED  BY <1>8, <2>1 DEF TypeOK, RunnerCancelled
  <1>9. CASE Tick
    BY <1>9 DEF TypeOK, Tick, Least
  <1>10. CASE TimerFires \/ CloseStart
    <2>1. CASE TimerFires
      BY <2>1 DEF TypeOK, TimerFires
    <2>2. CASE CloseStart
      <3>1. rcancel' \in BOOLEAN
        BY <2>2 DEF CloseStart
      <3>. QED  BY <2>2, <3>1 DEF TypeOK, CloseStart
    <2>. QED  BY <1>10, <2>1, <2>2
  <1>11. CASE CloseEnds
    BY <1>11, FailQueuedTypes DEF TypeOK, CloseEnds
  <1>12. CASE UNCHANGED vars
    BY <1>12 DEF TypeOK, vars
  <1>. QED
    BY <1>1, <1>2, <1>3, <1>4, <1>5, <1>6, <1>7, <1>8, <1>9, <1>10, <1>11, <1>12
       DEF Next, Client, Runner

\* Every variable keeps its type; in particular the bucket holds between
\* nothing and burst_bytes and the pacing timer never sleeps longer than the
\* whole bucket takes to fill.
THEOREM SchedulerTypes == Spec => []TypeOK
  <1>1. Init => TypeOK
    <2>1. 0 \in 0 .. Burst /\ Burst \in 0 .. Burst /\ Burst \in Int
      OBVIOUS
    <2>2. Init => overtaken \in [Clients -> [Peers -> 0 .. 2]]
      BY DEF Init
    <2>3. Init => requests \in Seq(Clients)
      BY DEF Init
    <2>4. Init => /\ ask \in [Clients -> Amounts \cup {0}]
                  /\ pending \in [Peers -> Clients \cup {NoClient}]
      BY DEF Init
    <2>. QED  BY <2>1, <2>2, <2>3, <2>4 DEF Init, TypeOK
  <1>. QED  BY <1>1, TypeStep, PTL DEF Spec

---------------------------------------------------------------------------
(* The rate                                                                *)

\* What the bucket would grant at once is never more than the rate allows.
Solvent == allowance >= Least(Burst, tokens + credit)

\* Refilling and consuming, at whatever moment, never outruns the rate.
LEMMA SolventStep ==
  ASSUME TypeOK, Solvent, [Next]_vars
  PROVE  Solvent'
  <1>. USE DEF bucketVars, ghostVars, Solvent
  <1>1. CASE UNCHANGED <<tokens, credit, allowance>>
    BY <1>1 DEF Least
  <1>2. CASE GrantHead
    BY <1>2, <1>1, BucketTypes DEF TypeOK, GrantHead, HeadReady, Refilled, Least
  <1>3. CASE DelayHead
    BY <1>3, BucketTypes DEF TypeOK, DelayHead, HeadReady, Refilled, Least
  <1>4. CASE Tick
    BY <1>4 DEF TypeOK, Tick, Least
  <1>. QED
    BY <1>1, <1>2, <1>3, <1>4 DEF Next, Client, Runner, vars, Acquire, AcquireRaises, AcquireReturns, Cancel,
       AcquireCancelled, RunnerWakes, YieldedToNone, SkipCancelled, RunnerCancelled, TimerFires, CloseStart, CloseEnds

\* The bucket respects the rate: in no window of time does the runner grant
\* more than burst_bytes and what the rate earned, however often pacing is cut
\* short by an acquire or a cancellation.
THEOREM RateRespected == Spec => []PacingHolds
  <1>1. Init => Solvent
    BY DEF Init, Solvent, Least
  <1>2. TypeOK /\ Solvent /\ [Next]_vars => Solvent'
    BY SolventStep
  <1>3. TypeOK /\ Solvent => PacingHolds
    BY DEF TypeOK, Solvent, PacingHolds, Least
  <1>. QED  BY <1>1, <1>2, <1>3, SchedulerTypes, PTL DEF Spec

---------------------------------------------------------------------------
(* The index of the queue                                                  *)

\* PendingMatchesQueue, said of clients instead of positions in the queue.
Index ==
    /\ Distinct(requests)
    /\ \A c \in Clients : Contains(requests, c) <=> pending[PeerOf[c]] = c
    /\ \A p \in Peers : pending[p] # NoClient => PeerOf[pending[p]] = p

\* Index says what PendingMatchesQueue says, and more.
LEMMA IndexMeans ==
  ASSUME TypeOK, Index
  PROVE  PendingMatchesQueue
  <1>1. /\ requests \in Seq(Clients) /\ DOMAIN requests = 1 .. Len(requests)
        /\ \A i \in 1 .. Len(requests) : requests[i] \in Clients
        /\ \A p \in Peers : pending[p] \in Clients \cup {NoClient}
    BY DEF TypeOK
  <1>2. IsInjective(requests)
    BY <1>1 DEF Index, Distinct, IsInjective
  <1>3. \A i \in 1 .. Len(requests) : pending[PeerOf[requests[i]]] = requests[i]
    <2>1. \A i \in 1 .. Len(requests) : Contains(requests, requests[i])
      BY <1>1 DEF Contains
    <2>. QED  BY <1>1, <2>1 DEF Index
  <1>4. ASSUME NEW p \in Peers, pending[p] # NoClient
        PROVE  PeerOf[pending[p]] = p /\ Contains(requests, pending[p])
    BY <1>1, <1>4 DEF Index
  <1>. QED  BY <1>2, <1>3, <1>4 DEF PendingMatchesQueue

\* A request that leaves the queue and the index together leaves them in step.
LEMMA ReleasedKeepsIndex ==
  ASSUME TypeOK, Index, NEW c \in Clients, Contains(requests, c), Distinct(requests'),
         \A d \in Clients : Contains(requests', d) <=> Contains(requests, d) /\ d # c,
         pending' = Released(pending, c)
  PROVE  Index'
  <1>1. /\ pending \in [Peers -> Clients \cup {NoClient}] /\ \A d \in Clients : PeerOf[d] \in Peers
        /\ pending[PeerOf[c]] = c
    BY DEF TypeOK, Index
  <1>2. \A p \in Peers : pending'[p] = IF p = PeerOf[c] THEN NoClient ELSE pending[p]
    BY <1>1 DEF Released
  <1>3. ASSUME NEW d \in Clients  PROVE Contains(requests', d) <=> pending'[PeerOf[d]] = d
    <2>1. CASE d = c
      BY <1>1, <1>2, <2>1
    <2>2. CASE d # c
      BY <1>1, <1>2, <2>2 DEF Index
    <2>. QED  BY <2>1, <2>2
  <1>4. \A p \in Peers : pending'[p] # NoClient => PeerOf[pending'[p]] = p
    BY <1>2 DEF Index
  <1>. QED  BY <1>3, <1>4 DEF Index

\* Failing everything empties queue and index.
LEMMA FailQueuedKeepsIndex ==
  ASSUME TypeOK, Index, FailQueued
  PROVE  Index'
  <1>1. /\ pending \in [Peers -> Clients \cup {NoClient}] /\ \A d \in Clients : PeerOf[d] \in Peers
    BY DEF TypeOK
  <1>2. \A p \in Peers : pending'[p] = NoClient
    BY <1>1 DEF FailQueued, Index
  <1>3. requests' = <<>>
    BY DEF FailQueued
  <1>4. Distinct(requests') /\ \A c \in Clients : ~Contains(requests', c)
    BY <1>3 DEF Distinct, Contains
  <1>. QED  BY <1>1, <1>2, <1>4 DEF Index

\* Every action keeps queue and index in step.
LEMMA IndexStep ==
  ASSUME TypeOK, Index, [Next]_vars
  PROVE  Index'
  <1>. USE DEF queueVars
  <1>0. /\ requests \in Seq(Clients) /\ pending \in [Peers -> Clients \cup {NoClient}]
        /\ \A d \in Clients : PeerOf[d] \in Peers
    BY DEF TypeOK
  <1>1. CASE UNCHANGED <<requests, pending>>
    BY <1>1 DEF Index
  <1>2. ASSUME NEW c \in Clients, NEW n \in Amounts, Acquire(c, n)  PROVE Index'
    <2>1. requests' = Append(requests, c) /\ pending' = [pending EXCEPT ![PeerOf[c]] = c]
          /\ pending[PeerOf[c]] = NoClient
      BY <1>2 DEF Acquire, QueueRequest
    <2>2. ~Contains(requests, c)
      BY <2>1 DEF Index
    <2>3. Distinct(requests') /\ \A d \in Clients : Contains(requests', d) <=> Contains(requests, d) \/ d = c
      BY <1>0, <2>1, <2>2, Appended DEF Index
    <2>4. \A p \in Peers : pending'[p] = IF p = PeerOf[c] THEN c ELSE pending[p]
      BY <1>0, <2>1
    <2>5. ASSUME NEW d \in Clients  PROVE Contains(requests', d) <=> pending'[PeerOf[d]] = d
      BY <1>0, <2>1, <2>3, <2>4 DEF Index
    <2>6. \A p \in Peers : pending'[p] # NoClient => PeerOf[pending'[p]] = p
      BY <2>4 DEF Index
    <2>. QED  BY <2>3, <2>5, <2>6 DEF Index
  <1>3. ASSUME NEW c \in Clients, AcquireCancelled(c)  PROVE Index'
    <2>1. CASE UNCHANGED queueVars
      BY <1>1, <2>1
    <2>2. ASSUME NEW i \in 1 .. Len(requests), requests[i] = c, requests' = RemoveAt(requests, i),
                 pending' = Released(pending, c)
          PROVE  Index'
      <3>1. Contains(requests, c)
        BY <2>2 DEF Contains
      <3>2. Distinct(requests') /\ \A d \in Clients : Contains(requests', d) <=> Contains(requests, d) /\ d # c
        BY <1>0, <2>2, Removed DEF Index
      <3>. QED  BY <2>2, <3>1, <3>2, ReleasedKeepsIndex
    <2>. QED  BY <1>3, <2>1, <2>2 DEF AcquireCancelled
  <1>4. CASE SkipCancelled \/ GrantHead
    <2>1. requests # <<>> /\ requests' = Tail(requests) /\ pending' = Released(pending, Head(requests))
      BY <1>4 DEF SkipCancelled, GrantHead, HeadReady
    <2>2. /\ Head(requests) \in Clients /\ Contains(requests, Head(requests)) /\ Distinct(requests')
          /\ \A d \in Clients : Contains(requests', d) <=> Contains(requests, d) /\ d # Head(requests)
      BY <1>0, <2>1, Popped DEF Index
    <2>. QED  BY <2>1, <2>2, ReleasedKeepsIndex
  <1>5. CASE DelayHead
    <2>1. requests # <<>> /\ requests' = Append(Tail(requests), Head(requests)) /\ pending' = pending
      BY <1>5 DEF DelayHead, HeadReady
    <2>2. /\ Head(requests) \in Clients /\ Tail(requests) \in Seq(Clients)
          /\ Contains(requests, Head(requests)) /\ Distinct(Tail(requests))
          /\ \A d \in Clients : Contains(Tail(requests), d) <=> Contains(requests, d) /\ d # Head(requests)
      BY <1>0, <2>1, Popped DEF Index
    <2>3. Distinct(requests') /\ \A d \in Clients : Contains(requests', d) <=> Contains(requests, d)
      BY <2>1, <2>2, Appended
    <2>. QED  BY <2>1, <2>3 DEF Index
  <1>6. CASE RunnerCancelled \/ CloseEnds
    BY <1>1, <1>6, FailQueuedKeepsIndex DEF RunnerCancelled, CloseEnds
  <1>. QED
    BY <1>1, <1>2, <1>3, <1>4, <1>5, <1>6 DEF Next, Client, Runner, vars, AcquireRaises, AcquireReturns, Cancel,
       RunnerWakes, YieldedToNone, Tick, TimerFires, CloseStart

\* Index holds in every reachable state.
LEMMA IndexKept == Spec => []Index
  <1>1. Init => Index
    <2>1. SUFFICES ASSUME Init  PROVE Index
      OBVIOUS
    <2>2. requests = <<>> /\ pending = [p \in Peers |-> NoClient]
      BY <2>1 DEF Init
    <2>3. Distinct(requests) /\ \A c \in Clients : ~Contains(requests, c)
      BY <2>2 DEF Distinct, Contains
    <2>4. \A c \in Clients : PeerOf[c] \in Peers
      OBVIOUS
    <2>. QED  BY <2>2, <2>3, <2>4 DEF Index
  <1>2. TypeOK /\ Index /\ [Next]_vars => Index'
    BY IndexStep
  <1>. QED  BY <1>1, <1>2, SchedulerTypes, PTL DEF Spec

\* A peer is marked in _pending_by_peer exactly while one request of it is
\* queued, whichever way the request leaves: granted, popped after its
\* cancellation, removed by the cancelled client, or failed by close().
THEOREM IndexMatches == Spec => []PendingMatchesQueue
  <1>1. TypeOK /\ Index => PendingMatchesQueue
    BY IndexMeans
  <1>. QED  BY <1>1, IndexKept, SchedulerTypes, PTL

---------------------------------------------------------------------------
(* Requests and sleep                                                      *)

\* No action takes a request from the queue and leaves its client waiting.
LEMMA NoRequestLostStep ==
  ASSUME TypeOK, Index, NoRequestLost, [Next]_vars
  PROVE  NoRequestLost'
  <1>. USE DEF queueVars, clientVars
  <1>0. /\ requests \in Seq(Clients) /\ Distinct(requests)
        /\ completion \in [Clients -> {"none", "pending", "granted", "cancelled", "failed"}]
        /\ cpc \in [Clients -> {"idle", "waiting", "cancelling", "over"}]
    BY DEF TypeOK, Index
  <1>1. CASE UNCHANGED <<cpc, completion, requests>>
    BY <1>1 DEF NoRequestLost
  <1>2. ASSUME NEW c \in Clients, NEW n \in Amounts, Acquire(c, n)  PROVE NoRequestLost'
    <2>1. \A d \in Clients : Contains(requests', d) <=> Contains(requests, d) \/ d = c
      BY <1>0, <1>2, Appended DEF Acquire, QueueRequest
    <2>. QED  BY <1>0, <1>2, <2>1 DEF Acquire, NoRequestLost
  <1>3. ASSUME NEW c \in Clients, AcquireRaises(c) \/ AcquireReturns(c) \/ Cancel(c)  PROVE NoRequestLost'
    BY <1>0, <1>3 DEF AcquireRaises, AcquireReturns, Cancel, NoRequestLost
  <1>4. ASSUME NEW c \in Clients, AcquireCancelled(c)  PROVE NoRequestLost'
    <2>1. \A d \in Clients : Contains(requests, d) /\ d # c => Contains(requests', d)
      BY <1>0, <1>4, Removed DEF AcquireCancelled
    <2>. QED  BY <1>0, <1>4, <2>1 DEF AcquireCancelled, NoRequestLost
  <1>5. CASE SkipCancelled \/ GrantHead
    <2>1. /\ requests # <<>> /\ requests' = Tail(requests) /\ cpc' = cpc
          /\ \A d \in Clients : d # Head(requests) => completion'[d] = completion[d]
      BY <1>0, <1>5 DEF SkipCancelled, GrantHead, HeadReady
    <2>2. Head(requests) \in Clients => completion'[Head(requests)] # "pending"
      BY <1>0, <1>5 DEF SkipCancelled, GrantHead
    <2>3. \A d \in Clients : Contains(requests', d) <=> Contains(requests, d) /\ d # Head(requests)
      BY <1>0, <2>1, Popped
    <2>. QED  BY <2>1, <2>2, <2>3 DEF NoRequestLost
  <1>6. CASE DelayHead
    <2>1. /\ requests # <<>> /\ requests' = Append(Tail(requests), Head(requests))
          /\ UNCHANGED <<cpc, completion>>
      BY <1>6 DEF DelayHead, HeadReady
    <2>2. /\ Head(requests) \in Clients /\ Tail(requests) \in Seq(Clients)
          /\ \A d \in Clients : Contains(Tail(requests), d) <=> Contains(requests, d) /\ d # Head(requests)
      BY <1>0, <2>1, Popped
    <2>3. \A d \in Clients : Contains(requests, d) => Contains(requests', d)
      BY <2>1, <2>2, Appended
    <2>. QED  BY <2>1, <2>3 DEF NoRequestLost
  <1>7. ASSUME FailQueued, cpc' = cpc  PROVE NoRequestLost'
    <2>1. \A c \in Clients : completion'[c] = "pending" => ~Contains(requests, c) /\ completion[c] = "pending"
      BY <1>7 DEF FailQueued
    <2>. QED  BY <1>7, <2>1 DEF NoRequestLost
  <1>8. CASE RunnerCancelled \/ CloseEnds
    BY <1>1, <1>7, <1>8 DEF RunnerCancelled, CloseEnds
  <1>. QED
    BY <1>1, <1>2, <1>3, <1>4, <1>5, <1>6, <1>8 DEF Next, Client, Runner, vars,
       RunnerWakes, YieldedToNone, Tick, TimerFires, CloseStart

\* A client that waits for a pending future finds its request in the queue:
\* a cancelled, popped or delayed request of another never takes it along.
THEOREM RequestsKept == Spec => []NoRequestLost
  <1>1. Init => NoRequestLost
    BY DEF Init, NoRequestLost
  <1>2. TypeOK /\ Index /\ NoRequestLost /\ [Next]_vars => NoRequestLost'
    BY NoRequestLostStep
  <1>. QED  BY <1>1, <1>2, SchedulerTypes, IndexKept, PTL DEF Spec

\* No action leaves the runner asleep with work and nothing to wake it.
LEMMA SleepStep ==
  ASSUME TypeOK, RunnerSleepsSafely, [Next]_vars
  PROVE  RunnerSleepsSafely'
  <1>. USE DEF queueVars, runnerVars, paceVars, RunnerSleepsSafely
  <1>1. CASE UNCHANGED <<requests, rpc, wakeup, paceWakeup, timer>>
    BY <1>1
  <1>2. ASSUME NEW c \in Clients, NEW n \in Amounts, Acquire(c, n)  PROVE RunnerSleepsSafely'
    BY <1>2 DEF Acquire
  <1>3. ASSUME NEW c \in Clients, AcquireCancelled(c)  PROVE RunnerSleepsSafely'
    <2>1. requests = <<>> => requests' = <<>>
      BY <1>3 DEF AcquireCancelled
    <2>. QED  BY <1>3, <2>1 DEF AcquireCancelled
  <1>4. CASE RunnerWakes \/ YieldedToNone \/ SkipCancelled \/ GrantHead
    <2>1. rpc' = "empty" => requests' = <<>>
      BY <1>4 DEF RunnerWakes, YieldedToNone, SkipCancelled, GrantHead, Loop
    <2>2. rpc' \in {"empty", "yield"}
      BY <1>4 DEF RunnerWakes, YieldedToNone, SkipCancelled, GrantHead, Loop
    <2>. QED  BY <2>1, <2>2
  <1>5. CASE DelayHead
    <2>1. timer' > 0
      BY <1>5, BucketTypes DEF DelayHead, HeadReady
    <2>. QED  BY <1>5, <2>1 DEF DelayHead
  <1>6. CASE RunnerCancelled
    BY <1>6 DEF RunnerCancelled
  <1>7. CASE TimerFires
    BY <1>7 DEF TimerFires
  <1>8. CASE CloseEnds
    BY <1>8 DEF CloseEnds
  <1>. QED
    BY <1>1, <1>2, <1>3, <1>4, <1>5, <1>6, <1>7, <1>8 DEF Next, Client, Runner, vars, clientVars,
       AcquireRaises, AcquireReturns, Cancel, Tick, CloseStart

\* The runner waits for _wakeup only with an empty queue, and paces only while
\* a timer will set _pace_wakeup: no request is left to a runner that sleeps.
THEOREM SleepsSafely == Spec => []RunnerSleepsSafely
  <1>1. Init => RunnerSleepsSafely
    BY DEF Init, RunnerSleepsSafely
  <1>2. TypeOK /\ RunnerSleepsSafely /\ [Next]_vars => RunnerSleepsSafely'
    BY SleepStep
  <1>. QED  BY <1>1, <1>2, SchedulerTypes, PTL DEF Spec

---------------------------------------------------------------------------
(* Turns                                                                   *)

\* A peer that is served while a request waits is not ahead of that request any more,
\* so it is behind, and its next turn comes later.
Turns ==
    /\ \A c, d \in Clients : Precedes(requests, c, d) => overtaken[d][PeerOf[c]] = 0
    /\ \A d \in Clients, p \in Peers : Contains(requests, d) /\ p # PeerOf[d] => overtaken[d][p] <= 1

\* A step that removes requests, or moves none, keeps the turns.
LEMMA FewerTurns ==
  ASSUME Turns, overtaken' = overtaken,
         \A d \in Clients : Contains(requests', d) => Contains(requests, d),
         \A c, d \in Clients : Precedes(requests', c, d) => Precedes(requests, c, d)
  PROVE  Turns'
  BY DEF Turns

LEMMA TurnsStep ==
  ASSUME ~Paced, TypeOK, Index, Turns, [Next]_vars
  PROVE  Turns'
  <1>. USE DEF queueVars, ghostVars
  <1>0. /\ requests \in Seq(Clients) /\ Distinct(requests) /\ \A d \in Clients : PeerOf[d] \in Peers
        /\ overtaken \in [Clients -> [Peers -> 0 .. 2]]
    BY DEF TypeOK, Index
  <1>1. CASE UNCHANGED <<requests, overtaken>>
    BY <1>1 DEF Turns
  <1>2. ASSUME NEW c \in Clients, NEW n \in Amounts, Acquire(c, n)  PROVE Turns'
    <2>1. /\ requests' = Append(requests, c)
          /\ overtaken' = [overtaken EXCEPT ![c] = [p \in Peers |-> 0]]
      BY <1>2 DEF Acquire, QueueRequest
    <2>2. /\ \A d \in Clients : Contains(requests', d) => Contains(requests, d) \/ d = c
          /\ \A b, d \in Clients : Precedes(requests', b, d) => Precedes(requests, b, d) \/ d = c
      BY <1>0, <2>1, Appended
    <2>3. \A d \in Clients, p \in Peers : overtaken'[d][p] = IF d = c THEN 0 ELSE overtaken[d][p]
      BY <1>0, <2>1
    <2>. QED  BY <1>0, <2>2, <2>3 DEF Turns
  <1>3. ASSUME NEW c \in Clients, AcquireCancelled(c)  PROVE Turns'
    <2>1. /\ \A d \in Clients : Contains(requests', d) => Contains(requests, d)
          /\ \A b, d \in Clients : Precedes(requests', b, d) => Precedes(requests, b, d)
      BY <1>0, <1>3, Removed DEF AcquireCancelled
    <2>. QED  BY <1>3, <2>1, FewerTurns DEF AcquireCancelled
  <1>4. CASE SkipCancelled
    <2>1. /\ \A d \in Clients : Contains(requests', d) => Contains(requests, d)
          /\ \A b, d \in Clients : Precedes(requests', b, d) => Precedes(requests, b, d)
      BY <1>0, <1>4, Popped DEF SkipCancelled
    <2>. QED  BY <1>4, <2>1, FewerTurns DEF SkipCancelled
  <1>5. CASE GrantHead
    <2>1. PICK h \in Clients : h = Head(requests)
      BY <1>0, <1>5, Popped DEF GrantHead, HeadReady
    <2>2. /\ requests # <<>> /\ requests' = Tail(requests)
          /\ overtaken' = [d \in Clients |-> [p \in Peers |->
                             IF ~Contains(Tail(requests), d) THEN 0
                             ELSE Least(2, overtaken[d][p] + IF p = PeerOf[h] THEN 1 ELSE 0)]]
      BY <1>5, <2>1 DEF GrantHead, HeadReady
    <2>3. /\ Contains(requests, h)
          /\ \A d \in Clients : Contains(requests', d) <=> Contains(requests, d) /\ d # h
          /\ \A d \in Clients : Contains(requests', d) => Precedes(requests, h, d)
          /\ \A c, d \in Clients : Precedes(requests', c, d) => Precedes(requests, c, d)
      BY <1>0, <2>1, <2>2, Popped
    <2>4. ASSUME NEW d \in Clients, NEW p \in Peers, Contains(requests', d)
          PROVE  overtaken'[d][p] = IF p = PeerOf[h] THEN 1 ELSE overtaken[d][p]
      <3>1. overtaken[d][PeerOf[h]] = 0 /\ overtaken[d][p] \in 0 .. 2
        BY <1>0, <2>3, <2>4 DEF Turns
      <3>2. overtaken'[d][p] = Least(2, overtaken[d][p] + IF p = PeerOf[h] THEN 1 ELSE 0)
        BY <2>2, <2>4
      <3>. QED  BY <3>1, <3>2 DEF Least
    <2>5. ASSUME NEW c \in Clients, NEW d \in Clients, Precedes(requests', c, d)
          PROVE  overtaken'[d][PeerOf[c]] = 0
      <3>1. Contains(requests', c) /\ Contains(requests', d)
        BY <2>5 DEF Precedes, Contains
      <3>2. PeerOf[c] # PeerOf[h]
        BY <2>3, <3>1 DEF Index
      <3>3. overtaken[d][PeerOf[c]] = 0
        BY <2>3, <2>5 DEF Turns
      <3>. QED  BY <1>0, <2>4, <3>1, <3>2, <3>3
    <2>6. ASSUME NEW d \in Clients, NEW p \in Peers, Contains(requests', d), p # PeerOf[d]
          PROVE  overtaken'[d][p] <= 1
      BY <1>0, <2>3, <2>4, <2>6 DEF Turns
    <2>. QED  BY <2>5, <2>6 DEF Turns
  <1>6. ASSUME FailQueued, overtaken' = overtaken  PROVE Turns'
    BY <1>6 DEF FailQueued, Turns, Contains, Precedes
  <1>7. CASE RunnerCancelled \/ CloseEnds
    BY <1>1, <1>6, <1>7 DEF RunnerCancelled, CloseEnds
  <1>8. ~DelayHead
    BY DEF DelayHead
  <1>. QED
    BY <1>1, <1>2, <1>3, <1>4, <1>5, <1>7, <1>8 DEF Next, Client, Runner, vars, AcquireRaises, AcquireReturns, Cancel,
       RunnerWakes, YieldedToNone, Tick, TimerFires, CloseStart

\* RoundRobin: without a rate, no other peer is served twice while a request is queued,
\* whatever peers join, are cancelled or ask again in between (scheduler.py:44). With a
\* rate, DelayHead puts the head behind the others, and the property does not hold.
THEOREM TurnsAreTaken ==
  ASSUME ~Paced
  PROVE  Spec => []RoundRobin
  <1>1. Init => Turns
    BY DEF Init, Turns, Contains, Precedes
  <1>2. TypeOK /\ Index /\ Turns /\ [Next]_vars => Turns'
    BY TurnsStep
  <1>3. TypeOK /\ Turns => RoundRobin
    <2>1. SUFFICES ASSUME TypeOK, Turns, NEW i \in 1 .. Len(requests), NEW p \in Peers, p # PeerOf[requests[i]]
                   PROVE  overtaken[requests[i]][p] <= 1
      BY DEF RoundRobin
    <2>2. requests[i] \in Clients /\ Contains(requests, requests[i])
      BY <2>1 DEF TypeOK, Contains
    <2>. QED  BY <2>1, <2>2 DEF Turns
  <1>. QED  BY <1>1, <1>2, <1>3, SchedulerTypes, IndexKept, PTL DEF Spec

---------------------------------------------------------------------------
(* Nobody is left waiting                                                  *)

\* What lets the runner go on, or the clock, or close(), or the client itself.
RunnerMoves ==
    \/ rcancel
    \/ rpc \in {"start", "yield"} \/ (rpc = "empty" /\ wakeup) \/ (rpc = "pace" /\ paceWakeup)

\* The runner paces, and the clock will reach what the timer is set to.
TimerRuns == Paced /\ rpc = "pace" /\ timer \in 1 .. Burst

CloseMoves == spc = "closing" /\ rpc \in {"none", "done"}

Answered(c) == completion[c] \in {"granted", "failed"}

\* A client that waits has its answer, or something is about to move that is not
\* another client: the runner is awake, its timer runs, or close() is about to fail
\* what is queued.
WaitersAreServed ==
    \A c \in Clients : cpc[c] = "waiting" => Answered(c) \/ RunnerMoves \/ TimerRuns \/ CloseMoves

\* When the runner is there, and why it may be gone.
RunnerLives ==
    /\ rcancel => spc = "closing" /\ rpc \notin {"none", "done"}
    /\ rpc = "none" => requests = <<>>
    /\ rpc = "done" => spc = "closing"
    /\ rpc = "pace" => Paced
    /\ \A c \in Clients : cpc[c] = "waiting" => completion[c] \in {"pending", "granted", "failed"}

\* No action takes the runner away from a queue that close() will not fail.
LEMMA RunnerLivesStep ==
  ASSUME TypeOK, RunnerLives, [Next]_vars
  PROVE  RunnerLives'
  <1>. USE DEF queueVars, runnerVars, RunnerLives
  <1>0. /\ completion \in [Clients -> {"none", "pending", "granted", "cancelled", "failed"}]
        /\ cpc \in [Clients -> {"idle", "waiting", "cancelling", "over"}] /\ requests \in Seq(Clients)
    BY DEF TypeOK
  <1>1. CASE UNCHANGED <<cpc, completion, requests, rpc, rcancel, spc>>
    BY <1>1
  <1>2. ASSUME NEW c \in Clients, NEW n \in Amounts, Acquire(c, n)  PROVE RunnerLives'
    BY <1>0, <1>2 DEF Acquire, closed
  <1>3. ASSUME NEW c \in Clients, AcquireRaises(c) \/ AcquireReturns(c) \/ Cancel(c)  PROVE RunnerLives'
    BY <1>0, <1>3 DEF AcquireRaises, AcquireReturns, Cancel
  <1>4. ASSUME NEW c \in Clients, AcquireCancelled(c)  PROVE RunnerLives'
    <2>1. requests = <<>> => requests' = <<>>
      BY <1>4 DEF AcquireCancelled
    <2>. QED  BY <1>0, <1>4, <2>1 DEF AcquireCancelled
  <1>5. CASE RunnerWakes \/ YieldedToNone
    <2>1. /\ rpc' \in {"empty", "yield"} /\ UNCHANGED <<cpc, completion, rcancel, spc>> /\ ~rcancel
      BY <1>5 DEF RunnerWakes, YieldedToNone, Loop, clientVars
    <2>. QED  BY <2>1
  <1>6. CASE SkipCancelled \/ GrantHead
    <2>1. /\ rpc' \in {"empty", "yield"} /\ UNCHANGED <<cpc, rcancel, spc>> /\ ~rcancel
          /\ \A d \in Clients : completion'[d] = completion[d] \/ completion'[d] = "granted"
      BY <1>0, <1>6 DEF SkipCancelled, GrantHead, HeadReady, Loop, clientVars
    <2>. QED  BY <2>1
  <1>7. CASE DelayHead
    BY <1>7 DEF DelayHead, clientVars
  <1>8. ASSUME FailQueued
        PROVE  requests' = <<>> /\ \A d \in Clients : completion'[d] = completion[d] \/ completion'[d] = "failed"
    BY <1>0, <1>8 DEF FailQueued
  <1>9. CASE RunnerCancelled
    BY <1>8, <1>9 DEF RunnerCancelled, clientVars
  <1>10. CASE CloseEnds
    BY <1>8, <1>10 DEF CloseEnds, clientVars
  <1>11. CASE CloseStart
    BY <1>11 DEF CloseStart, clientVars
  <1>. QED
    BY <1>1, <1>2, <1>3, <1>4, <1>5, <1>6, <1>7, <1>9, <1>10, <1>11 DEF Next, Client, Runner, vars, clientVars,
       Tick, TimerFires

\* The safety that EveryRequestAnswered rests on: no client waits while the
\* runner, its timer and close() are all still, so a request that is never
\* answered was passed over for ever and not forgotten (scheduler.py:74-169).
THEOREM NobodyForgotten == Spec => []WaitersAreServed
  <1>1. Init => RunnerLives
    BY DEF Init, RunnerLives
  <1>2. TypeOK /\ RunnerLives /\ [Next]_vars => RunnerLives'
    BY RunnerLivesStep
  <1>3. TypeOK /\ RunnerLives /\ NoRequestLost /\ RunnerSleepsSafely => WaitersAreServed
    <2>. SUFFICES ASSUME TypeOK, RunnerLives, NoRequestLost, RunnerSleepsSafely,
                         NEW c \in Clients, cpc[c] = "waiting", completion[c] = "pending"
                  PROVE  RunnerMoves \/ TimerRuns \/ CloseMoves
      BY DEF WaitersAreServed, RunnerLives, Answered
    <2>1. requests # <<>>
      BY DEF NoRequestLost, Contains
    <2>2. CASE rpc \in {"none", "done"}
      BY <2>1, <2>2 DEF RunnerLives, CloseMoves
    <2>3. CASE rpc = "pace"
      <3>1. Paced /\ (paceWakeup \/ timer > 0)
        BY <2>3 DEF RunnerLives, RunnerSleepsSafely
      <3>2. timer \in 0 .. Burst /\ Burst \in Nat
        BY DEF TypeOK
      <3>. QED  BY <2>3, <3>1, <3>2 DEF RunnerMoves, TimerRuns
    <2>4. CASE rpc \in {"start", "yield", "empty"}
      BY <2>1, <2>4 DEF RunnerMoves, RunnerSleepsSafely
    <2>. QED  BY <2>2, <2>3, <2>4 DEF TypeOK
  <1>. QED  BY <1>1, <1>2, <1>3, SchedulerTypes, RequestsKept, SleepsSafely, PTL DEF Spec
=============================================================================
