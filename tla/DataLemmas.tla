----------------------------- MODULE DataLemmas -----------------------------
(* Facts about numbers and sequences that the proofs of several modules use. *)
EXTENDS Integers, SequencesExt, SequenceTheorems, WellFoundedInduction, TLAPS

\* A set of natural numbers that is not empty has a least element.
LEMMA HasLeast ==
  ASSUME NEW D \in SUBSET Nat, D # {}
  PROVE  \E k \in D : \A j \in D : k <= j
  <1>. DEFINE Less == OpToRel(<, Nat)
  <1>1. IsWellFoundedOn(Less, Nat)
    BY NatLessThanWellFounded, Zenon DEF OpToRel
  <1>2. PICK k \in D : \A j \in D : ~(<<j, k>> \in Less)
    BY <1>1, WFMin, Zenon
  <1>3. \A x, y \in Nat : x < y => <<x, y>> \in Less
    BY DEF OpToRel
  <1>. HIDE DEF Less
  <1>4. \A j \in D : k <= j
    <2>. TAKE j \in D
    <2>1. k \in Nat /\ j \in Nat
      OBVIOUS
    <2>2. ~(j < k)
      BY <2>1, <1>2, <1>3
    <2>. QED  BY <2>1, <2>2
  <1>. QED  BY <1>4

\* A function whose domain is an initial interval is a sequence.
LEMMA FunctionIsSeq ==
  ASSUME NEW S, NEW n \in Nat, NEW f \in [1 .. n -> S]
  PROVE  f \in Seq(S)
  <1>1. Seq(S) = UNION {[1 .. k -> S] : k \in Nat}
    BY SeqDef, Zenon
  <1>2. [1 .. n -> S] \in {[1 .. k -> S] : k \in Nat}
    OBVIOUS
  <1>. QED  BY <1>1, <1>2, Zenon

\* FlattenSeq appends one element after the other.
LEMMA FlattenSteps ==
  ASSUME NEW W, NEW ss \in Seq(W), Len(ss) # 0
  PROVE  \E f : /\ FlattenSeq(ss) = f[Len(ss)]
                /\ \A i \in 1 .. Len(ss) : f[i] = IF i = 1 THEN ss[i] ELSE f[i - 1] \o ss[i]
  <1>. DEFINE n == Len(ss)
              Flattens(g, k) == g = [i \in 1 .. k |-> IF i = 1 THEN ss[i] ELSE g[i - 1] \o ss[i]]
              Bad == {k \in 1 .. n : ~\E g : Flattens(g, k)}
  <1>1. n \in Nat /\ \A i \in 1 .. n : ss[i] \in W
    OBVIOUS
  <1>2. \E g : Flattens(g, 1)
    <2>1. Flattens([i \in 1 .. 1 |-> ss[i]], 1)
      OBVIOUS
    <2>. QED  BY <2>1
  <1>3. ASSUME NEW k \in 1 .. n, k # 1, NEW h, Flattens(h, k - 1)
        PROVE  \E g : Flattens(g, k)
    <2>. DEFINE g == [i \in 1 .. k |-> IF i = k THEN h[k - 1] \o ss[k] ELSE h[i]]
    <2>1. \A i \in 1 .. k : g[i] = IF i = 1 THEN ss[i] ELSE g[i - 1] \o ss[i]
      <3>. SUFFICES ASSUME NEW i \in 1 .. k PROVE g[i] = IF i = 1 THEN ss[i] ELSE g[i - 1] \o ss[i]
        OBVIOUS
      <3>1. CASE i = k
        <4>1. k - 1 \in 1 .. k /\ k - 1 # k
          BY <1>1, <1>3
        <4>. QED  BY <3>1, <4>1, <1>3
      <3>2. CASE i # k
        <4>1. i \in 1 .. k - 1 /\ (i # 1 => i - 1 \in 1 .. k /\ i - 1 # k)
          BY <3>2, <1>1
        <4>2. g[i] = h[i] /\ (i # 1 => g[i - 1] = h[i - 1])
          BY <3>2, <4>1
        <4>3. h[i] = IF i = 1 THEN ss[i] ELSE h[i - 1] \o ss[i]
          <5>. DEFINE f == [j \in 1 .. k - 1 |-> IF j = 1 THEN ss[j] ELSE h[j - 1] \o ss[j]]
          <5>1. h = f
            BY <1>3
          <5>2. f[i] = IF i = 1 THEN ss[i] ELSE h[i - 1] \o ss[i]
            BY <4>1
          <5>. QED  BY <5>1, <5>2
        <4>. QED  BY <4>2, <4>3
      <3>. QED  BY <3>1, <3>2
    <2>2. g = [i \in 1 .. k |-> IF i = 1 THEN ss[i] ELSE g[i - 1] \o ss[i]]
      BY <2>1
    <2>. QED  BY <2>2
  <1>4. Bad = {}
    <2>. SUFFICES ASSUME Bad # {} PROVE FALSE
      OBVIOUS
    <2>. HIDE DEF Flattens
    <2>1. Bad \in SUBSET Nat
      BY <1>1
    <2>2. PICK k \in Bad : \A j \in Bad : k <= j
      BY <2>1, HasLeast
    <2>. HIDE DEF Bad
    <2>3. k \in 1 .. n /\ ~\E g : Flattens(g, k)
      BY DEF Bad
    <2>4. k # 1
      BY <2>3, <1>2
    <2>5. k - 1 \in 1 .. n /\ ~(k <= k - 1)
      BY <2>3, <2>4, <1>1
    <2>6. \E g : Flattens(g, k - 1)
      BY <2>2, <2>5 DEF Bad
    <2>. QED  BY <2>3, <2>4, <2>6, <1>3
  <1>. DEFINE f == CHOOSE g : Flattens(g, n)
  <1>5. n \in 1 .. n
    BY <1>1
  <1>6. \E g : Flattens(g, n)
    <2>. HIDE DEF Flattens
    <2>. QED  BY <1>4, <1>5
  <1>7. Flattens(f, n)
    BY <1>6
  <1>8. FlattenSeq(ss) = f[n]
    BY DEF FlattenSeq
  <1>. HIDE DEF f
  <1>9. \A i \in 1 .. n : f[i] = IF i = 1 THEN ss[i] ELSE f[i - 1] \o ss[i]
    <2>. DEFINE h == [i \in 1 .. n |-> IF i = 1 THEN ss[i] ELSE f[i - 1] \o ss[i]]
    <2>1. f = h
      BY <1>7
    <2>2. \A i \in 1 .. n : h[i] = IF i = 1 THEN ss[i] ELSE f[i - 1] \o ss[i]
      OBVIOUS
    <2>. HIDE DEF h
    <2>. QED  BY <2>1, <2>2
  <1>. QED  BY <1>8, <1>9

LEMMA FlattenNone ==
  ASSUME NEW W, NEW ss \in Seq(W), Len(ss) = 0
  PROVE  FlattenSeq(ss) = <<>>
  <1>1. ss = <<>>
    OBVIOUS
  <1>2. FlattenSeq(ss) = ss
    BY DEF FlattenSeq
  <1>. QED  BY <1>1, <1>2

\* What contains the empty sequence and is closed under concatenation contains
\* what FlattenSeq makes of its elements.
LEMMA Flattened ==
  ASSUME NEW W, <<>> \in W, \A a, b \in W : a \o b \in W, NEW ss \in Seq(W)
  PROVE  FlattenSeq(ss) \in W
  <1>. DEFINE n == Len(ss)
  <1>1. n \in Nat /\ \A i \in 1 .. n : ss[i] \in W
    OBVIOUS
  <1>2. CASE n = 0
    BY <1>2, FlattenNone
  <1>3. CASE n # 0
    <2>1. PICK f : /\ FlattenSeq(ss) = f[n]
                   /\ \A i \in 1 .. n : f[i] = IF i = 1 THEN ss[i] ELSE f[i - 1] \o ss[i]
      BY <1>3, FlattenSteps
    <2>. DEFINE Out == {i \in 1 .. n : f[i] \notin W}
    <2>2. Out = {}
      <3>. SUFFICES ASSUME Out # {} PROVE FALSE
        OBVIOUS
      <3>1. PICK i \in Out : \A j \in Out : i <= j
        <4>1. Out \in SUBSET Nat
          BY <1>1
        <4>. HIDE DEF Out
        <4>. QED  BY <4>1, HasLeast
      <3>2. i \in 1 .. n /\ f[i] \notin W /\ ss[i] \in W
        BY <1>1
      <3>3. i # 1
        BY <3>2, <2>1
      <3>4. i - 1 \in 1 .. n /\ ~(i <= i - 1)
        BY <3>2, <3>3, <1>1
      <3>5. f[i - 1] \in W
        BY <3>1, <3>4
      <3>6. f[i] = f[i - 1] \o ss[i]
        BY <3>2, <3>3, <2>1
      <3>. QED  BY <3>2, <3>5, <3>6
    <2>3. n \in 1 .. n
      BY <1>1, <1>3
    <2>. QED  BY <2>1, <2>2, <2>3
  <1>. QED  BY <1>2, <1>3

\* Where the elements begin in the result of FlattenSeq.
FlatAt(ss, off) ==
    /\ off \in [1 .. Len(ss) + 1 -> Nat] /\ off[1] = 0 /\ off[Len(ss) + 1] = Len(FlattenSeq(ss))
    /\ \A a \in 1 .. Len(ss) : off[a + 1] = off[a] + Len(ss[a])
    /\ \A a \in 1 .. Len(ss) : \A b \in 1 .. Len(ss[a]) : FlattenSeq(ss)[off[a] + b] = ss[a][b]

LEMMA FlattenParts ==
  ASSUME NEW S, NEW ss \in Seq(Seq(S))
  PROVE  \E off : FlatAt(ss, off)
  <1>. DEFINE n == Len(ss)
  <1>1. n \in Nat /\ \A i \in 1 .. n : ss[i] \in Seq(S) /\ Len(ss[i]) \in Nat
    OBVIOUS
  <1>2. CASE n = 0
    <2>. DEFINE off == [a \in 1 .. n + 1 |-> 0]
    <2>1. FlattenSeq(ss) = <<>>
      BY <1>2, FlattenNone
    <2>2. Len(FlattenSeq(ss)) = 0
      BY <2>1
    <2>3. FlatAt(ss, off)
      BY <1>2, <2>2 DEF FlatAt
    <2>. QED  BY <2>3
  <1>3. CASE n # 0
    <2>1. PICK f : /\ FlattenSeq(ss) = f[n]
                   /\ \A i \in 1 .. n : f[i] = IF i = 1 THEN ss[i] ELSE f[i - 1] \o ss[i]
      BY <1>3, FlattenSteps
    <2>. DEFINE Keeps(m) == \A a \in 1 .. m : /\ f[a] \in Seq(S) /\ Len(f[a]) <= Len(f[m])
                                              /\ \A k \in 1 .. Len(f[a]) : f[m][k] = f[a][k]
                Out == {m \in 1 .. n : ~Keeps(m)}
    <2>2. Keeps(1)
      BY <1>1, <1>3, <2>1
    <2>3. ASSUME NEW m \in 1 .. n, m # 1, Keeps(m - 1)
          PROVE  Keeps(m)
      <3>. DEFINE g == f[m - 1]
                  h == ss[m]
      <3>1. m - 1 \in 1 .. m - 1
        BY <1>1, <2>3
      <3>2. f[m] = g \o h /\ g \in Seq(S) /\ h \in Seq(S)
        BY <1>1, <2>1, <2>3, <3>1
      <3>. HIDE DEF g, h
      <3>3. /\ g \o h \in Seq(S) /\ Len(g \o h) = Len(g) + Len(h) /\ Len(g) \in Nat /\ Len(h) \in Nat
            /\ \A k \in 1 .. Len(g) + Len(h) : (g \o h)[k] = IF k <= Len(g) THEN g[k] ELSE h[k - Len(g)]
        BY <3>2, ConcatProperties, LenProperties
      <3>4. ASSUME NEW a \in 1 .. m
            PROVE  /\ f[a] \in Seq(S) /\ Len(f[a]) <= Len(f[m])
                   /\ \A k \in 1 .. Len(f[a]) : f[m][k] = f[a][k]
        <4>1. CASE a = m
          <5>1. f[a] = g \o h /\ f[m] = g \o h
            BY <3>2, <4>1
          <5>. DEFINE c == g \o h
          <5>2. c \in Seq(S) /\ Len(c) \in Int
            BY <3>3
          <5>. HIDE DEF c
          <5>3. f[a] = c /\ f[m] = c
            BY <5>1 DEF c
          <5>. QED  BY <5>2, <5>3
        <4>2. CASE a # m
          <5>1. a \in 1 .. m - 1
            BY <1>1, <4>2
          <5>2. f[a] \in Seq(S) /\ Len(f[a]) <= Len(g) /\ \A k \in 1 .. Len(f[a]) : g[k] = f[a][k]
            BY <2>3, <5>1 DEF g
          <5>3. \A k \in 1 .. Len(g) : (g \o h)[k] = g[k]
            BY <3>3
          <5>. QED  BY <3>2, <3>3, <5>2, <5>3
        <4>. QED  BY <4>1, <4>2
      <3>. QED  BY <3>4
    <2>4. Out = {}
      <3>. SUFFICES ASSUME Out # {} PROVE FALSE
        OBVIOUS
      <3>1. Out \in SUBSET Nat
        BY <1>1
      <3>2. PICK m \in Out : \A j \in Out : m <= j
        <4>. HIDE DEF Out
        <4>. QED  BY <3>1, HasLeast
      <3>3. m \in 1 .. n /\ ~Keeps(m)
        OBVIOUS
      <3>4. m # 1
        BY <2>2, <3>3
      <3>5. m - 1 \in 1 .. n /\ ~(m <= m - 1)
        BY <1>1, <3>3, <3>4
      <3>6. Keeps(m - 1)
        BY <3>2, <3>5
      <3>. QED  BY <2>3, <3>3, <3>4, <3>6
    <2>5. \A m \in 1 .. n : Keeps(m)
      BY <2>4
    <2>6. n \in 1 .. n /\ \A a \in 1 .. n : f[a] \in Seq(S) /\ Len(f[a]) \in Nat
      <3>1. n \in 1 .. n
        BY <1>1, <1>3
      <3>2. Keeps(n)
        BY <2>5, <3>1
      <3>3. \A a \in 1 .. n : f[a] \in Seq(S)
        BY <3>2
      <3>. QED  BY <3>1, <3>3, LenProperties
    <2>. DEFINE off == [a \in 1 .. n + 1 |-> IF a = 1 THEN 0 ELSE Len(f[a - 1])]
    <2>. HIDE DEF Out
    <2>7. off \in [1 .. n + 1 -> Nat] /\ off[1] = 0 /\ off[n + 1] = Len(f[n])
      <3>1. \A a \in 1 .. n + 1 : a = 1 \/ a - 1 \in 1 .. n
        BY <1>1
      <3>2. n + 1 \in 1 .. n + 1 /\ n + 1 # 1 /\ (n + 1) - 1 = n /\ 1 \in 1 .. n + 1
        BY <1>1, <1>3
      <3>. HIDE DEF Keeps
      <3>. QED  BY <2>6, <3>1, <3>2
    <2>8. ASSUME NEW a \in 1 .. n
          PROVE  /\ a \in 1 .. n + 1 /\ a + 1 \in 1 .. n + 1
                 /\ off[a + 1] = Len(f[a]) /\ off[a + 1] = off[a] + Len(ss[a])
                 /\ \A b \in 1 .. Len(ss[a]) : off[a] + b \in 1 .. Len(f[a]) /\ f[a][off[a] + b] = ss[a][b]
      <3>1. a \in 1 .. n + 1 /\ a + 1 \in 1 .. n + 1 /\ a + 1 # 1 /\ (a + 1) - 1 = a
        BY <1>1
      <3>2. off[a + 1] = Len(f[a])
        BY <3>1
      <3>3. CASE a = 1
        <4>1. off[a] = 0 /\ f[a] = ss[a] /\ Len(ss[a]) \in Nat
          BY <1>1, <2>1, <3>3
        <4>. HIDE DEF off, Keeps
        <4>2. \A b \in 1 .. Len(ss[a]) : off[a] + b = b
          BY <4>1
        <4>. QED  BY <3>1, <3>2, <4>1, <4>2
      <3>4. CASE a # 1
        <4>. DEFINE g == f[a - 1]
                    h == ss[a]
        <4>1. a - 1 \in 1 .. n
          BY <1>1, <3>4
        <4>2. g \in Seq(S) /\ h \in Seq(S) /\ f[a] = g \o h /\ off[a] = Len(g)
          BY <1>1, <2>1, <2>6, <3>1, <3>4, <4>1
        <4>. HIDE DEF g, h, off, Keeps
        <4>3. /\ Len(g \o h) = Len(g) + Len(h) /\ Len(g) \in Nat /\ Len(h) \in Nat
              /\ \A k \in 1 .. Len(g) + Len(h) : (g \o h)[k] = IF k <= Len(g) THEN g[k] ELSE h[k - Len(g)]
          BY <4>2, ConcatProperties, LenProperties
        <4>4. \A b \in 1 .. Len(h) : Len(g) + b \in 1 .. Len(g) + Len(h) /\ (g \o h)[Len(g) + b] = h[b]
          <5>. SUFFICES ASSUME NEW b \in 1 .. Len(h)
                        PROVE  Len(g) + b \in 1 .. Len(g) + Len(h) /\ (g \o h)[Len(g) + b] = h[b]
            OBVIOUS
          <5>1. Len(g) + b \in 1 .. Len(g) + Len(h) /\ ~(Len(g) + b <= Len(g)) /\ (Len(g) + b) - Len(g) = b
            BY <4>3
          <5>. QED  BY <4>3, <5>1
        <4>. QED  BY <3>1, <3>2, <4>2, <4>3, <4>4 DEF h
      <3>. QED  BY <3>3, <3>4
    <2>9. ASSUME NEW a \in 1 .. n, NEW b \in 1 .. Len(ss[a])
          PROVE  f[n][off[a] + b] = ss[a][b]
      <3>1. \A k \in 1 .. Len(f[a]) : f[n][k] = f[a][k]
        BY <2>5, <2>6
      <3>. HIDE DEF off, Keeps
      <3>. QED  BY <2>8, <3>1
    <2>10. FlatAt(ss, off)
      <3>. HIDE DEF off, Keeps
      <3>. QED  BY <2>1, <2>7, <2>8, <2>9 DEF FlatAt
    <2>. QED  BY <2>10
  <1>. QED  BY <1>2, <1>3

LEMMA FlattenWhere ==
  ASSUME NEW S, NEW ss \in Seq(Seq(S)), NEW off, FlatAt(ss, off), NEW k \in 1 .. Len(FlattenSeq(ss))
  PROVE  \E a \in 1 .. Len(ss) : /\ k - off[a] \in 1 .. Len(ss[a]) /\ k = off[a] + (k - off[a])
                                 /\ FlattenSeq(ss)[k] = ss[a][k - off[a]]
  <1>. DEFINE n == Len(ss)
  <1>1. /\ n \in Nat /\ off \in [1 .. n + 1 -> Nat] /\ off[1] = 0 /\ off[n + 1] = Len(FlattenSeq(ss))
        /\ \A a \in 1 .. n : off[a + 1] = off[a] + Len(ss[a])
        /\ \A a \in 1 .. n : \A b \in 1 .. Len(ss[a]) : FlattenSeq(ss)[off[a] + b] = ss[a][b]
    <2>1. n \in Nat
      BY LenProperties
    <2>2. off \in [1 .. n + 1 -> Nat] /\ off[1] = 0 /\ off[n + 1] = Len(FlattenSeq(ss))
      BY Zenon DEF FlatAt
    <2>3. \A a \in 1 .. n : off[a + 1] = off[a] + Len(ss[a])
      BY Zenon DEF FlatAt
    <2>4. \A a \in 1 .. n : \A b \in 1 .. Len(ss[a]) : FlattenSeq(ss)[off[a] + b] = ss[a][b]
      BY Zenon DEF FlatAt
    <2>. HIDE DEF n
    <2>. QED  BY <2>1, <2>2, <2>3, <2>4, Zenon
  <1>. DEFINE D == {a \in 1 .. n + 1 : k <= off[a]}
  <1>2. n + 1 \in D
    BY <1>1
  <1>3. PICK a \in D : \A j \in D : a <= j
    <2>1. D \in SUBSET Nat
      BY <1>1
    <2>. HIDE DEF D
    <2>. QED  BY <1>2, <2>1, HasLeast
  <1>4. a \in 1 .. n + 1 /\ k <= off[a] /\ a # 1
    BY <1>1
  <1>5. a - 1 \in 1 .. n /\ a - 1 \in 1 .. n + 1 /\ (a - 1) + 1 = a /\ ~(a <= a - 1)
    BY <1>1, <1>4
  <1>6. ~(k <= off[a - 1])
    BY <1>3, <1>5
  <1>. DEFINE b == k - off[a - 1]
  <1>7. b \in 1 .. Len(ss[a - 1]) /\ k = off[a - 1] + b
    <2>. DEFINE lo == off[a - 1]
                hi == off[a]
                len == Len(ss[a - 1])
    <2>0. off \in [1 .. n + 1 -> Nat] /\ a \in 1 .. n + 1 /\ a - 1 \in 1 .. n + 1
      BY <1>1, <1>4, <1>5
    <2>1. lo \in Nat /\ hi \in Nat /\ k \in Int /\ ~(k <= lo) /\ k <= hi
      <3>1. lo \in Nat /\ hi \in Nat
        <4>. HIDE DEF n, D
        <4>. QED  BY <2>0
      <3>. QED  BY <3>1, <1>4, <1>6
    <2>2. hi = lo + len
      BY <1>1, <1>5
    <2>3. len \in Nat
      BY <1>5
    <2>. HIDE DEF lo, hi, len
    <2>4. k - lo \in 1 .. len /\ k = lo + (k - lo)
      BY <2>1, <2>2, <2>3
    <2>. QED  BY <2>4 DEF lo, len
  <1>. HIDE DEF b
  <1>8. FlattenSeq(ss)[k] = ss[a - 1][b]
    BY <1>1, <1>5, <1>7
  <1>. QED  BY <1>5, <1>7, <1>8 DEF b

LEMMA FlattenIndex ==
  ASSUME NEW S, NEW ss \in Seq(Seq(S)), NEW off, FlatAt(ss, off),
         NEW a \in 1 .. Len(ss), NEW b \in 1 .. Len(ss[a])
  PROVE  off[a] + b \in 1 .. Len(FlattenSeq(ss)) /\ FlattenSeq(ss)[off[a] + b] = ss[a][b]
  <1>. DEFINE n == Len(ss)
              total == off[n + 1]
              D == {d \in 0 .. n : ~(off[n + 1 - d] <= total)}
  <1>0. \A j \in 1 .. n : Len(ss[j]) \in Nat
    <2>1. \A j \in 1 .. n : ss[j] \in Seq(S)
      OBVIOUS
    <2>. QED  BY <2>1, LenProperties
  <1>1. /\ n \in Nat /\ off \in [1 .. n + 1 -> Nat] /\ total = Len(FlattenSeq(ss))
        /\ \A j \in 1 .. n : off[j + 1] = off[j] + Len(ss[j]) /\ Len(ss[j]) \in Nat
        /\ \A j \in 1 .. n : \A i \in 1 .. Len(ss[j]) : FlattenSeq(ss)[off[j] + i] = ss[j][i]
    <2>. HIDE DEF D
    <2>1. n \in Nat
      BY LenProperties
    <2>2. off \in [1 .. n + 1 -> Nat] /\ total = Len(FlattenSeq(ss))
      BY Zenon DEF FlatAt
    <2>3. \A j \in 1 .. n : off[j + 1] = off[j] + Len(ss[j])
      BY Zenon DEF FlatAt
    <2>4. \A j \in 1 .. n : \A i \in 1 .. Len(ss[j]) : FlattenSeq(ss)[off[j] + i] = ss[j][i]
      BY Zenon DEF FlatAt
    <2>. HIDE DEF n, total
    <2>. QED  BY <1>0, <2>1, <2>2, <2>3, <2>4, Zenon
  <1>2. D = {}
    <2>. SUFFICES ASSUME D # {} PROVE FALSE
      OBVIOUS
    <2>1. D \in SUBSET Nat
      BY <1>1
    <2>2. PICK d \in D : \A j \in D : d <= j
      <3>. HIDE DEF D
      <3>. QED  BY <2>1, HasLeast
    <2>3. d \in 0 .. n /\ ~(off[n + 1 - d] <= total)
      OBVIOUS
    <2>4. d # 0
      BY <1>1, <2>3
    <2>5. d - 1 \in 0 .. n /\ ~(d <= d - 1) /\ n + 1 - d \in 1 .. n /\ n + 1 - (d - 1) = (n + 1 - d) + 1
      BY <1>1, <2>3, <2>4
    <2>6. off[n + 1 - (d - 1)] <= total
      BY <2>2, <2>5
    <2>7. off[(n + 1 - d) + 1] = off[n + 1 - d] + Len(ss[n + 1 - d]) /\ Len(ss[n + 1 - d]) \in Nat
      BY <1>1, <2>5
    <2>8. off[n + 1 - d] \in Nat /\ total \in Nat
      <3>1. n + 1 - d \in 1 .. n + 1 /\ n + 1 \in 1 .. n + 1
        BY <1>1, <2>5
      <3>. HIDE DEF n, D
      <3>. QED  BY <1>1, <3>1
    <2>. DEFINE lo == off[n + 1 - d]
                hi == off[(n + 1 - d) + 1]
                len == Len(ss[n + 1 - d])
    <2>9. hi <= total
      <3>. HIDE DEF n, D, total
      <3>. QED  BY <2>5, <2>6, Zenon
    <2>10. ~(lo <= total) /\ hi = lo + len /\ lo \in Nat /\ len \in Nat /\ total \in Nat
      <3>. HIDE DEF n, D, total
      <3>. QED  BY <2>3, <2>7, <2>8, Zenon
    <2>. HIDE DEF lo, hi, len, D, total
    <2>. QED  BY <2>9, <2>10
  <1>3. a + 1 \in 1 .. n + 1 /\ n + 1 - (n - a) = a + 1 /\ n - a \in 0 .. n
    BY <1>1
  <1>4. off[a + 1] <= total
    <2>1. off[n + 1 - (n - a)] <= total
      <3>. HIDE DEF n, total
      <3>. QED  BY <1>2, <1>3, Zenon
    <2>. HIDE DEF n, total, D
    <2>. QED  BY <1>3, <2>1, Zenon
  <1>5. off[a] \in Nat /\ off[a + 1] = off[a] + Len(ss[a]) /\ Len(ss[a]) \in Nat /\ total \in Nat
    <2>1. a \in 1 .. n + 1 /\ n + 1 \in 1 .. n + 1
      BY <1>1
    <2>. HIDE DEF D
    <2>. QED  BY <1>1, <2>1
  <1>. HIDE DEF total, D
  <1>6. off[a] + b \in 1 .. total
    BY <1>4, <1>5
  <1>. QED  BY <1>1, <1>6

LEMMA Quotient ==
  ASSUME NEW W \in Nat, W > 0, NEW n \in Nat
  PROVE  n \div W \in Nat /\ n % W \in 0 .. W - 1 /\ n = W * (n \div W) + (n % W)
  OBVIOUS

LEMMA Residue ==
  ASSUME NEW W \in Nat, W > 0, NEW q \in Int, NEW r \in 0 .. W - 1
  PROVE  (W * q + r) % W = r
  OBVIOUS

\* To count on from a position modulo W is to count on from the position.
LEMMA CountOn ==
  ASSUME NEW W \in Nat, W > 1, NEW n \in Nat
  PROVE  ((n % W) + 1) % W = (n + 1) % W
  <1>. DEFINE r == n % W
              q == n \div W
  <1>1. q \in Nat /\ r \in 0 .. W - 1 /\ n = W * q + r
    BY Quotient
  <1>. HIDE DEF q, r
  <1>2. CASE r < W - 1
    <2>1. r + 1 \in 0 .. W - 1 /\ n + 1 = W * q + (r + 1)
      BY <1>1, <1>2
    <2>2. (W * q + (r + 1)) % W = r + 1 /\ (W * 0 + (r + 1)) % W = r + 1
      BY <1>1, <2>1, Residue
    <2>. QED  BY <1>1, <2>1, <2>2 DEF r
  <1>3. CASE r = W - 1
    <2>1. n + 1 = W * (q + 1) + 0 /\ q + 1 \in Int /\ 0 \in 0 .. W - 1 /\ r + 1 = W * 1 + 0 /\ 1 \in Int
      BY <1>1, <1>3
    <2>2. (W * (q + 1) + 0) % W = 0 /\ (W * 1 + 0) % W = 0
      BY <2>1, Residue
    <2>. QED  BY <1>1, <2>1, <2>2 DEF r
  <1>. QED  BY <1>1, <1>2, <1>3

LEMMA Remainders ==
  ASSUME NEW W \in Nat, W > 1, NEW p \in 0 .. W - 1, NEW q \in 0 .. W - 1
  PROVE  q % W = q /\ \E d \in 0 .. W - 1 : (q + d) % W = p
  <1>1. (W * 0 + q) % W = q /\ (W * 0 + p) % W = p /\ (W * 1 + p) % W = p
    BY Residue
  <1>2. CASE p >= q
    <2>1. q + (p - q) = W * 0 + p /\ q = W * 0 + q /\ p - q \in 0 .. W - 1
      BY <1>2
    <2>. QED  BY <1>1, <2>1
  <1>3. CASE ~(p >= q)
    <2>1. q + (p - q + W) = W * 1 + p /\ q = W * 0 + q /\ p - q + W \in 0 .. W - 1
      BY <1>3
    <2>. QED  BY <1>1, <2>1
  <1>. QED  BY <1>2, <1>3

LEMMA ElementsIn ==
  ASSUME NEW T, NEW W, NEW ss \in Seq(T), \A a \in 1 .. Len(ss) : ss[a] \in W
  PROVE  ss \in Seq(W)
  OBVIOUS
=============================================================================
