---------------------------- MODULE KeyStepsProofs ----------------------------
(***************************************************************************)
(* Theorems about the key scripts of KeySteps, for any script of run_keys,  *)
(* any commands and gaps of mksteps.py and any schedules of the observers.           *)
(***************************************************************************)
EXTENDS KeySteps, FiniteSetTheorems, SequenceTheorems, TLAPS

\* A sequence of any values.
IsSeq(s) == Len(s) \in Nat /\ s \in Seq({s[i] : i \in 1 .. Len(s)})

LEMMA SeqIs ==
  ASSUME NEW S, NEW s \in Seq(S)
  PROVE  IsSeq(s) /\ DOMAIN s = 1 .. Len(s)
<1>1. Len(s) \in Nat /\ DOMAIN s = 1 .. Len(s) /\ s \in [1 .. Len(s) -> S]
  BY LenProperties
<1> QED
  BY <1>1 DEF IsSeq

------------------------------------------------------------------------------
(* Numbers and sequences.                                                   *)

\* The naturals in their order, for the least counterexample.
Less == {p \in Nat \X Nat : p[1] < p[2]}

LEMMA LessWellFounded == IsWellFoundedOn(Less, Nat)
<1>1. Less = OpToRel(<, Nat)
  BY Zenon DEF Less, OpToRel
<1> QED
  BY <1>1, NatLessThanWellFounded

LEMMA Least ==
  ASSUME NEW S \in SUBSET Nat, S # {}
  PROVE  \E n \in S : \A m \in S : n <= m
<1>1. PICK n \in S : \A m \in S : <<m, n>> \notin Less
  BY LessWellFounded, WFMin
<1>2. ASSUME NEW m \in S
      PROVE  n <= m
  <2>1. <<m, n>> \in Nat \X Nat
    OBVIOUS
  <2>2. ~(m < n)
    BY <1>1, <2>1 DEF Less
  <2> QED
    BY <2>2
<1> QED
  BY <1>2

LEMMA DivMod ==
  ASSUME NEW n \in Nat, NEW d \in Nat \ {0}
  PROVE  /\ n \div d \in Nat /\ n % d \in 0 .. d - 1
         /\ n = (n \div d) * d + (n % d)
OBVIOUS

LEMMA Steps ==
  ASSUME NEW d \in Nat, NEW p \in Nat, NEW q \in Nat, p < q
  PROVE  p * d + d <= q * d
<1>1. PICK e \in Nat : q = p + 1 + e
  <2>1. q - p - 1 \in Nat /\ q = p + 1 + (q - p - 1)
    OBVIOUS
  <2> QED BY <2>1
<1>2. q * d = p * d + d + e * d
  BY <1>1
<1>3. e * d \in Nat /\ p * d \in Nat
  OBVIOUS
<1> QED BY <1>2, <1>3

LEMMA OneWay ==
  ASSUME NEW d \in Nat \ {0}, NEW p \in Nat, NEW q \in Nat,
         NEW r \in 0 .. d - 1, NEW s \in 0 .. d - 1, p * d + r = q * d + s
  PROVE  p = q /\ r = s
<1>0. p * d \in Nat /\ q * d \in Nat
  OBVIOUS
<1>1. CASE p < q
  <2>1. p * d + d <= q * d
    BY <1>1, Steps
  <2> QED BY <1>0, <2>1
<1>2. CASE q < p
  <2>1. q * d + d <= p * d
    BY <1>2, Steps
  <2> QED BY <1>0, <2>1
<1> QED BY <1>0, <1>1, <1>2

LEMMA DivIs ==
  ASSUME NEW d \in Nat \ {0}, NEW q \in Nat, NEW r \in 0 .. d - 1,
         NEW n, n = q * d + r
  PROVE  n \in Nat /\ n \div d = q /\ n % d = r
<1>1. n \in Nat
  OBVIOUS
<1>2. n \div d \in Nat /\ n % d \in 0 .. d - 1 /\ n = (n \div d) * d + (n % d)
  BY <1>1, DivMod
<1>3. q * d + r = (n \div d) * d + (n % d)
  BY <1>2
<1>4. q = n \div d /\ r = n % d
  BY <1>2, <1>3, OneWay
<1> QED BY <1>1, <1>4

LEMMA FcnIsSeq ==
  ASSUME NEW S, NEW n \in Nat, NEW s \in [1 .. n -> S]
  PROVE  s \in Seq(S) /\ Len(s) = n
<1>1. s \in Seq(S)
  BY SeqDef
<1>2. PICK m : m = Len(s)
  OBVIOUS
<1>3. m \in Nat /\ DOMAIN s = 1 .. m
  BY <1>1, <1>2, LenProperties
<1>4. \A i \in Nat : i \in 1 .. m <=> i \in 1 .. n
  BY <1>3
<1>5. m <= n /\ n <= m
  BY <1>3, <1>4
<1> QED
  BY <1>1, <1>2, <1>3, <1>5

\* The function that FlattenSeq is defined with exists.
LEMMA FlattenIs ==
  ASSUME NEW seqs, Len(seqs) \in Nat, Len(seqs) # 0
  PROVE  \E f : /\ \A i \in 1 .. Len(seqs) : f[i] = IF i = 1 THEN seqs[i] ELSE f[i - 1] \o seqs[i]
                /\ FlattenSeq(seqs) = f[Len(seqs)]
<1> DEFINE Is(f, m) == f = [i \in 1 .. m |-> IF i = 1 THEN seqs[i] ELSE f[i - 1] \o seqs[i]]
<1>1. \A m \in Nat : \E f : Is(f, m)
  <2> DEFINE Missing == {m \in Nat : ~\E f : Is(f, m)}
  <2> SUFFICES ASSUME Missing # {}
               PROVE  FALSE
    OBVIOUS
  <2>1. PICK m \in Nat : m \in Missing /\ \A k \in Missing : m <= k
    <3>1. Missing \in SUBSET Nat
      OBVIOUS
    <3> HIDE DEF Missing
    <3> QED
      BY <3>1, Least
  <2>2. CASE m = 0
    <3> DEFINE f == [i \in 1 .. 0 |-> seqs[1]]
    <3>1. Is(f, 0)
      OBVIOUS
    <3> QED
      BY <2>1, <2>2, <3>1
  <2>3. CASE m # 0
    <3>0. PICK k : k = m - 1
      OBVIOUS
    <3>1. k \in Nat /\ ~(m <= k)
      BY <2>1, <2>3, <3>0
    <3>2. PICK f : Is(f, k)
      <4> HIDE DEF Is
      <4> QED
        BY <2>1, <3>1
    <3> DEFINE more == [i \in 1 .. m |-> IF i = m
                                         THEN IF m = 1 THEN seqs[m] ELSE f[m - 1] \o seqs[m]
                                         ELSE f[i]]
    <3>3. ASSUME NEW i \in 1 .. m
          PROVE  more[i] = IF i = 1 THEN seqs[i] ELSE more[i - 1] \o seqs[i]
      <4>1. CASE i = m
        <5>1. CASE m = 1
          BY <4>1, <5>1
        <5>2. CASE m # 1
          <6>0. more[i] = f[m - 1] \o seqs[m]
            BY <4>1, <5>2
          <6>1. more[i] = f[k] \o seqs[m]
            BY <3>0, <6>0
          <6>2. k \in 1 .. m /\ k # m
            BY <2>1, <2>3, <3>0, <5>2
          <6>3. more[k] = f[k]
            BY <6>2
          <6> QED
            BY <3>0, <4>1, <5>2, <6>1, <6>3
        <5> QED
          BY <5>1, <5>2
      <4>2. CASE i # m
        <5>1. i \in 1 .. k
          BY <2>1, <3>0, <4>2
        <5>2. f[i] = IF i = 1 THEN seqs[i] ELSE f[i - 1] \o seqs[i]
          BY <3>2, <5>1
        <5>3. more[i] = f[i]
          BY <4>2
        <5>4. i # 1 => i - 1 \in 1 .. m /\ i - 1 # m
          BY <2>1
        <5>5. i # 1 => more[i - 1] = f[i - 1]
          BY <5>4, Zenon
        <5> QED
          BY <5>2, <5>3, <5>5
      <4> QED
        BY <4>1, <4>2
    <3>4. Is(more, m)
      BY <3>3, Zenon
    <3> QED
      BY <2>1, <3>4
  <2> QED
    BY <2>2, <2>3
<1>2. PICK f : f = CHOOSE g : Is(g, Len(seqs))
  BY Zenon
<1>3. Is(f, Len(seqs))
  BY <1>1, <1>2, Zenon
<1>4. FlattenSeq(seqs) = f[Len(seqs)]
  BY <1>2 DEF FlattenSeq
<1> QED
  BY <1>3, <1>4

LEMMA EmptyIs ==
  ASSUME NEW S
  PROVE  <<>> \in Seq(S) /\ \A s \in Seq(S) : <<>> \o s = s /\ s \o <<>> = s
BY EmptySeq, ConcatEmptySeq

\* Concatenation, as an operator that lemmas match.
Cat(s, t) == s \o t

LEMMA Bracket ==
  ASSUME NEW S, NEW a, NEW b, NEW c, a \in Seq(S), b \in Seq(S), c \in Seq(S)
  PROVE  Cat(Cat(a, b), c) = Cat(a, Cat(b, c))
BY ConcatAssociative DEF Cat

LEMMA Joined ==
  ASSUME NEW S, NEW a, NEW b, a \in Seq(S), b \in Seq(S)
  PROVE  /\ Cat(a, b) \in Seq(S) /\ Len(Cat(a, b)) = Len(a) + Len(b)
         /\ \A i \in 1 .. Len(a) + Len(b) :
              Cat(a, b)[i] = IF i <= Len(a) THEN a[i] ELSE b[i - Len(a)]
BY ConcatProperties DEF Cat

LEMMA SameSeq ==
  ASSUME NEW S, NEW a, NEW b, a \in Seq(S), b \in Seq(S), Len(a) = Len(b),
         \A i \in 1 .. Len(a) : a[i] = b[i]
  PROVE  a = b
BY SeqEqual

LEMMA FlattenFcn ==
  ASSUME NEW S, NEW n \in Nat, n # 0, NEW P \in [1 .. n -> Seq(S)]
  PROVE  \E f : /\ \A i \in 1 .. n : f[i] = IF i = 1 THEN P[i] ELSE f[i - 1] \o P[i]
                /\ FlattenSeq(P) = f[n]
<1>1. Len(P) = n
  BY FcnIsSeq
<1> QED
  BY <1>1, FlattenIs

\* The rounds of FlattenSeq over n sequences.
Rounds(f, n, P) == \A i \in 1 .. n : f[i] = IF i = 1 THEN P[i] ELSE f[i - 1] \o P[i]

LEMMA RoundsAre ==
  ASSUME NEW S, NEW n \in Nat, NEW P \in [1 .. n -> Seq(S)], NEW f, Rounds(f, n, P)
  PROVE  \A i \in 1 .. n : f[i] \in Seq(S)
<1> DEFINE Bad == {i \in 1 .. n : f[i] \notin Seq(S)}
<1> SUFFICES ASSUME Bad # {} PROVE FALSE
  OBVIOUS
<1>1. Bad \in SUBSET Nat
  OBVIOUS
<1>2. PICK k \in Bad : \A m \in Bad : k <= m
  <2> HIDE DEF Bad
  <2> QED
    BY <1>1, Least
<1>3. k \in 1 .. n /\ f[k] \notin Seq(S) /\ P[k] \in Seq(S)
  OBVIOUS
<1>4. k # 1
  BY <1>3 DEF Rounds
<1>5. k - 1 \in 1 .. n /\ ~(k <= k - 1)
  BY <1>3, <1>4
<1>6. f[k - 1] \in Seq(S)
  BY <1>2, <1>5
<1>7. f[k] = Cat(f[k - 1], P[k])
  BY <1>3, <1>4 DEF Rounds, Cat
<1>8. Cat(f[k - 1], P[k]) \in Seq(S)
  BY ONLY <1>3, <1>6, Joined
<1> QED
  BY <1>3, <1>7, <1>8

\* Flattening two rows one after the other is flattening both.
Glued(m, n, P, Q) == [i \in 1 .. m + n |-> IF i <= m THEN P[i] ELSE Q[i - m]]

\* A row of n sequences.
RowOf(S, n, P) == n \in Nat /\ P \in [1 .. n -> Seq(S)]

LEMMA FlattenCat ==
  ASSUME NEW S, NEW m, NEW n, NEW P, NEW Q, RowOf(S, m, P), RowOf(S, n, Q)
  PROVE  /\ FlattenSeq(P) \in Seq(S) /\ FlattenSeq(Q) \in Seq(S)
         /\ FlattenSeq(Glued(m, n, P, Q)) = Cat(FlattenSeq(P), FlattenSeq(Q))
<1>r. m \in Nat /\ n \in Nat /\ P \in [1 .. m -> Seq(S)] /\ Q \in [1 .. n -> Seq(S)]
  BY DEF RowOf
<1> USE <1>r
<1>0. PICK R : R = Glued(m, n, P, Q) /\ R = [i \in 1 .. m + n |-> IF i <= m THEN P[i] ELSE Q[i - m]]
  BY DEF Glued
<1>1. ASSUME NEW k \in Nat, NEW U \in [1 .. k -> Seq(S)]
      PROVE  /\ FlattenSeq(U) \in Seq(S) /\ (k = 0 => FlattenSeq(U) = <<>>)
             /\ k # 0 => \E f : Rounds(f, k, U) /\ FlattenSeq(U) = f[k]
  <2>1. CASE k = 0
    <3>1. U \in Seq(Seq(S)) /\ Len(U) = 0
      BY <2>1, FcnIsSeq
    <3>2. U = <<>>
      BY <3>1, EmptySeq
    <3>3. FlattenSeq(U) = U
      BY <3>1 DEF FlattenSeq
    <3> QED
      BY <2>1, <3>2, <3>3, EmptySeq
  <2>2. CASE k # 0
    <3>1. PICK f : Rounds(f, k, U) /\ FlattenSeq(U) = f[k]
      BY ONLY k \in Nat, U \in [1 .. k -> Seq(S)], <2>2, FlattenFcn DEF Rounds
    <3>2. f[k] \in Seq(S)
      <4>1. k \in 1 .. k
        BY <2>2
      <4> QED
        BY <3>1, <4>1, RoundsAre
    <3> QED
      BY <2>2, <3>1, <3>2
  <2> QED
    BY <2>1, <2>2
<1>2. R \in [1 .. m + n -> Seq(S)] /\ m + n \in Nat
  BY <1>0
<1>3. PICK a, b : a = FlattenSeq(P) /\ b = FlattenSeq(Q)
  OBVIOUS
<1>4. a \in Seq(S) /\ b \in Seq(S)
  BY <1>1, <1>3
<1>5. CASE n = 0
  <2>1. R = P
    BY <1>0, <1>5
  <2>2. b = <<>>
    BY <1>1, <1>3, <1>5
  <2> QED
    BY <1>0, <1>3, <1>4, <2>1, <2>2, EmptyIs DEF Cat
<1>6. CASE m = 0
  <2>1. R = Q
    BY <1>0, <1>6
  <2>2. a = <<>>
    BY <1>1, <1>3, <1>6
  <2> QED
    BY <1>0, <1>3, <1>4, <2>1, <2>2, EmptyIs DEF Cat
<1>7. CASE m # 0 /\ n # 0
  <2>1. PICK f : Rounds(f, m, P) /\ a = f[m]
    BY <1>1, <1>3, <1>7
  <2>2. PICK g : Rounds(g, n, Q) /\ b = g[n]
    BY <1>1, <1>3, <1>7
  <2>3. m + n # 0
    BY <1>7
  <2>4. PICK h : Rounds(h, m + n, R) /\ FlattenSeq(R) = h[m + n]
    BY <1>1, <1>2, <2>3
  <2>5. \A i \in 1 .. n : g[i] \in Seq(S)
    BY <2>2, RoundsAre
  <2>6. h[m] = a
    <3> DEFINE Bad == {i \in 1 .. m : h[i] # f[i]}
    <3>1. Bad = {}
      <4> SUFFICES ASSUME Bad # {} PROVE FALSE
        OBVIOUS
      <4>1. Bad \in SUBSET Nat
        OBVIOUS
      <4>2. PICK k \in Bad : \A i \in Bad : k <= i
        <5> HIDE DEF Bad
        <5> QED
          BY <4>1, Least
      <4>3. k \in 1 .. m /\ h[k] # f[k] /\ k \in 1 .. m + n /\ R[k] = P[k]
        BY <1>0
      <4>4. k # 1
        BY <2>1, <2>4, <4>3 DEF Rounds
      <4>5. k - 1 \in 1 .. m /\ ~(k <= k - 1)
        BY <4>3, <4>4
      <4>6. h[k - 1] = f[k - 1]
        BY <4>2, <4>5
      <4> QED
        BY <2>1, <2>4, <4>3, <4>4, <4>6 DEF Rounds
    <3>2. m \in 1 .. m
      BY <1>7
    <3> QED
      BY <2>1, <3>1, <3>2
  <2>7. h[m + n] = Cat(a, b)
    <3> DEFINE Bad == {j \in 1 .. n : h[m + j] # Cat(a, g[j])}
    <3>1. Bad = {}
      <4> SUFFICES ASSUME Bad # {} PROVE FALSE
        OBVIOUS
      <4>1. Bad \in SUBSET Nat
        OBVIOUS
      <4>2. PICK k \in Bad : \A i \in Bad : k <= i
        <5> HIDE DEF Bad
        <5> QED
          BY <4>1, Least
      <4>3. k \in 1 .. n /\ h[m + k] # Cat(a, g[k])
        OBVIOUS
      <4>4. PICK j : j = m + k
        OBVIOUS
      <4>5. j \in 1 .. m + n /\ j # 1 /\ ~(j <= m) /\ j - m = k /\ j - 1 = m + (k - 1)
        BY <1>7, <4>3, <4>4
      <4>6. R[j] = Q[k]
        BY <1>0, <4>5
      <4>7. h[j] = Cat(h[j - 1], Q[k])
        BY <2>4, <4>5, <4>6 DEF Rounds, Cat
      <4>8. CASE k = 1
        <5>1. j - 1 = m
          BY <4>5, <4>8
        <5>2. g[1] = Q[1]
          BY <1>7, <2>2 DEF Rounds
        <5> QED
          BY <2>6, <4>3, <4>4, <4>7, <4>8, <5>1, <5>2
      <4>9. CASE k # 1
        <5>1. k - 1 \in 1 .. n /\ ~(k <= k - 1)
          BY <4>3, <4>9
        <5>2. h[m + (k - 1)] = Cat(a, g[k - 1])
          BY <4>2, <5>1
        <5>3. g[k] = Cat(g[k - 1], Q[k])
          BY <2>2, <4>3, <4>9 DEF Rounds, Cat
        <5>4. g[k - 1] \in Seq(S) /\ Q[k] \in Seq(S)
          BY <2>5, <4>3, <5>1
        <5>5. Cat(Cat(a, g[k - 1]), Q[k]) = Cat(a, Cat(g[k - 1], Q[k]))
          BY ONLY <1>4, <5>4, Bracket
        <5>6. h[j - 1] = Cat(a, g[k - 1])
          BY <4>5, <5>2
        <5> QED
          BY <4>3, <4>4, <4>7, <5>3, <5>5, <5>6
      <4> QED
        BY <4>8, <4>9
    <3>2. n \in 1 .. n
      BY <1>7
    <3> QED
      BY <2>2, <3>1, <3>2
  <2> QED
    BY <1>0, <1>3, <1>4, <2>4, <2>7
<1> QED
  BY <1>0, <1>5, <1>6, <1>7

LEMMA FlattenOne ==
  ASSUME NEW S, NEW P \in [1 .. 1 -> Seq(S)]
  PROVE  FlattenSeq(P) = P[1]
<1>1. PICK n : n = 1
  OBVIOUS
<1>2. n \in Nat /\ n # 0 /\ P \in [1 .. n -> Seq(S)] /\ n \in 1 .. n
  BY <1>1
<1>3. PICK f : /\ \A i \in 1 .. n : f[i] = IF i = 1 THEN P[i] ELSE f[i - 1] \o P[i]
               /\ FlattenSeq(P) = f[n]
  BY ONLY <1>2, FlattenFcn
<1> QED
  BY <1>1, <1>2, <1>3

LEMMA FlattenNone ==
  ASSUME NEW S, NEW P \in [1 .. 0 -> Seq(S)]
  PROVE  FlattenSeq(P) = <<>>
<1>1. P \in Seq(Seq(S)) /\ Len(P) = 0
  BY FcnIsSeq
<1>2. P = <<>>
  BY <1>1, EmptySeq
<1> QED
  BY <1>1, <1>2 DEF FlattenSeq

\* The first n of a row, and one more.
Firsts(P, n) == [i \in 1 .. n |-> P[i]]

LEMMA FlattenNext ==
  ASSUME NEW S, NEW n \in Nat, NEW P, \A i \in 1 .. n + 1 : P[i] \in Seq(S)
  PROVE  /\ FlattenSeq(Firsts(P, n)) \in Seq(S)
         /\ FlattenSeq(Firsts(P, n + 1)) = Cat(FlattenSeq(Firsts(P, n)), P[n + 1])
<1>1. PICK A, B, R, k : /\ A = Firsts(P, n) /\ B = [i \in 1 .. 1 |-> P[n + 1]]
                        /\ R = Firsts(P, n + 1) /\ k = 1
  OBVIOUS
<1>2. A \in [1 .. n -> Seq(S)] /\ B \in [1 .. 1 -> Seq(S)] /\ B[1] = P[n + 1]
  BY <1>1 DEF Firsts
<1>3. R = Glued(n, k, A, B)
  <2>1. ASSUME NEW i \in 1 .. n + 1
        PROVE  P[i] = IF i <= n THEN A[i] ELSE B[i - n]
    <3>1. CASE i <= n
      BY <1>1, <3>1 DEF Firsts
    <3>2. CASE ~(i <= n)
      <4>1. i = n + 1 /\ i - n = 1
        BY <3>2
      <4> QED
        BY <1>2, <3>2, <4>1
    <3> QED
      BY <3>1, <3>2
  <2> QED
    BY <1>1, <2>1 DEF Firsts, Glued
<1>4. RowOf(S, n, A) /\ RowOf(S, k, B)
  BY <1>1, <1>2 DEF RowOf
<1>5. /\ FlattenSeq(A) \in Seq(S)
      /\ FlattenSeq(R) = Cat(FlattenSeq(A), FlattenSeq(B))
  <2>2. /\ FlattenSeq(A) \in Seq(S)
        /\ FlattenSeq(Glued(n, k, A, B)) = Cat(FlattenSeq(A), FlattenSeq(B))
    BY ONLY <1>4, FlattenCat
  <2> QED
    BY <1>3, <2>2
<1>6. FlattenSeq(B) = P[n + 1]
  BY <1>2, FlattenOne
<1> QED
  BY <1>1, <1>5, <1>6

------------------------------------------------------------------------------
(* What mksteps.py writes.                                                  *)

MadeSteps(C) ==
  {s \in [at : Nat, mod : {"@", "="}, what : Seq(C)] : s.mod = "@" => s.what = <<Slash>>}

\* What a script types of itself, in a run from 0 with one disk.
Saying(s) == StepTypes(s, 0, First)
Sayings(script) == [k \in 1 .. Len(script) |-> Saying(script[k])]
Said(script) == FlattenSeq(Sayings(script))
Saids(C) == {Key(c, {}, First) : c \in C}

\* mksteps.py leaves 1.5 s after every step, and after an Enter the gap, which may be 0.
Pause(s) == IF s.what = <<Enter>> THEN 0 ELSE 15

\* Steps that are so far apart, between two times.
SetApart(script, from, to) ==
  /\ from \in Nat /\ to \in Nat /\ from <= to
  /\ \A k \in 1 .. Len(script) : from <= script[k].at /\ script[k].at + Pause(script[k]) <= to
  /\ \A i, k \in 1 .. Len(script) : i < k => script[i].at + Pause(script[i]) <= script[k].at

LEMMA PauseIs == \A s : Pause(s) \in Nat /\ Pause(s) <= 15 /\ (s.what # <<Enter>> => Pause(s) = 15)
BY DEF Pause

\* A script that is made of such steps, with characters in C, and types this.
Makes(C, script, from, to, typed) ==
  script \in Seq(MadeSteps(C)) /\ SetApart(script, from, to) /\ typed = Said(script)

LEMMA SayingIs ==
  ASSUME NEW C, Slash \in C, NEW s \in MadeSteps(C)
  PROVE  Saying(s) \in Seq(Saids(C))
<1>1. s.at \in Nat /\ s.what \in Seq(C) /\ s.mod \in {"@", "="} /\ (s.mod = "@" => s.what = <<Slash>>)
  BY DEF MadeSteps
<1>2. CASE s.mod = "="
  <2>1. PICK w, n : w = s.what /\ n = Len(w)
    OBVIOUS
  <2>2. n \in Nat /\ \A i \in 1 .. n : w[i] \in C
    <3>1. w \in Seq(C)
      BY <1>1, <2>1
    <3> QED
      BY <2>1, <3>1, ElementOfSeq, LenProperties
  <2>3. PICK c, S : c = [i \in 1 .. n |-> Key(w[i], {}, First)] /\ S = Saids(C)
    OBVIOUS
  <2>4. c \in [1 .. n -> S]
    <3>1. ASSUME NEW i \in 1 .. n
          PROVE  Key(w[i], {}, First) \in S
      BY <2>2, <2>3 DEF Saids
    <3> QED
      BY <2>3, <3>1
  <2>5. c \in Seq(S)
    BY <2>2, <2>4, FcnIsSeq
  <2>6. Saying(s) = c
    BY <1>2, <2>1, <2>3 DEF Saying, StepTypes, Characters
  <2> QED
    BY <2>3, <2>5, <2>6
<1>3. CASE s.mod = "@"
  <2>1. Saying(s) = <<Key(s.what[1], {s.mod} \cap Modifiers, First)>>
    BY <1>1, <1>3 DEF Saying, StepTypes
  <2>2. s.what[1] = Slash /\ {s.mod} \cap Modifiers = {}
    BY <1>1, <1>3 DEF Modifiers
  <2>3. Key(Slash, {}, First) \in Saids(C)
    BY DEF Saids
  <2> QED
    BY <2>1, <2>2, <2>3
<1> QED
  BY <1>1, <1>2, <1>3

LEMMA SayingsAre ==
  ASSUME NEW C, Slash \in C, NEW script \in Seq(MadeSteps(C))
  PROVE  /\ Len(script) \in Nat /\ RowOf(Saids(C), Len(script), Sayings(script))
         /\ \A k \in 1 .. Len(script) : script[k] \in MadeSteps(C) /\ Sayings(script)[k] = Saying(script[k])
         /\ Said(script) \in Seq(Saids(C))
<1>1. Len(script) \in Nat /\ \A k \in 1 .. Len(script) : script[k] \in MadeSteps(C)
  BY ElementOfSeq, LenProperties
<1>2. \A k \in 1 .. Len(script) : Saying(script[k]) \in Seq(Saids(C))
  BY <1>1, SayingIs
<1>3. RowOf(Saids(C), Len(script), Sayings(script))
  BY <1>1, <1>2 DEF RowOf, Sayings
<1>4. FlattenSeq(Sayings(script)) \in Seq(Saids(C))
  BY <1>3, FlattenCat
<1> QED
  BY <1>1, <1>3, <1>4 DEF Said, Sayings

LEMMA MakesNothing ==
  ASSUME NEW C, NEW t \in Nat
  PROVE  Makes(C, <<>>, t, t, <<>>)
<1>1. PICK e : e = <<>>
  OBVIOUS
<1>2. e \in Seq(MadeSteps(C)) /\ Len(e) = 0
  BY <1>1, EmptySeq
<1>3. Sayings(e) \in [1 .. 0 -> Seq(Saids(C))]
  BY <1>2 DEF Sayings
<1>4. Said(e) = <<>>
  BY <1>3, FlattenNone DEF Said
<1>5. SetApart(e, t, t)
  BY <1>2 DEF SetApart
<1> QED
  BY <1>1, <1>2, <1>4, <1>5 DEF Makes

LEMMA MakesOne ==
  ASSUME NEW C, Slash \in C, NEW s \in MadeSteps(C)
  PROVE  Makes(C, <<s>>, s.at, s.at + 15, Saying(s))
<1>1. PICK e : e = <<s>>
  OBVIOUS
<1>2. e \in Seq(MadeSteps(C)) /\ Len(e) = 1 /\ e[1] = s
  BY <1>1
<1>3. Sayings(e) \in [1 .. 1 -> Seq(Saids(C))] /\ Sayings(e)[1] = Saying(s)
  BY <1>2, SayingIs DEF Sayings
<1>4. Said(e) = Saying(s)
  BY <1>3, FlattenOne DEF Said
<1>5. s.at \in Nat
  BY DEF MadeSteps
<1>6. SetApart(e, s.at, s.at + 15)
  <2>1. s.at + Pause(s) <= s.at + 15 /\ s.at <= s.at + 15 /\ s.at + 15 \in Nat
    BY <1>5, PauseIs
  <2> QED
    BY <1>2, <1>5, <2>1 DEF SetApart
<1> QED
  BY <1>1, <1>2, <1>4, <1>6 DEF Makes

\* An Enter takes no time of its own.
LEMMA MakesEnter ==
  ASSUME NEW C, Slash \in C, NEW s \in MadeSteps(C), s.what = <<Enter>>, NEW till \in Nat, s.at <= till
  PROVE  Makes(C, <<s>>, s.at, till, Saying(s))
<1>1. PICK e : e = <<s>>
  OBVIOUS
<1>2. e \in Seq(MadeSteps(C)) /\ Len(e) = 1 /\ e[1] = s
  BY <1>1
<1>3. Makes(C, e, s.at, s.at + 15, Saying(s))
  BY <1>1, MakesOne
<1>4. s.at \in Nat
  BY DEF MadeSteps
<1>5. s.at + Pause(s) <= till
  BY <1>4 DEF Pause
<1>6. SetApart(e, s.at, till)
  BY <1>2, <1>4, <1>5 DEF SetApart
<1> QED
  BY <1>1, <1>3, <1>6 DEF Makes

LEMMA MakesLater ==
  ASSUME NEW C, Slash \in C, NEW script, NEW from, NEW to, NEW typed, Makes(C, script, from, to, typed),
         NEW till \in Nat, to <= till
  PROVE  Makes(C, script, from, till, typed)
<1>1. /\ script \in Seq(MadeSteps(C)) /\ typed = Said(script) /\ from \in Nat /\ to \in Nat /\ from <= to
      /\ \A k \in 1 .. Len(script) : from <= script[k].at /\ script[k].at + Pause(script[k]) <= to
      /\ \A i, k \in 1 .. Len(script) : i < k => script[i].at + Pause(script[i]) <= script[k].at
  BY DEF Makes, SetApart
<1>2. \A k \in 1 .. Len(script) : script[k].at \in Nat
  BY <1>1, SayingsAre DEF MadeSteps
<1>3. ASSUME NEW k \in 1 .. Len(script)
      PROVE  script[k].at + Pause(script[k]) <= till
  <2>1. PICK a, p : a = script[k].at /\ p = Pause(script[k])
    OBVIOUS
  <2>2. a \in Nat /\ p \in Nat /\ a + p <= to
    BY <1>1, <1>2, <2>1, PauseIs
  <2>3. a + p <= till
    BY ONLY till \in Nat, to <= till, <1>1, <2>2
  <2> QED
    BY <2>1, <2>3
<1> QED
  BY <1>1, <1>3 DEF Makes, SetApart

\* One script after another.
LEMMA MakesBoth ==
  ASSUME NEW C, Slash \in C, NEW a, NEW b, NEW from, NEW mid, NEW to, NEW x, NEW y,
         Makes(C, a, from, mid, x), Makes(C, b, mid, to, y)
  PROVE  Makes(C, a \o b, from, to, Cat(x, y)) /\ Len(a \o b) = Len(a) + Len(b)
<1>1. /\ a \in Seq(MadeSteps(C)) /\ b \in Seq(MadeSteps(C)) /\ x = Said(a) /\ y = Said(b)
      /\ from \in Nat /\ mid \in Nat /\ to \in Nat /\ from <= mid /\ mid <= to
  BY DEF Makes, SetApart
<1>2. PICK c, m, n : c = a \o b /\ m = Len(a) /\ n = Len(b)
  OBVIOUS
<1>3. /\ c \in Seq(MadeSteps(C)) /\ Len(c) = m + n /\ m \in Nat /\ n \in Nat
      /\ \A i \in 1 .. m + n : c[i] = IF i <= m THEN a[i] ELSE b[i - m]
  BY <1>1, <1>2, ConcatProperties, LenProperties
<1>4. /\ RowOf(Saids(C), m, Sayings(a)) /\ RowOf(Saids(C), n, Sayings(b))
      /\ \A k \in 1 .. m : a[k] \in MadeSteps(C) /\ Sayings(a)[k] = Saying(a[k])
      /\ \A k \in 1 .. n : b[k] \in MadeSteps(C) /\ Sayings(b)[k] = Saying(b[k])
  BY <1>1, <1>2, SayingsAre
<1>5. Sayings(c) = Glued(m, n, Sayings(a), Sayings(b))
  <2>1. ASSUME NEW i \in 1 .. m + n
        PROVE  Saying(c[i]) = IF i <= m THEN Sayings(a)[i] ELSE Sayings(b)[i - m]
    <3>1. CASE i <= m
      <4>1. i \in 1 .. m /\ c[i] = a[i]
        BY <1>3, <3>1
      <4> QED
        BY <1>4, <3>1, <4>1
    <3>2. CASE ~(i <= m)
      <4>1. i - m \in 1 .. n /\ c[i] = b[i - m]
        BY <1>3, <3>2
      <4> QED
        BY <1>4, <3>2, <4>1
    <3> QED
      BY <3>1, <3>2
  <2> QED
    BY <1>3, <2>1 DEF Sayings, Glued
<1>6. FlattenSeq(Glued(m, n, Sayings(a), Sayings(b))) = Cat(FlattenSeq(Sayings(a)), FlattenSeq(Sayings(b)))
  BY ONLY <1>4, FlattenCat
<1>7. Said(c) = Cat(x, y)
  BY <1>1, <1>5, <1>6 DEF Said
<1>8. /\ \A k \in 1 .. m : a[k].at \in Nat /\ from <= a[k].at /\ a[k].at + Pause(a[k]) <= mid
      /\ \A i, k \in 1 .. m : i < k => a[i].at + Pause(a[i]) <= a[k].at
      /\ \A k \in 1 .. n : b[k].at \in Nat /\ mid <= b[k].at /\ b[k].at + Pause(b[k]) <= to
      /\ \A i, k \in 1 .. n : i < k => b[i].at + Pause(b[i]) <= b[k].at
  BY <1>2, <1>4 DEF Makes, SetApart, MadeSteps
<1>9. ASSUME NEW k \in 1 .. m + n
      PROVE  from <= c[k].at /\ c[k].at + Pause(c[k]) <= to
  <2>1. CASE k <= m
    <3>1. k \in 1 .. m /\ c[k] = a[k]
      BY <1>3, <2>1
    <3>2. PICK t, p : t = a[k].at /\ p = Pause(a[k])
      OBVIOUS
    <3>3. t \in Nat /\ p \in Nat /\ from <= t /\ t + p <= mid
      BY <1>8, <3>1, <3>2, PauseIs
    <3>4. from <= t /\ t + p <= to
      BY ONLY <1>1, <3>3
    <3> QED
      BY ONLY <3>1, <3>2, <3>4
  <2>2. CASE ~(k <= m)
    <3>1. k - m \in 1 .. n /\ c[k] = b[k - m]
      BY <1>3, <2>2
    <3>2. PICK t, p : t = b[k - m].at /\ p = Pause(b[k - m])
      OBVIOUS
    <3>3. t \in Nat /\ p \in Nat /\ mid <= t /\ t + p <= to
      BY <1>8, <3>1, <3>2, PauseIs
    <3>4. from <= t /\ t + p <= to
      BY ONLY <1>1, <3>3
    <3> QED
      BY ONLY <3>1, <3>2, <3>4
  <2> QED
    BY <2>1, <2>2
<1>10. ASSUME NEW i \in 1 .. m + n, NEW k \in 1 .. m + n, i < k
       PROVE  c[i].at + Pause(c[i]) <= c[k].at
  <2>1. CASE k <= m
    <3>1. i \in 1 .. m /\ k \in 1 .. m /\ c[i] = a[i] /\ c[k] = a[k]
      BY <1>3, <1>10, <2>1
    <3> QED
      BY <1>8, <1>10, <3>1
  <2>2. CASE ~(k <= m) /\ i <= m
    <3>1. i \in 1 .. m /\ k - m \in 1 .. n /\ c[i] = a[i] /\ c[k] = b[k - m]
      BY <1>3, <2>2
    <3>2. PICK t, u, p : t = a[i].at /\ u = b[k - m].at /\ p = Pause(a[i])
      OBVIOUS
    <3>3. t \in Nat /\ u \in Nat /\ p \in Nat /\ t + p <= mid /\ mid <= u
      BY <1>8, <3>1, <3>2, PauseIs
    <3>4. c[i].at = t /\ c[k].at = u /\ Pause(c[i]) = p
      BY <3>1, <3>2
    <3>5. t + p <= u
      BY ONLY <1>1, <3>3
    <3> QED
      BY ONLY <3>4, <3>5
  <2>3. CASE ~(k <= m) /\ ~(i <= m)
    <3>1. i - m \in 1 .. n /\ k - m \in 1 .. n /\ i - m < k - m /\ c[i] = b[i - m] /\ c[k] = b[k - m]
      BY <1>3, <1>10, <2>3
    <3> QED
      BY <1>8, <3>1
  <2> QED
    BY <2>1, <2>2, <2>3
<1>11. SetApart(c, from, to)
  BY <1>1, <1>3, <1>9, <1>10 DEF SetApart
<1> QED
  BY <1>2, <1>3, <1>7, <1>11 DEF Makes

------------------------------------------------------------------------------

LEMMA NoCharacters == Characters(<<>>, First) = <<>>
<1>1. PICK w, c : w = <<>> /\ c = [i \in 1 .. 0 |-> Key(w[i], {}, First)]
  OBVIOUS
<1>2. Len(w) = 0
  BY <1>1, EmptySeq
<1>3. c \in [1 .. 0 -> {}]
  BY <1>1
<1>4. c \in Seq({}) /\ Len(c) = 0
  BY <1>3, FcnIsSeq
<1>5. c = <<>>
  BY <1>4, EmptySeq
<1> QED
  BY <1>1, <1>2, <1>5 DEF Characters

\* What a part types, with the / before it.
PartTypes(part, first) ==
  (IF first THEN <<>> ELSE <<Key(Slash, {}, First)>>) \o Characters(part, First)

LEMMA PartMakes ==
  ASSUME NEW C, Slash \in C, NEW t \in Nat, NEW part \in Seq(C), NEW first \in BOOLEAN, NEW p,
         p = PartSteps(t, part, first)
  PROVE  Len(p) \in Nat /\ Makes(C, p, t, t + 15 * Len(p), PartTypes(part, first))
<1>1. PICK slash, after, key : /\ slash = IF first THEN <<>> ELSE <<Tap(t, "@", Slash)>>
                               /\ after = t + 15 * Len(slash)
                               /\ key = IF first THEN <<>> ELSE <<Key(Slash, {}, First)>>
  OBVIOUS
<1>2. slash \in Seq(MadeSteps(C)) /\ Len(slash) \in Nat /\ after \in Nat /\ Makes(C, slash, t, after, key)
  <2>1. CASE first
    <3>1. slash = <<>> /\ key = <<>> /\ Len(slash) = 0 /\ slash \in Seq(MadeSteps(C))
      BY <1>1, <2>1, EmptySeq
    <3>2. after = t
      BY <1>1, <3>1
    <3> QED
      BY <3>1, <3>2, MakesNothing
  <2>2. CASE ~first
    <3>1. PICK s : s = Tap(t, "@", Slash)
      OBVIOUS
    <3>2. s \in MadeSteps(C) /\ s.at = t
      BY <3>1 DEF MadeSteps, Tap
    <3>3. Saying(s) = <<Key(Slash, {}, First)>>
      <4>1. s.mod = "@" /\ s.what[1] = Slash
        BY <3>1 DEF Tap
      <4>2. Saying(s) = <<Key(s.what[1], {s.mod} \cap Modifiers, First)>>
        BY <3>2, <4>1 DEF Saying, StepTypes
      <4>3. {s.mod} \cap Modifiers = {}
        BY <4>1 DEF Modifiers
      <4> QED
        BY <4>1, <4>2, <4>3
    <3>4. slash = <<s>> /\ Len(slash) = 1 /\ slash \in Seq(MadeSteps(C)) /\ after = t + 15
      BY <1>1, <2>2, <3>1, <3>2
    <3>5. Makes(C, <<s>>, s.at, s.at + 15, Saying(s))
      BY <3>2, MakesOne
    <3> QED
      BY <1>1, <2>2, <3>2, <3>3, <3>4, <3>5
  <2> QED
    BY <2>1, <2>2
<1>3. p = IF part = <<>> THEN slash ELSE Append(slash, Text(after, part))
  BY <1>1 DEF PartSteps
<1>4. PartTypes(part, first) = Cat(key, Characters(part, First))
  BY <1>1 DEF PartTypes, Cat
<1>5. key \in Seq(Saids(C))
  BY <1>2, SayingsAre DEF Makes
<1>6. CASE part = <<>>
  <2>1. PartTypes(part, first) = key
    BY <1>4, <1>5, <1>6, NoCharacters, EmptyIs DEF Cat
  <2> QED
    BY <1>1, <1>2, <1>3, <1>6, <2>1
<1>7. CASE part # <<>>
  <2>1. PICK s : s = Text(after, part)
    OBVIOUS
  <2>2. s \in MadeSteps(C) /\ s.at = after
    BY <1>2, <2>1 DEF MadeSteps, Text
  <2>3. Saying(s) = Characters(part, First)
    BY <2>1 DEF Saying, StepTypes, Text
  <2>4. Makes(C, <<s>>, after, after + 15, Characters(part, First))
    BY <2>2, <2>3, MakesOne
  <2>5. p = slash \o <<s>> /\ Len(<<s>>) = 1
    BY <1>2, <1>3, <1>7, <2>1, <2>2, AppendIsConcat
  <2>6. Makes(C, slash \o <<s>>, t, after + 15, Cat(key, Characters(part, First)))
        /\ Len(slash \o <<s>>) = Len(slash) + Len(<<s>>)
    BY ONLY Slash \in C, <1>2, <2>4, MakesBoth
  <2>7. Len(p) = Len(slash) + 1 /\ t + 15 * Len(p) = after + 15
    BY <1>1, <1>2, <2>5, <2>6
  <2> QED
    BY <1>2, <1>4, <2>5, <2>6, <2>7
<1> QED
  BY <1>6, <1>7

\* The functions that CommandSteps and MkSteps are defined with exist.
Body(t, command, f) ==
  /\ f[0] = <<>>
  /\ \A n \in 1 .. Len(command) :
       f[n] = f[n - 1] \o PartSteps(t + 15 * Len(f[n - 1]), command[n], n = 1)
  /\ CommandSteps(t, command) = f[Len(command)]

LEMMA BodyIs ==
  ASSUME NEW t, NEW command, Len(command) \in Nat
  PROVE  \E f : Body(t, command, f)
<1> DEFINE Round(n, prev) == prev \o PartSteps(t + 15 * Len(prev), command[n], n = 1)
<1> DEFINE Is(f, m) == f = [n \in 0 .. m |-> IF n = 0 THEN <<>> ELSE Round(n, f[n - 1])]
<1>0. CommandSteps(t, command) = (CHOOSE f : Is(f, Len(command)))[Len(command)]
  BY DEF CommandSteps
<1> HIDE DEF Round
<1>1. \A m \in Nat : \E f : Is(f, m)
  <2> DEFINE Missing == {m \in Nat : ~\E f : Is(f, m)}
  <2> SUFFICES ASSUME Missing # {} PROVE FALSE
    OBVIOUS
  <2>1. PICK m \in Nat : m \in Missing /\ \A k \in Missing : m <= k
    <3>1. Missing \in SUBSET Nat
      OBVIOUS
    <3> HIDE DEF Missing
    <3> QED
      BY <3>1, Least
  <2>2. CASE m = 0
    <3> DEFINE f == [i \in 0 .. 0 |-> <<>>]
    <3>1. Is(f, 0)
      OBVIOUS
    <3> QED
      BY <2>1, <2>2, <3>1
  <2>3. CASE m # 0
    <3>0. PICK k : k = m - 1
      OBVIOUS
    <3>1. k \in Nat /\ ~(m <= k) /\ k \in 0 .. m /\ k # m
      BY <2>1, <2>3, <3>0
    <3>2. PICK f : Is(f, k)
      <4> HIDE DEF Is
      <4> QED
        BY <2>1, <3>1
    <3> DEFINE more == [i \in 0 .. m |-> IF i = m THEN Round(m, f[k]) ELSE f[i]]
    <3>3. ASSUME NEW i \in 0 .. m
          PROVE  more[i] = IF i = 0 THEN <<>> ELSE Round(i, more[i - 1])
      <4>1. CASE i = m
        BY <2>3, <3>0, <3>1, <4>1
      <4>2. CASE i # m
        <5>1. i \in 0 .. k
          BY <2>1, <3>0, <4>2
        <5>2. f[i] = IF i = 0 THEN <<>> ELSE Round(i, f[i - 1])
          BY <3>2, <5>1
        <5>3. more[i] = f[i]
          BY <4>2
        <5>4. i # 0 => i - 1 \in 0 .. m /\ i - 1 # m
          BY <2>1
        <5>5. i # 0 => more[i - 1] = f[i - 1]
          BY <5>4
        <5> QED
          BY <5>2, <5>3, <5>5
      <4> QED
        BY <4>1, <4>2
    <3>4. Is(more, m)
      BY <3>3
    <3> QED
      BY <2>1, <3>4
  <2> QED
    BY <2>2, <2>3
<1>2. PICK f : f = CHOOSE g : Is(g, Len(command))
  OBVIOUS
<1>3. Is(f, Len(command))
  BY <1>1, <1>2
<1>4. /\ f[0] = <<>>
      /\ \A n \in 1 .. Len(command) : f[n] = Round(n, f[n - 1])
  BY <1>3
<1> QED
  BY <1>0, <1>2, <1>4, Zenon DEF Round, Body

LEMMA AccIs ==
  ASSUME NEW at, NEW arguments, Len(arguments) \in Nat
  PROVE  \E f : /\ f[0] = [t |-> at, gap |-> 120, out |-> <<>>]
                /\ \A n \in 1 .. Len(arguments) : f[n] = AddArgument(f[n - 1], arguments[n])
                /\ MkSteps(at, arguments) = Append(f[Len(arguments)].out, Text(f[Len(arguments)].t, <<>>))
<1> DEFINE None == [t |-> at, gap |-> 120, out |-> <<>>]
<1> DEFINE Is(f, m) == f = [n \in 0 .. m |-> IF n = 0 THEN None ELSE AddArgument(f[n - 1], arguments[n])]
<1>0. PICK all : /\ all = (CHOOSE f : Is(f, Len(arguments)))[Len(arguments)]
                 /\ MkSteps(at, arguments) = Append(all.out, Text(all.t, <<>>))
  BY DEF MkSteps
<1> HIDE DEF None
<1>1. \A m \in Nat : \E f : Is(f, m)
  <2> DEFINE Missing == {m \in Nat : ~\E f : Is(f, m)}
  <2> SUFFICES ASSUME Missing # {} PROVE FALSE
    OBVIOUS
  <2>1. PICK m \in Nat : m \in Missing /\ \A k \in Missing : m <= k
    <3>1. Missing \in SUBSET Nat
      OBVIOUS
    <3> HIDE DEF Missing
    <3> QED
      BY <3>1, Least
  <2>2. CASE m = 0
    <3> DEFINE f == [i \in 0 .. 0 |-> None]
    <3>1. Is(f, 0)
      OBVIOUS
    <3> QED
      BY <2>1, <2>2, <3>1
  <2>3. CASE m # 0
    <3>0. PICK k : k = m - 1
      OBVIOUS
    <3>1. k \in Nat /\ ~(m <= k) /\ k \in 0 .. m /\ k # m
      BY <2>1, <2>3, <3>0
    <3>2. PICK f : Is(f, k)
      <4> HIDE DEF Is
      <4> QED
        BY <2>1, <3>1
    <3> DEFINE more == [i \in 0 .. m |-> IF i = m THEN AddArgument(f[k], arguments[m]) ELSE f[i]]
    <3>3. ASSUME NEW i \in 0 .. m
          PROVE  more[i] = IF i = 0 THEN None ELSE AddArgument(more[i - 1], arguments[i])
      <4>1. CASE i = m
        BY <2>3, <3>0, <3>1, <4>1
      <4>2. CASE i # m
        <5>1. i \in 0 .. k
          BY <2>1, <3>0, <4>2
        <5>2. f[i] = IF i = 0 THEN None ELSE AddArgument(f[i - 1], arguments[i])
          BY <3>2, <5>1
        <5>3. more[i] = f[i]
          BY <4>2
        <5>4. i # 0 => i - 1 \in 0 .. m /\ i - 1 # m
          BY <2>1
        <5>5. i # 0 => more[i - 1] = f[i - 1]
          BY <5>4
        <5> QED
          BY <5>2, <5>3, <5>5
      <4> QED
        BY <4>1, <4>2
    <3>4. Is(more, m)
      BY <3>3
    <3> QED
      BY <2>1, <3>4
  <2> QED
    BY <2>2, <2>3
<1>2. PICK f : f = CHOOSE g : Is(g, Len(arguments))
  OBVIOUS
<1>3. Is(f, Len(arguments))
  BY <1>1, <1>2
<1>4. /\ f[0] = None
      /\ \A n \in 1 .. Len(arguments) : f[n] = AddArgument(f[n - 1], arguments[n])
  BY <1>3
<1> QED
  BY <1>0, <1>2, <1>4, Zenon DEF None

\* The number that digits make is one.
LEMMA NumberIs ==
  ASSUME NEW argument, Len(argument[1]) \in Nat, IsGap(argument)
  PROVE  Number(argument[1]) \in Nat
<1>1. PICK part, len : part = argument[1] /\ len = Len(part) /\ len \in Nat
  OBVIOUS
<1> DEFINE Round(n, prev) == 10 * prev + DigitValue(part[n])
<1> DEFINE Is(f, m) == f = [n \in 0 .. m |-> IF n = 0 THEN 0 ELSE Round(n, f[n - 1])]
<1>2. Number(part) = (CHOOSE f : Is(f, len))[len]
  BY <1>1 DEF Number
<1>3. \A k \in 1 .. len : DigitValue(part[k]) \in Nat
  <2> SUFFICES ASSUME NEW k \in 1 .. len PROVE DigitValue(part[k]) \in Nat
    OBVIOUS
  <2>1. PICK c : c = part[k]
    OBVIOUS
  <2>2. \E i \in 1 .. 10 : Digits[i] = c
    <3>1. \E i \in 1 .. 10 : argument[1][k] = Digits[i]
      BY <1>1 DEF IsGap
    <3> QED
      BY <1>1, <2>1, <3>1
  <2>3. PICK v : v = CHOOSE i \in 1 .. 10 : Digits[i] = c
    OBVIOUS
  <2>4. v \in 1 .. 10
    BY <2>2, <2>3
  <2>5. DigitValue(c) = v - 1
    BY <2>3, Zenon DEF DigitValue
  <2> QED
    BY <2>1, <2>4, <2>5
<1> HIDE DEF Round
<1>4. \A m \in Nat : \E f : Is(f, m)
  <2> DEFINE Missing == {m \in Nat : ~\E f : Is(f, m)}
  <2> SUFFICES ASSUME Missing # {} PROVE FALSE
    OBVIOUS
  <2>1. PICK m \in Nat : m \in Missing /\ \A k \in Missing : m <= k
    <3>1. Missing \in SUBSET Nat
      OBVIOUS
    <3> HIDE DEF Missing
    <3> QED
      BY <3>1, Least
  <2>2. CASE m = 0
    <3> DEFINE f == [i \in 0 .. 0 |-> 0]
    <3>1. Is(f, 0)
      OBVIOUS
    <3> QED
      BY <2>1, <2>2, <3>1
  <2>3. CASE m # 0
    <3>0. PICK k : k = m - 1
      OBVIOUS
    <3>1. k \in Nat /\ ~(m <= k) /\ k \in 0 .. m /\ k # m
      BY <2>1, <2>3, <3>0
    <3>2. PICK f : Is(f, k)
      <4> HIDE DEF Is
      <4> QED
        BY <2>1, <3>1
    <3> DEFINE more == [i \in 0 .. m |-> IF i = m THEN Round(m, f[k]) ELSE f[i]]
    <3>3. ASSUME NEW i \in 0 .. m
          PROVE  more[i] = IF i = 0 THEN 0 ELSE Round(i, more[i - 1])
      <4>1. CASE i = m
        BY <2>3, <3>0, <3>1, <4>1
      <4>2. CASE i # m
        <5>1. i \in 0 .. k
          BY <2>1, <3>0, <4>2
        <5>2. f[i] = IF i = 0 THEN 0 ELSE Round(i, f[i - 1])
          BY <3>2, <5>1
        <5>3. more[i] = f[i]
          BY <4>2
        <5>4. i # 0 => i - 1 \in 0 .. m /\ i - 1 # m
          BY <2>1
        <5>5. i # 0 => more[i - 1] = f[i - 1]
          BY <5>4
        <5> QED
          BY <5>2, <5>3, <5>5
      <4> QED
        BY <4>1, <4>2
    <3>4. Is(more, m)
      BY <3>3
    <3> QED
      BY <2>1, <3>4
  <2> QED
    BY <2>2, <2>3
<1>5. PICK f : f = CHOOSE g : Is(g, len)
  OBVIOUS
<1>6. Is(f, len)
  BY <1>1, <1>4, <1>5
<1>7. f[0] = 0 /\ \A n \in 1 .. len : f[n] = Round(n, f[n - 1])
  BY <1>1, <1>6
<1>8. \A n \in 0 .. len : f[n] \in Nat
  <2> HIDE DEF Is
  <2> DEFINE Bad == {n \in 0 .. len : f[n] \notin Nat}
  <2> SUFFICES ASSUME Bad # {} PROVE FALSE
    OBVIOUS
  <2>1. Bad \in SUBSET Nat
    OBVIOUS
  <2>2. PICK n \in Bad : \A i \in Bad : n <= i
    <3> HIDE DEF Bad
    <3> QED
      BY <2>1, Least
  <2>3. n \in 0 .. len /\ f[n] \notin Nat
    OBVIOUS
  <2>4. n # 0
    BY <1>7, <2>3
  <2>5. n \in 1 .. len /\ n - 1 \in 0 .. len /\ ~(n <= n - 1)
    BY <1>1, <2>3, <2>4
  <2>6. f[n - 1] \in Nat
    BY <2>2, <2>5
  <2>7. PICK v, d : v = f[n - 1] /\ d = DigitValue(part[n])
    OBVIOUS
  <2>8. v \in Nat /\ d \in Nat
    BY <1>3, <2>5, <2>6, <2>7
  <2>9. f[n] = 10 * v + d
    BY <1>7, <2>5, <2>7 DEF Round
  <2> QED
    BY <2>3, <2>8, <2>9
<1>9. Number(argument[1]) = f[len]
  BY <1>1, <1>2, <1>5, Zenon
<1> QED
  BY <1>1, <1>8, <1>9

\* A command types its parts with a / between them.
LEMMA CommandMakes ==
  ASSUME NEW C, Slash \in C, NEW t \in Nat, NEW command \in Seq(Seq(C)), NEW types,
         types = [i \in 1 .. Len(command) |-> PartTypes(command[i], i = 1)], NEW body,
         body = CommandSteps(t, command)
  PROVE  Len(body) \in Nat /\ Makes(C, body, t, t + 15 * Len(body), FlattenSeq(types))
<1>1. PICK m \in Nat : m = Len(command)
  BY LenProperties
<1>2. \A i \in 1 .. m : command[i] \in Seq(C)
  BY <1>1, ElementOfSeq
<1>3. PICK f : /\ f[0] = <<>>
               /\ \A n \in 1 .. m : f[n] = f[n - 1] \o PartSteps(t + 15 * Len(f[n - 1]), command[n], n = 1)
               /\ body = f[m]
  <2>1. Len(command) \in Nat
    BY <1>1
  <2>2. PICK f : Body(t, command, f)
    BY ONLY <2>1, BodyIs
  <2> QED
    BY <1>1, <2>2 DEF Body
<1> DEFINE Right(n) == /\ Len(f[n]) \in Nat
                       /\ Makes(C, f[n], t, t + 15 * Len(f[n]), FlattenSeq(Firsts(types, n)))
<1>4. ASSUME NEW n \in 1 .. m, NEW u \in Nat
      PROVE  LET p == PartSteps(u, command[n], n = 1)
             IN  Len(p) \in Nat /\ Makes(C, p, u, u + 15 * Len(p), types[n])
  <2>1. PICK part, first, p : /\ part = command[n] /\ first = (n = 1)
                              /\ p = PartSteps(u, part, first)
    OBVIOUS
  <2>2. part \in Seq(C) /\ first \in BOOLEAN
    BY <1>2, <2>1
  <2>3. Len(p) \in Nat /\ Makes(C, p, u, u + 15 * Len(p), PartTypes(part, first))
    BY <2>1, <2>2, PartMakes
  <2>4. types[n] = PartTypes(part, first)
    BY <1>1, <2>1
  <2> QED
    BY <2>1, <2>3, <2>4
<1>5. \A n \in 1 .. m : types[n] \in Seq(Saids(C))
  <2> SUFFICES ASSUME NEW n \in 1 .. m PROVE types[n] \in Seq(Saids(C))
    OBVIOUS
  <2>1. PICK p : Makes(C, p, 0, 0 + 15 * Len(p), types[n])
    BY <1>4
  <2> QED
    BY <2>1, SayingsAre DEF Makes
<1>6. Right(0)
  <2>1. Len(f[0]) = 0 /\ t + 15 * Len(f[0]) = t
    BY <1>3, EmptySeq
  <2>2. Firsts(types, 0) \in [1 .. 0 -> Seq(Saids(C))]
    BY DEF Firsts
  <2>3. FlattenSeq(Firsts(types, 0)) = <<>>
    BY <2>2, FlattenNone
  <2> QED
    BY <1>3, <2>1, <2>3, MakesNothing
<1>7. ASSUME NEW n \in 1 .. m, Right(n - 1)
      PROVE  Right(n)
  <2>1. PICK k, a, u, p, x : /\ k = n - 1 /\ a = f[k] /\ u = t + 15 * Len(a)
                             /\ p = PartSteps(u, command[n], n = 1)
                             /\ x = FlattenSeq(Firsts(types, k))
    OBVIOUS
  <2>2. Len(a) \in Nat /\ u \in Nat /\ Makes(C, a, t, u, x) /\ k \in Nat /\ n = k + 1
    BY <1>7, <2>1
  <2>3. Len(p) \in Nat /\ Makes(C, p, u, u + 15 * Len(p), types[n])
    BY <1>4, <2>1, <2>2
  <2>4. f[n] = a \o p
    BY <1>3, <2>1
  <2>5. Makes(C, a \o p, t, u + 15 * Len(p), Cat(x, types[n])) /\ Len(a \o p) = Len(a) + Len(p)
    BY ONLY Slash \in C, <2>2, <2>3, MakesBoth
  <2>6. \A i \in 1 .. k + 1 : types[i] \in Seq(Saids(C))
    BY <1>5, <2>2
  <2>7. FlattenSeq(Firsts(types, k + 1)) = Cat(x, types[k + 1])
    BY ONLY <2>1, <2>2, <2>6, FlattenNext
  <2>8. Len(f[n]) \in Nat /\ t + 15 * Len(f[n]) = u + 15 * Len(p)
    <3>1. PICK y, z, v : y = Len(a) /\ z = Len(p) /\ v = Len(f[n])
      OBVIOUS
    <3>2. y \in Nat /\ z \in Nat /\ u = t + 15 * y /\ v = y + z
      BY <2>1, <2>2, <2>3, <2>4, <2>5, <3>1
    <3>3. v \in Nat /\ t + 15 * v = u + 15 * z
      BY ONLY t \in Nat, <3>2
    <3> QED
      BY <3>1, <3>3
  <2> QED
    BY <2>2, <2>4, <2>5, <2>7, <2>8
<1>8. Right(m)
  <2> HIDE DEF Right
  <2> DEFINE Bad == {n \in 0 .. m : ~Right(n)}
  <2>1. Bad = {}
    <3> SUFFICES ASSUME Bad # {} PROVE FALSE
      OBVIOUS
    <3>1. Bad \in SUBSET Nat
      OBVIOUS
    <3>2. PICK n \in Bad : \A i \in Bad : n <= i
      <4> HIDE DEF Bad
      <4> QED
        BY <3>1, Least
    <3>3. n \in 0 .. m /\ ~Right(n)
      OBVIOUS
    <3>4. n # 0
      BY <1>6, <3>3
    <3>5. n \in 1 .. m /\ n - 1 \in 0 .. m /\ ~(n <= n - 1)
      BY <3>3, <3>4
    <3>6. Right(n - 1)
      BY <3>2, <3>5
    <3> QED
      BY <1>7, <3>3, <3>5, <3>6
  <2>2. m \in 0 .. m
    OBVIOUS
  <2> QED
    BY <2>1, <2>2
<1>9. Firsts(types, m) = types
  BY <1>1 DEF Firsts
<1> QED
  BY <1>3, <1>8, <1>9

LEMMA AddMakes ==
  ASSUME NEW C, Slash \in C, Enter \in C, NEW command \in Seq(Seq(C)), NEW from,
         NEW acc, NEW x, Makes(C, acc.out, from, acc.t, x), acc.gap \in Nat, NEW next,
         next = AddCommand(acc, command)
  PROVE  Makes(C, next.out, from, next.t, Cat(x, CommandTypes(command))) /\ next.gap \in Nat
<1>1. PICK t, out, body, enter, s, types, F, E :
        /\ t = acc.t /\ out = acc.out /\ body = CommandSteps(t, command)
        /\ enter = t + 15 * Len(body) /\ s = Text(enter, <<Enter>>)
        /\ types = [i \in 1 .. Len(command) |-> PartTypes(command[i], i = 1)]
        /\ F = FlattenSeq(types) /\ E = <<Key(Enter, {}, First)>>
  OBVIOUS
<1>2. next.t = enter + acc.gap /\ next.gap = acc.gap /\ next.out = Append(out \o body, s)
  BY <1>1 DEF AddCommand
<1>3. CommandTypes(command) = Cat(F, E)
  BY <1>1 DEF CommandTypes, PartTypes, Cat
<1>4. Makes(C, out, from, t, x) /\ t \in Nat
  BY <1>1 DEF Makes, SetApart
<1>5. Len(body) \in Nat /\ Makes(C, body, t, enter, F) /\ enter \in Nat
  <2>1. Len(body) \in Nat /\ Makes(C, body, t, t + 15 * Len(body), FlattenSeq(types))
    BY <1>1, <1>4, CommandMakes
  <2> QED
    BY <1>1, <1>4, <2>1
<1>6. Makes(C, out \o body, from, enter, Cat(x, F))
  BY ONLY Slash \in C, <1>4, <1>5, MakesBoth
<1>7. s \in MadeSteps(C) /\ s.at = enter /\ Saying(s) = E
  <2>1. s.at = enter /\ s.mod = "=" /\ s.what = <<Enter>>
    BY <1>1 DEF Text
  <2>2. s \in MadeSteps(C)
    BY <1>1, <1>5 DEF Text, MadeSteps
  <2>3. Saying(s) = Characters(<<Enter>>, First)
    BY <2>1 DEF Saying, StepTypes
  <2>4. Characters(<<Enter>>, First) = E
    <3>1. PICK w, c : w = <<Enter>> /\ c = [i \in 1 .. 1 |-> Key(w[i], {}, First)]
      OBVIOUS
    <3>2. Len(w) = 1 /\ w[1] = Enter
      BY <3>1
    <3>3. c \in [1 .. 1 -> {Key(Enter, {}, First)}]
      BY <3>1, <3>2
    <3>4. c \in Seq({Key(Enter, {}, First)}) /\ Len(c) = 1
      BY <3>3, FcnIsSeq
    <3>5. E \in Seq({Key(Enter, {}, First)}) /\ Len(E) = 1 /\ E[1] = c[1]
      BY <1>1, <3>1, <3>2
    <3>6. c = E
      BY <3>4, <3>5, SameSeq
    <3> QED
      BY <3>1, <3>2, <3>6 DEF Characters
  <2> QED
    BY <2>1, <2>2, <2>3, <2>4
<1>8. Makes(C, <<s>>, enter, next.t, E)
  <2>1. s.what = <<Enter>>
    BY <1>1 DEF Text
  <2>2. next.t \in Nat /\ s.at <= next.t
    BY <1>2, <1>5, <1>7
  <2>3. Makes(C, <<s>>, s.at, next.t, Saying(s))
    BY ONLY Slash \in C, <1>7, <2>1, <2>2, MakesEnter
  <2> QED
    BY <1>7, <2>3
<1>9. Makes(C, (out \o body) \o <<s>>, from, next.t, Cat(Cat(x, F), E))
  BY ONLY Slash \in C, <1>6, <1>8, MakesBoth
<1>10. next.out = (out \o body) \o <<s>>
  <2>1. PICK a : a = out \o body
    OBVIOUS
  <2>2. a \in Seq(MadeSteps(C))
    BY <1>6, <2>1 DEF Makes
  <2> QED
    BY <1>2, <1>7, <2>1, <2>2, AppendIsConcat
<1>11. Cat(Cat(x, F), E) = Cat(x, Cat(F, E))
  <2>1. x \in Seq(Saids(C)) /\ F \in Seq(Saids(C)) /\ E \in Seq(Saids(C))
    BY <1>4, <1>5, <1>7, SayingsAre, SayingIs DEF Makes
  <2> QED
    BY ONLY <2>1, Bracket
<1> QED
  BY <1>2, <1>3, <1>9, <1>10, <1>11

\* An argument adds what it says, or sets the gap.
LEMMA ArgumentMakes ==
  ASSUME NEW C, Slash \in C, Enter \in C, NEW argument \in Seq(Seq(C)), NEW from,
         NEW acc, NEW x, Makes(C, acc.out, from, acc.t, x), acc.gap \in Nat, NEW next,
         next = AddArgument(acc, argument)
  PROVE  /\ Makes(C, next.out, from, next.t, Cat(x, ArgumentTypes(argument)))
         /\ next.gap \in Nat
<1>1. CASE IsGap(argument)
  <2>1. Len(argument) = 1
    BY <1>1 DEF IsGap
  <2>2. argument[1] \in Seq(C)
    BY <2>1, ElementOfSeq
  <2>3. Number(argument[1]) \in Nat
    BY <1>1, <2>2, LenProperties, NumberIs
  <2>4. next.t = acc.t /\ next.out = acc.out /\ next.gap = 10 * Number(argument[1])
    BY <1>1 DEF AddArgument
  <2>5. x \in Seq(Saids(C))
    BY SayingsAre DEF Makes
  <2>6. Cat(x, ArgumentTypes(argument)) = x
    BY <1>1, <2>5, EmptyIs DEF ArgumentTypes, Cat
  <2>7. next.gap \in Nat
    BY <2>3, <2>4
  <2> QED
    BY <2>4, <2>6, <2>7
<1>2. CASE ~IsGap(argument)
  <2>1. next = AddCommand(acc, argument) /\ ArgumentTypes(argument) = CommandTypes(argument)
    BY <1>2 DEF AddArgument, ArgumentTypes
  <2> QED
    BY <2>1, AddMakes
<1> QED
  BY <1>1, <1>2

\* mksteps.py writes steps that are so far apart and type what the arguments say.
LEMMA MkMakes ==
  ASSUME NEW C, Slash \in C, Enter \in C, NEW arguments \in Seq(Seq(Seq(C))), NEW at \in Nat
  PROVE  \E to : Makes(C, MkSteps(at, arguments), at, to, CommandsType(arguments))
<1>1. PICK m \in Nat : m = Len(arguments)
  BY LenProperties
<1>2. \A i \in 1 .. m : arguments[i] \in Seq(Seq(C))
  BY <1>1, ElementOfSeq
<1>3. PICK f : /\ f[0] = [t |-> at, gap |-> 120, out |-> <<>>]
               /\ \A n \in 1 .. m : f[n] = AddArgument(f[n - 1], arguments[n])
               /\ MkSteps(at, arguments) = Append(f[m].out, Text(f[m].t, <<>>))
  BY <1>1, AccIs
<1>4. PICK types : types = [k \in 1 .. m |-> ArgumentTypes(arguments[k])]
  OBVIOUS
<1> DEFINE Right(n) == /\ Makes(C, f[n].out, at, f[n].t, FlattenSeq(Firsts(types, n)))
                       /\ f[n].gap \in Nat
<1>5. \A n \in 1 .. m : types[n] \in Seq(Saids(C))
  <2> SUFFICES ASSUME NEW n \in 1 .. m PROVE types[n] \in Seq(Saids(C))
    OBVIOUS
  <2>1. PICK argument : argument = arguments[n] /\ argument \in Seq(Seq(C))
    BY <1>2
  <2>2. PICK types_, F, E : /\ types_ = [i \in 1 .. Len(argument) |-> PartTypes(argument[i], i = 1)]
                            /\ F = FlattenSeq(types_) /\ E = <<Key(Enter, {}, First)>>
    OBVIOUS
  <2>3. CommandTypes(argument) = Cat(F, E)
    BY <2>2 DEF CommandTypes, PartTypes, Cat
  <2>4. F \in Seq(Saids(C)) /\ E \in Seq(Saids(C))
    <3>1. PICK body : body = CommandSteps(at, argument)
      OBVIOUS
    <3>2. Makes(C, body, at, at + 15 * Len(body), FlattenSeq(types_))
      BY <2>1, <2>2, <3>1, CommandMakes
    <3>3. Key(Enter, {}, First) \in Saids(C)
      BY DEF Saids
    <3> QED
      BY <2>2, <3>2, <3>3, SayingsAre DEF Makes
  <2>5. CommandTypes(argument) \in Seq(Saids(C))
    BY <2>3, <2>4, Joined
  <2>6. <<>> \in Seq(Saids(C))
    BY EmptySeq
  <2> QED
    BY <1>4, <2>1, <2>5, <2>6 DEF ArgumentTypes
<1>6. Right(0)
  <2>1. f[0].out = <<>> /\ f[0].t = at /\ f[0].gap \in Nat
    BY <1>3
  <2>2. Firsts(types, 0) \in [1 .. 0 -> Seq(Saids(C))]
    BY DEF Firsts
  <2>3. FlattenSeq(Firsts(types, 0)) = <<>>
    BY <2>2, FlattenNone
  <2> QED
    BY <2>1, <2>3, MakesNothing
<1>7. ASSUME NEW n \in 1 .. m, Right(n - 1)
      PROVE  Right(n)
  <2>1. PICK k, acc, x, argument, next :
          /\ k = n - 1 /\ acc = f[k] /\ x = FlattenSeq(Firsts(types, k))
          /\ argument = arguments[n] /\ next = AddArgument(acc, argument)
    OBVIOUS
  <2>2. k \in Nat /\ n = k + 1 /\ argument \in Seq(Seq(C))
        /\ Makes(C, acc.out, at, acc.t, x) /\ acc.gap \in Nat
    BY <1>2, <1>7, <2>1
  <2>3. Makes(C, next.out, at, next.t, Cat(x, ArgumentTypes(argument))) /\ next.gap \in Nat
    BY ONLY Slash \in C, Enter \in C, <2>1, <2>2, ArgumentMakes
  <2>4. f[n] = next /\ types[n] = ArgumentTypes(argument)
    BY <1>3, <1>4, <2>1
  <2>5. \A i \in 1 .. k + 1 : types[i] \in Seq(Saids(C))
    BY <1>5, <2>2
  <2>6. FlattenSeq(Firsts(types, k + 1)) = Cat(x, types[k + 1])
    BY ONLY <2>1, <2>2, <2>5, FlattenNext
  <2> QED
    BY <2>2, <2>3, <2>4, <2>6
<1>8. Right(m)
  <2> HIDE DEF Right
  <2> DEFINE Bad == {n \in 0 .. m : ~Right(n)}
  <2>1. Bad = {}
    <3> SUFFICES ASSUME Bad # {} PROVE FALSE
      OBVIOUS
    <3>1. Bad \in SUBSET Nat
      OBVIOUS
    <3>2. PICK n \in Bad : \A i \in Bad : n <= i
      <4> HIDE DEF Bad
      <4> QED
        BY <3>1, Least
    <3>3. n \in 0 .. m /\ ~Right(n)
      OBVIOUS
    <3>4. n # 0
      BY <1>6, <3>3
    <3>5. n \in 1 .. m /\ n - 1 \in 0 .. m /\ ~(n <= n - 1)
      BY <3>3, <3>4
    <3>6. Right(n - 1)
      BY <3>2, <3>5
    <3> QED
      BY <1>7, <3>3, <3>5, <3>6
  <2>2. m \in 0 .. m
    OBVIOUS
  <2> QED
    BY <2>1, <2>2
<1>9. FlattenSeq(Firsts(types, m)) = CommandsType(arguments)
  BY <1>1, <1>4 DEF Firsts, CommandsType
<1>10. PICK out, t, x, s : /\ out = f[m].out /\ t = f[m].t /\ x = CommandsType(arguments)
                           /\ s = Text(t, <<>>)
  OBVIOUS
<1>11. Makes(C, out, at, t, x) /\ t \in Nat
  BY <1>8, <1>9, <1>10 DEF Makes, SetApart
<1>12. s \in MadeSteps(C) /\ s.at = t /\ Saying(s) = <<>>
  <2>1. s.at = t /\ s.mod = "=" /\ s.what = <<>>
    BY <1>10 DEF Text
  <2>2. <<>> \in Seq(C)
    BY EmptySeq
  <2>3. s \in MadeSteps(C)
    BY <1>10, <1>11, <2>2 DEF Text, MadeSteps
  <2>4. Saying(s) = Characters(<<>>, First)
    BY <2>1 DEF Saying, StepTypes
  <2> QED
    BY <2>1, <2>3, <2>4, NoCharacters
<1>13. Makes(C, <<s>>, t, t + 15, <<>>)
  BY <1>12, MakesOne
<1>14. Makes(C, out \o <<s>>, at, t + 15, Cat(x, <<>>))
  BY ONLY Slash \in C, <1>11, <1>13, MakesBoth
<1>15. MkSteps(at, arguments) = out \o <<s>>
  <2>1. out \in Seq(MadeSteps(C))
    BY <1>11 DEF Makes
  <2> QED
    BY <1>3, <1>10, <1>12, <2>1, AppendIsConcat
<1>16. Cat(x, <<>>) = x
  <2>1. x \in Seq(Saids(C))
    BY <1>11, SayingsAre DEF Makes
  <2> QED
    BY <2>1, EmptyIs DEF Cat
<1> QED
  BY <1>10, <1>14, <1>15, <1>16

\* Arguments are made of characters.
LEMMA CommandsAre ==
  ASSUME NEW arguments \in Commands
  PROVE  \E C : Slash \in C /\ Enter \in C /\ arguments \in Seq(Seq(Seq(C)))
<1>1. PICK R : R = Range(arguments)
  OBVIOUS
<1>2. /\ arguments \in Seq(R)
      /\ \A argument \in R : /\ argument \in Seq(Range(argument))
                            /\ \A part \in Range(argument) : part \in Seq(Range(part))
  BY <1>1, CommandsSound
<1>3. PICK C : C = {Slash, Enter} \cup UNION {UNION {Range(part) : part \in Range(argument)} : argument \in R}
  OBVIOUS
<1>4. ASSUME NEW argument \in R
      PROVE  argument \in Seq(Seq(C))
  <2>1. ASSUME NEW part \in Range(argument)
        PROVE  part \in Seq(C)
    <3>1. Range(part) \subseteq C
      BY <1>3
    <3> QED
      BY <1>2, <3>1, SeqMonotonic
  <2>2. Range(argument) \subseteq Seq(C)
    BY <2>1
  <2> QED
    BY <1>2, <2>2, SeqMonotonic
<1>5. R \subseteq Seq(Seq(C))
  BY <1>4
<1>6. arguments \in Seq(Seq(Seq(C)))
  BY <1>2, <1>5, SeqMonotonic
<1> QED
  BY <1>3, <1>6

\* The script of a run of mksteps.py.
LEMMA MkTimed ==
  ASSUME NEW arguments \in Commands
  PROVE  \E C, to : Slash \in C /\ Makes(C, MkSteps(10, arguments), 10, to, CommandsType(arguments))
<1>1. PICK C : Slash \in C /\ Enter \in C /\ arguments \in Seq(Seq(Seq(C)))
  BY CommandsAre
<1> QED
  BY <1>1, MkMakes

LEMMA MadeTimed ==
  ASSUME NEW C, NEW script, NEW from, NEW to, NEW typed, Makes(C, script, from, to, typed)
  PROVE  Len(script) \in Nat /\ \A k \in 1 .. Len(script) : script[k] \in MadeSteps(C)
<1>1. script \in Seq(MadeSteps(C))
  BY DEF Makes
<1> QED
  BY <1>1, LenProperties, ElementOfSeq

AllEvents == Events(steps, driver)

\* The release of what an event presses: later, and of the same step.
Releases(u, e) ==
  u.kind = "up" /\ u.step = e.step /\ u.field[1] = e.field[1] /\ e.at < u.at

Paired(events) ==
  /\ \A e \in events : e.at \in Nat
  /\ \A e \in events : e.kind = "down" => \E u \in events : Releases(u, e)

LEMMA StepPaired ==
  ASSUME NEW s, NEW k, s.at \in Nat
  PROVE  Paired(EventsOf(s, k))
<1>1. CASE s.mod = "!" \/ s.mod = "="
  BY <1>1 DEF EventsOf, Event, Paired, Releases
<1>2. CASE s.mod # "!" /\ s.mod # "="
  <2> DEFINE keyDown == Event(k, s.at + 2, "down", s.what)
  <2> DEFINE keyUp   == Event(k, s.at + 5, "up", s.what)
  <2> DEFINE modDown == Event(k, s.at, "down", <<s.mod>>)
  <2> DEFINE modUp   == Event(k, s.at + 7, "up", <<s.mod>>)
  <2>1. Releases(keyUp, keyDown) /\ Releases(modUp, modDown)
    BY DEF Event, Releases
  <2>2. /\ keyDown.at \in Nat /\ keyUp.at \in Nat /\ modDown.at \in Nat /\ modUp.at \in Nat
        /\ keyUp.kind # "down" /\ modUp.kind # "down"
    BY DEF Event
  <2>3. EventsOf(s, k) = {keyDown, keyUp} \cup IF s.mod \in Modifiers THEN {modDown, modUp} ELSE {}
    BY <1>2 DEF EventsOf
  <2> HIDE DEF keyDown, keyUp, modDown, modUp
  <2> QED
    BY <2>1, <2>2, <2>3 DEF Paired
<1> QED
  BY <1>1, <1>2

LEMMA SchedulePaired ==
  ASSUME NEW s, NEW k, s.at \in Nat, s.how \in {"followup", "typing", "chord", "swap"},
         DOMAIN s.what \subseteq Nat \ {0}
  PROVE  Paired(ScheduleEvents(s, k))
<1>1. CASE s.how = "followup"
  <2> DEFINE first(i)   == Event(k, s.at + 4 * i - 4,
                                 IF s.what[i].upper THEN "down" ELSE "up", <<"%">>)
  <2> DEFINE keyDown(i) == Event(k, s.at + 4 * i - 3, "down", <<s.what[i].key>>)
  <2> DEFINE keyUp(i)   == Event(k, s.at + 4 * i - 2, "up", <<s.what[i].key>>)
  <2> DEFINE final(i)   == Event(k, s.at + 4 * i - 1, "up", <<"%">>)
  <2>1. ASSUME NEW i \in DOMAIN s.what
        PROVE  /\ Releases(keyUp(i), keyDown(i)) /\ Releases(final(i), first(i))
               /\ first(i).at \in Nat /\ keyDown(i).at \in Nat
               /\ keyUp(i).at \in Nat /\ final(i).at \in Nat
               /\ keyUp(i).kind # "down" /\ final(i).kind # "down"
    BY DEF Event, Releases
  <2>2. ScheduleEvents(s, k) =
          UNION {{first(i), keyDown(i), keyUp(i), final(i)} : i \in DOMAIN s.what}
    BY <1>1 DEF ScheduleEvents
  <2> HIDE DEF first, keyDown, keyUp, final
  <2> QED
    BY <2>1, <2>2 DEF Paired
<1>2. CASE s.how = "typing"
  <2> DEFINE keyDown(i) == Event(k, s.at + 4 * i - 4, "down", <<s.what[i].key>>)
  <2> DEFINE keyUp(i)   == Event(k, s.at + 4 * i - 2, "up", <<s.what[i].key>>)
  <2>1. ASSUME NEW i \in DOMAIN s.what
        PROVE  /\ Releases(keyUp(i), keyDown(i))
               /\ keyDown(i).at \in Nat /\ keyUp(i).at \in Nat /\ keyUp(i).kind # "down"
    BY DEF Event, Releases
  <2>2. ScheduleEvents(s, k) = UNION {{keyDown(i), keyUp(i)} : i \in DOMAIN s.what}
    BY <1>2 DEF ScheduleEvents
  <2> HIDE DEF keyDown, keyUp
  <2> QED
    BY <2>1, <2>2 DEF Paired
<1>3. CASE s.how = "chord"
  <2> DEFINE ctrlDown == Event(k, s.at, "down", <<"^">>)
  <2> DEFINE keyDown  == Event(k, s.at + 2, "down", <<"j">>)
  <2> DEFINE keyUp    == Event(k, s.at + 4, "up", <<"j">>)
  <2> DEFINE ctrlUp   == Event(k, s.at + 6, "up", <<"^">>)
  <2>1. /\ Releases(keyUp, keyDown) /\ Releases(ctrlUp, ctrlDown)
        /\ ctrlDown.at \in Nat /\ keyDown.at \in Nat /\ keyUp.at \in Nat /\ ctrlUp.at \in Nat
        /\ keyUp.kind # "down" /\ ctrlUp.kind # "down"
    BY DEF Event, Releases
  <2>2. ScheduleEvents(s, k) = {ctrlDown, keyDown, keyUp, ctrlUp}
    BY <1>3 DEF ScheduleEvents
  <2> HIDE DEF ctrlDown, keyDown, keyUp, ctrlUp
  <2> QED
    BY <2>1, <2>2 DEF Paired
<1>4. CASE s.how = "swap"
  <2> DEFINE out     == Event(k, s.at, "load", <<"none">>)
  <2> DEFINE in      == Event(k, s.at + 20, "load", <<"run">>)
  <2> DEFINE keyDown == Event(k, s.at + 50, "down", <<Enter>>)
  <2> DEFINE keyUp   == Event(k, s.at + 52, "up", <<Enter>>)
  <2>1. /\ Releases(keyUp, keyDown)
        /\ out.at \in Nat /\ in.at \in Nat /\ keyDown.at \in Nat /\ keyUp.at \in Nat
        /\ out.kind # "down" /\ in.kind # "down" /\ keyUp.kind # "down"
    BY DEF Event, Releases
  <2>2. ScheduleEvents(s, k) = {out, in, keyDown, keyUp}
    BY <1>4 DEF ScheduleEvents
  <2> HIDE DEF out, in, keyDown, keyUp
  <2> QED
    BY <2>1, <2>2 DEF Paired
<1> QED
  BY <1>1, <1>2, <1>3, <1>4

LEMMA InitPaired == Init => Paired(AllEvents) /\ now \in Nat
<1> SUFFICES ASSUME Init PROVE Paired(AllEvents) /\ now \in Nat
  OBVIOUS
<1>1. ASSUME driver # "schedules", \A k \in 1 .. Len(steps) : steps[k].at \in Nat
      PROVE  Paired(AllEvents)
  <2>1. AllEvents = UNION {EventsOf(steps[k], k) : k \in 1 .. Len(steps)}
    BY <1>1 DEF AllEvents, Events, Schedule
  <2>2. \A k \in 1 .. Len(steps) : Paired(EventsOf(steps[k], k))
    BY <1>1, StepPaired
  <2> QED
    BY <2>1, <2>2 DEF Paired
<1>2. ASSUME NEW run \in Schedules, steps = run.steps, driver = "schedules"
      PROVE  Paired(AllEvents)
  <2>1. AllEvents = UNION {ScheduleEvents(steps[k], k) : k \in DOMAIN steps}
    BY <1>2 DEF AllEvents, Events
  <2>2. \A k \in DOMAIN steps : Paired(ScheduleEvents(steps[k], k))
    BY <1>2, SchedulePaired, ScriptsTimed
  <2> QED
    BY <2>1, <2>2 DEF Paired
<1>3. now \in Nat
  BY RunsTimed DEF Init
<1>4. CASE \E run \in Runs : steps = run.steps /\ driver = "author"
  <2>1. PICK run \in Runs : steps = run.steps /\ driver = "author"
    BY <1>4
  <2>2. \A k \in 1 .. Len(steps) : steps[k].at \in Nat
    BY <2>1, ScriptsTimed
  <2> QED
    BY <1>1, <1>3, <2>1, <2>2
<1>5. CASE \E arguments \in Commands : steps = MkSteps(10, arguments) /\ driver = "mksteps"
  <2>1. PICK arguments \in Commands : steps = MkSteps(10, arguments) /\ driver = "mksteps"
    BY <1>5
  <2>2. PICK C, to : Makes(C, steps, 10, to, CommandsType(arguments))
    BY <2>1, MkTimed
  <2>3. \A k \in 1 .. Len(steps) : steps[k].at \in Nat
    BY <2>2, MadeTimed DEF MadeSteps
  <2> QED
    BY <1>1, <1>3, <2>1, <2>3
<1>6. CASE \E run \in Schedules : steps = run.steps /\ driver = "schedules"
  BY <1>2, <1>3, <1>6
<1> QED
  BY <1>3, <1>4, <1>5, <1>6 DEF Init

\* What was run of a step comes before what was not, and everything that is down
\* still has its release before it.
IInv ==
  /\ now \in Nat
  /\ Paired(AllEvents)
  /\ todo \subseteq AllEvents
  /\ \A e \in AllEvents \ todo, f \in todo : e.step = f.step => e.at <= f.at
  /\ \A x \in down : \E u \in todo : u.kind = "up" /\ u.field[1] = x

LEMMA InitIInv == Init => IInv
<1> SUFFICES ASSUME Init PROVE IInv
  OBVIOUS
<1>1. todo = AllEvents /\ down = {}
  BY DEF Init, AllEvents
<1> QED
  BY <1>1, InitPaired DEF IInv

\* The release of an event that is to be run is still to come after it.
LEMMA ReleaseIsToCome ==
  ASSUME IInv, NEW e \in todo, e.kind = "down"
  PROVE  \E u \in todo : Releases(u, e)
<1>1. PICK u \in AllEvents : Releases(u, e)
  BY DEF IInv, Paired
<1>2. u.at \in Nat /\ e.at \in Nat
  BY DEF IInv, Paired
<1>3. u \in todo
  BY <1>1, <1>2 DEF IInv, Releases
<1> QED
  BY <1>1, <1>3

\* Events that are the first of their steps among those that are due are run.
LEMMA OrderStays ==
  ASSUME IInv, NEW ran \in SUBSET Due, AllEvents' = AllEvents, todo' = todo \ ran,
         \A e \in ran, f \in Due : f.step = e.step => e.at <= f.at
  PROVE  /\ todo' \subseteq AllEvents'
         /\ \A e \in AllEvents' \ todo', f \in todo' : e.step = f.step => e.at <= f.at
<1>1. todo \subseteq AllEvents /\ Due \subseteq todo
  BY DEF IInv, Due
<1>2. ASSUME NEW e \in AllEvents \ todo', NEW f \in todo', e.step = f.step
      PROVE  e.at <= f.at
  <2>1. CASE e \notin todo
    BY <1>2, <2>1 DEF IInv
  <2>2. CASE e \in ran
    <3>1. e.at \in Nat /\ f.at \in Nat /\ now \in Nat /\ e.at <= now
      BY <1>1, <1>2, <2>2 DEF IInv, Paired, Due
    <3>2. CASE f \in Due
      BY <1>2, <2>2, <3>2
    <3>3. CASE f \notin Due
      BY <3>1, <3>3 DEF Due
    <3> QED
      BY <3>2, <3>3
  <2> QED
    BY <1>2, <2>1, <2>2
<1> QED
  BY <1>1, <1>2

LEMMA RunStep ==
  ASSUME IInv, NEW e \in Due, Run(e)
  PROVE  IInv'
<1>1. AllEvents' = AllEvents /\ now' = now
  BY DEF Run, AllEvents
<1>2. e \in todo /\ todo' = todo \ {e} /\ down' = Held(down, e)
  BY DEF Run, Due
<1>3. ASSUME NEW x \in down'
      PROVE  \E u \in todo' : u.kind = "up" /\ u.field[1] = x
  <2>1. CASE e.kind = "down" /\ x = e.field[1]
    <3>1. PICK u \in todo : Releases(u, e)
      BY <1>2, <2>1, ReleaseIsToCome
    <3>2. u # e
      BY <2>1, <3>1 DEF Releases
    <3> QED
      BY <1>2, <2>1, <3>1, <3>2 DEF Releases
  <2>2. CASE x \in down /\ ~(e.kind = "up" /\ x = e.field[1])
    BY <1>2, <2>2 DEF IInv
  <2> QED
    BY <1>2, <1>3, <2>1, <2>2 DEF Held
<1>4. {e} \in SUBSET Due /\ \A d \in {e}, f \in Due : f.step = d.step => d.at <= f.at
  BY DEF Run
<1> QED
  BY <1>1, <1>2, <1>3, <1>4, OrderStays DEF IInv

LEMMA FrameStep ==
  ASSUME IInv, Frame
  PROVE  IInv'
<1>1. /\ AllEvents' = AllEvents /\ todo' = todo /\ down' = down /\ now' = now + 1
  BY DEF Frame, Machine, AllEvents
<1> QED
  BY <1>1 DEF IInv

LEMMA InTurnStep ==
  ASSUME IInv, InTurn
  PROVE  IInv'
<1> DEFINE ran == {e \in Due : \A f \in Due : f.step = e.step => e.at <= f.at}
<1> DEFINE touching(x) == {e \in ran : e.kind \in {"down", "up"} /\ e.field[1] = x}
<1>1. /\ AllEvents' = AllEvents /\ now' = now + 1
      /\ todo' = todo \ ran /\ down' = HeldAfter(down, ran)
  BY DEF InTurn, Machine, AllEvents
<1>2. ASSUME NEW x \in down'
      PROVE  \E u \in todo' : u.kind = "up" /\ u.field[1] = x
  <2>1. IF touching(x) = {} THEN x \in down ELSE \E e \in touching(x) : e.kind = "down"
    BY <1>1, <1>2 DEF HeldAfter
  <2>2. CASE touching(x) = {}
    <3>1. PICK u \in todo : u.kind = "up" /\ u.field[1] = x
      BY <2>1, <2>2 DEF IInv
    <3>2. u \notin ran
      BY <2>2, <3>1
    <3> QED
      BY <1>1, <3>1, <3>2
  <2>3. CASE touching(x) # {}
    <3>1. PICK e \in touching(x) : e.kind = "down"
      BY <2>1, <2>3
    <3>2. e \in Due /\ e \in todo /\ e.field[1] = x
      BY DEF Due
    <3>3. PICK u \in todo : Releases(u, e)
      BY <3>1, <3>2, ReleaseIsToCome
    <3>4. u.at \in Nat /\ e.at \in Nat
      BY <3>2, <3>3 DEF IInv, Paired
    <3>5. u \notin ran
      BY <3>2, <3>3, <3>4 DEF Releases
    <3> QED
      BY <1>1, <3>2, <3>3, <3>5 DEF Releases
  <2> QED
    BY <2>2, <2>3
<1>3. ran \in SUBSET Due /\ \A e \in ran, f \in Due : f.step = e.step => e.at <= f.at
  OBVIOUS
<1> HIDE DEF ran
<1> QED
  BY <1>1, <1>2, <1>3, OrderStays DEF IInv

LEMMA NextStep == IInv /\ [Next]_vars => IInv'
<1> SUFFICES ASSUME IInv, [Next]_vars PROVE IInv'
  OBVIOUS
<1>1. CASE UNCHANGED vars
  BY <1>1 DEF vars, IInv, AllEvents
<1> QED
  BY <1>1, RunStep, FrameStep, InTurnStep DEF Next, FrameDone

\* However closely the steps of a script or the schedules of an observer follow
\* each other, and wherever the run begins, no key stays down at the end.
THEOREM NoKeyStaysDown == Spec => []NoKeyStuck
<1>1. IInv => NoKeyStuck
  BY DEF IInv, NoKeyStuck
<1> QED
  BY <1>1, InitIInv, NextStep, PTL DEF Spec
------------------------------------------------------------------------------
(* Types.                                                                   *)

LEMMA ConcatIs ==
  ASSUME NEW s, NEW t, IsSeq(s), IsSeq(t)
  PROVE  /\ IsSeq(s \o t) /\ DOMAIN (s \o t) = 1 .. Len(s) + Len(t)
         /\ \A i \in 1 .. Len(s) + Len(t) :
              (s \o t)[i] = IF i <= Len(s) THEN s[i] ELSE t[i - Len(s)]
<1>1. PICK S : S = {s[i] : i \in 1 .. Len(s)} \cup {t[i] : i \in 1 .. Len(t)}
  OBVIOUS
<1>2. s \in Seq(S) /\ t \in Seq(S) /\ Len(s) \in Nat /\ Len(t) \in Nat
  <2>1. /\ s \in [1 .. Len(s) -> {s[i] : i \in 1 .. Len(s)}] /\ Len(s) \in Nat
        /\ t \in [1 .. Len(t) -> {t[i] : i \in 1 .. Len(t)}] /\ Len(t) \in Nat
    BY LenProperties DEF IsSeq
  <2>2. s \in [1 .. Len(s) -> S] /\ t \in [1 .. Len(t) -> S]
    BY <1>1, <2>1
  <2> QED
    BY <2>1, <2>2
<1>3. /\ s \o t \in Seq(S) /\ Len(s \o t) = Len(s) + Len(t)
      /\ \A i \in 1 .. Len(s) + Len(t) :
           (s \o t)[i] = IF i <= Len(s) THEN s[i] ELSE t[i - Len(s)]
  BY <1>2, ConcatProperties
<1>4. IsSeq(s \o t) /\ DOMAIN (s \o t) = 1 .. Len(s \o t)
  BY <1>3, SeqIs
<1> QED
  BY <1>3, <1>4

LEMMA FiniteUnion ==
  ASSUME NEW f, IsFiniteSet(DOMAIN f), \A k \in DOMAIN f : IsFiniteSet(f[k])
  PROVE  IsFiniteSet(UNION {f[k] : k \in DOMAIN f})
<1>1. PICK D, T, g : D = DOMAIN f /\ T = {f[k] : k \in DOMAIN f} /\ g = [k \in D |-> f[k]]
  OBVIOUS
<1>2. g \in Surjection(D, T)
  BY <1>1 DEF Surjection
<1>3. IsFiniteSet(T)
  BY <1>1, <1>2, FS_Surjection
<1> QED
  BY <1>1, <1>3, FS_UNION

LEMMA FiniteFour ==
  ASSUME NEW a, NEW b, NEW c, NEW d
  PROVE  IsFiniteSet({a, b, c, d})
<1>1. IsFiniteSet({a} \cup {b})
  BY FS_Singleton, FS_AddElement
<1>2. IsFiniteSet(({a} \cup {b}) \cup {c})
  BY <1>1, FS_AddElement
<1>3. IsFiniteSet((({a} \cup {b}) \cup {c}) \cup {d})
  BY <1>2, FS_AddElement
<1>4. {a, b, c, d} = (({a} \cup {b}) \cup {c}) \cup {d}
  OBVIOUS
<1> QED
  BY <1>3, <1>4

LEMMA FiniteTwo ==
  ASSUME NEW a, NEW b
  PROVE  IsFiniteSet({a, b})
<1>1. {a, b} = {a, b, a, b}
  OBVIOUS
<1>2. IsFiniteSet({a, b, a, b})
  BY FiniteFour
<1> QED
  BY <1>1, <1>2

LEMMA StepFinite ==
  ASSUME NEW s, NEW k
  PROVE  IsFiniteSet(EventsOf(s, k))
<1>1. \E a, b, c, d : EventsOf(s, k) \in SUBSET {a, b, c, d}
  <2>1. CASE s.mod = "!"
    BY <2>1 DEF EventsOf
  <2>2. CASE s.mod # "!" /\ s.mod = "="
    BY <2>2 DEF EventsOf
  <2>3. CASE s.mod # "!" /\ s.mod # "="
    <3>1. PICK a, b, c, d : /\ a = Event(k, s.at + 2, "down", s.what)
                            /\ b = Event(k, s.at + 5, "up", s.what)
                            /\ c = Event(k, s.at, "down", <<s.mod>>)
                            /\ d = Event(k, s.at + 7, "up", <<s.mod>>)
      OBVIOUS
    <3>2. EventsOf(s, k) = {a, b} \cup (IF s.mod \in Modifiers THEN {c, d} ELSE {})
      BY <2>3, <3>1 DEF EventsOf
    <3>3. EventsOf(s, k) \in SUBSET {a, b, c, d}
      BY <3>2
    <3> QED
      BY <3>3
  <2> QED
    BY <2>1, <2>2, <2>3
<1> QED
  BY <1>1, FiniteFour, FS_Subset

LEMMA ScheduleFinite ==
  ASSUME NEW s, NEW k, s.how \in {"followup", "typing", "chord", "swap"},
         IsFiniteSet(DOMAIN s.what)
  PROVE  IsFiniteSet(ScheduleEvents(s, k))
<1>1. CASE s.how = "followup"
  <2>1. PICK f : f = [i \in DOMAIN s.what |->
          {Event(k, s.at + 4 * i - 4, IF s.what[i].upper THEN "down" ELSE "up", <<"%">>),
           Event(k, s.at + 4 * i - 3, "down", <<s.what[i].key>>),
           Event(k, s.at + 4 * i - 2, "up", <<s.what[i].key>>),
           Event(k, s.at + 4 * i - 1, "up", <<"%">>)}]
    OBVIOUS
  <2>2. ScheduleEvents(s, k) = UNION {f[i] : i \in DOMAIN f}
    BY <1>1, <2>1 DEF ScheduleEvents
  <2>3. DOMAIN f = DOMAIN s.what /\ \A i \in DOMAIN f : IsFiniteSet(f[i])
    BY <2>1, FiniteFour
  <2> QED
    BY <2>2, <2>3, FiniteUnion
<1>2. CASE s.how = "typing"
  <2>1. PICK f : f = [i \in DOMAIN s.what |->
          {Event(k, s.at + 4 * i - 4, "down", <<s.what[i].key>>),
           Event(k, s.at + 4 * i - 2, "up", <<s.what[i].key>>)}]
    OBVIOUS
  <2>2. ScheduleEvents(s, k) = UNION {f[i] : i \in DOMAIN f}
    BY <1>2, <2>1 DEF ScheduleEvents
  <2>3. DOMAIN f = DOMAIN s.what /\ \A i \in DOMAIN f : IsFiniteSet(f[i])
    BY <2>1, FiniteTwo
  <2> QED
    BY <2>2, <2>3, FiniteUnion
<1>3. CASE s.how = "chord"
  BY <1>3, FiniteFour DEF ScheduleEvents
<1>4. CASE s.how = "swap"
  BY <1>4, FiniteFour DEF ScheduleEvents
<1> QED
  BY <1>1, <1>2, <1>3, <1>4

LEMMA InitFinite == Init => IsFiniteSet(AllEvents)
<1> SUFFICES ASSUME Init PROVE IsFiniteSet(AllEvents)
  OBVIOUS
<1>1. ASSUME driver # "schedules", Len(steps) \in Nat
      PROVE  IsFiniteSet(AllEvents)
  <2>1. PICK f : f = [k \in 1 .. Len(steps) |-> EventsOf(steps[k], k)]
    OBVIOUS
  <2>2. AllEvents = UNION {f[k] : k \in DOMAIN f}
    BY <1>1, <2>1 DEF AllEvents, Events, Schedule
  <2>3. IsFiniteSet(DOMAIN f)
    BY <1>1, <2>1, FS_Interval
  <2>4. \A k \in DOMAIN f : IsFiniteSet(f[k])
    BY <2>1, StepFinite
  <2> QED
    BY <2>2, <2>3, <2>4, FiniteUnion
<1>2. ASSUME NEW run \in Schedules, steps = run.steps, driver = "schedules"
      PROVE  IsFiniteSet(AllEvents)
  <2>1. PICK f : f = [k \in DOMAIN steps |-> ScheduleEvents(steps[k], k)]
    OBVIOUS
  <2>2. AllEvents = UNION {f[k] : k \in DOMAIN f}
    BY <1>2, <2>1 DEF AllEvents, Events
  <2>3. IsFiniteSet(DOMAIN f)
    BY <1>2, <2>1, ScriptsTimed
  <2>4. \A k \in DOMAIN f : IsFiniteSet(f[k])
    <3>1. \A k \in DOMAIN steps : /\ steps[k].how \in {"followup", "typing", "chord", "swap"}
                                  /\ IsFiniteSet(DOMAIN steps[k].what)
      BY <1>2, ScriptsTimed
    <3> QED
      BY <2>1, <3>1, ScheduleFinite
  <2> QED
    BY <2>2, <2>3, <2>4, FiniteUnion
<1>3. ASSUME NEW run \in Runs, steps = run.steps
      PROVE  Len(steps) \in Nat
  BY <1>3, ScriptsTimed
<1>4. ASSUME NEW arguments \in Commands, steps = MkSteps(10, arguments)
      PROVE  Len(steps) \in Nat
  BY <1>4, MkTimed, MadeTimed
<1> QED
  BY <1>1, <1>2, <1>3, <1>4 DEF Init

\* The fields that a run presses at all.
Pressed == {e.field[1] : e \in {f \in AllEvents : f.kind = "down"}}

LEMMA PressedFinite ==
  ASSUME IsFiniteSet(AllEvents)
  PROVE  IsFiniteSet(Pressed)
<1>1. PICK D, g : D = {f \in AllEvents : f.kind = "down"} /\ g = [e \in D |-> e.field[1]]
  OBVIOUS
<1>2. IsFiniteSet(D)
  BY <1>1, FS_Subset
<1>3. g \in Surjection(D, Pressed)
  BY <1>1 DEF Pressed, Surjection
<1> QED
  BY <1>2, <1>3, FS_Surjection

TypedRight(typed) ==
  /\ IsSeq(typed) /\ DOMAIN typed = 1 .. Len(typed)
  /\ \A i \in DOMAIN typed : typed[i].mods \subseteq Modifiers

LEMMA EmptyRight == TypedRight(<<>>)
<1>1. PICK t : t = <<>>
  OBVIOUS
<1>2. t \in Seq({}) /\ Len(t) = 0
  BY <1>1, EmptySeq
<1>3. IsSeq(t) /\ DOMAIN t = 1 .. 0
  BY <1>2, SeqIs
<1>4. \A i \in DOMAIN t : t[i].mods \subseteq Modifiers
  BY <1>3
<1> QED
  BY <1>1, <1>2, <1>3, <1>4 DEF TypedRight

LEMMA TypedMore ==
  ASSUME NEW s, NEW t, TypedRight(s), TypedRight(t)
  PROVE  TypedRight(s \o t)
<1>1. Len(s) \in Nat /\ Len(t) \in Nat
  BY DEF TypedRight, IsSeq
<1>2. /\ IsSeq(s \o t) /\ DOMAIN (s \o t) = 1 .. Len(s) + Len(t)
      /\ \A i \in 1 .. Len(s) + Len(t) :
           (s \o t)[i] = IF i <= Len(s) THEN s[i] ELSE t[i - Len(s)]
  BY ConcatIs DEF TypedRight
<1>3. DOMAIN (s \o t) = 1 .. Len(s \o t)
  BY <1>2, SeqIs DEF IsSeq
<1>4. ASSUME NEW i \in DOMAIN (s \o t)
      PROVE  (s \o t)[i].mods \subseteq Modifiers
  <2>1. CASE i <= Len(s)
    <3>1. i \in DOMAIN s /\ (s \o t)[i] = s[i]
      BY <1>1, <1>2, <1>4, <2>1 DEF TypedRight
    <3> QED
      BY <3>1 DEF TypedRight
  <2>2. CASE ~(i <= Len(s))
    <3>1. i - Len(s) \in DOMAIN t /\ (s \o t)[i] = t[i - Len(s)]
      BY <1>1, <1>2, <1>4, <2>2 DEF TypedRight
    <3> QED
      BY <3>1 DEF TypedRight
  <2> QED
    BY <2>1, <2>2
<1> QED
  BY <1>2, <1>3, <1>4 DEF TypedRight

TInv ==
  /\ driver \in {"author", "mksteps", "schedules"}
  /\ IsFiniteSet(AllEvents)
  /\ todo \subseteq AllEvents
  /\ start \in Nat /\ end \in Nat /\ now \in Nat /\ start <= now /\ (now = start \/ now <= end)
  /\ down \subseteq Pressed
  /\ last \subseteq Pressed
  /\ busy \in 0 .. CharTime - 1
  /\ TypedRight(seen)

LEMMA InitTInv == Init => TInv
<1> SUFFICES ASSUME Init PROVE TInv
  OBVIOUS
<1>1. driver \in {"author", "mksteps", "schedules"} /\ start \in Nat /\ end \in Nat /\ now = start
  BY RunsTimed DEF Init
<1>2. todo = AllEvents /\ down = {} /\ last = {} /\ busy = 0 /\ seen = <<>>
  BY DEF Init, AllEvents
<1>3. TypedRight(<<>>)
  BY EmptyRight
<1>4. 0 \in 0 .. CharTime - 1
  BY RunsTimed
<1> QED
  BY <1>1, <1>2, <1>3, <1>4, InitFinite DEF TInv

\* What the machine types in a frame.
LEMMA KeysRight ==
  ASSUME NEW fields, IsFiniteSet(fields), NEW image, NEW order \in SetToSeqs(fields), NEW mods
  PROVE  TypedRight([i \in DOMAIN order |-> Key(order[i], mods \cap Modifiers, image)])
<1>1. PICK n : n = Cardinality(fields)
  OBVIOUS
<1>2. n \in Nat /\ DOMAIN order = 1 .. n
  BY <1>1, FS_CardinalityType DEF SetToSeqs
<1>3. PICK t : t = [i \in 1 .. n |-> Key(order[i], mods \cap Modifiers, image)]
  OBVIOUS
<1>4. t \in Seq({t[i] : i \in 1 .. n})
  <2>1. t \in [1 .. n -> {t[i] : i \in 1 .. n}]
    BY <1>3
  <2> QED
    BY <1>2, <2>1, SeqDef
<1>5. IsSeq(t) /\ DOMAIN t = 1 .. Len(t)
  BY <1>4, SeqIs
<1>6. \A i \in DOMAIN t : t[i].mods \subseteq Modifiers
  BY <1>3 DEF Key
<1> QED
  BY <1>2, <1>3, <1>5, <1>6 DEF TypedRight

LEMMA TextRight ==
  ASSUME NEW image
  PROVE  TypedRight(TypedText(image))
<1>1. TypedRight(<<>>)
  BY EmptyRight
<1>2. PICK t : t = <<Key(Head(queue), {}, image)>>
  OBVIOUS
<1>3. TypedRight(t)
  <2>1. t \in Seq({Key(Head(queue), {}, image)}) /\ DOMAIN t = {1} /\ t[1] = Key(Head(queue), {}, image)
    BY <1>2
  <2>2. IsSeq(t) /\ DOMAIN t = 1 .. Len(t)
    BY <2>1, SeqIs
  <2> QED
    BY <2>1, <2>2 DEF TypedRight, Key
<1> QED
  BY <1>1, <1>2, <1>3 DEF TypedText

LEMMA MachineTyped ==
  ASSUME TInv, NEW fields, fields \subseteq Pressed, NEW image, Machine(fields, image), now < end
  PROVE  /\ driver' = driver /\ AllEvents' = AllEvents /\ start' = start /\ end' = end
         /\ now' \in Nat /\ start <= now' /\ now' <= end
         /\ last' \subseteq Pressed /\ busy' \in 0 .. CharTime - 1 /\ TypedRight(seen')
<1>1. /\ driver' = driver /\ AllEvents' = AllEvents /\ start' = start /\ end' = end
      /\ now' = now + 1 /\ last' = fields
      /\ busy' = IF queue = <<>> \/ TypedText(image) # <<>> THEN 0 ELSE busy + 1
  BY DEF Machine, AllEvents
<1>2. busy' \in 0 .. CharTime - 1
  <2>1. busy \in 0 .. CharTime - 1 /\ CharTime \in Nat \ {0}
    BY RunsTimed DEF TInv
  <2>2. CASE queue = <<>> \/ TypedText(image) # <<>>
    BY <1>1, <2>1, <2>2
  <2>3. CASE queue # <<>> /\ TypedText(image) = <<>>
    <3>1. busy + 1 # CharTime
      BY <2>3 DEF TypedText
    <3> QED
      BY <1>1, <2>1, <2>3, <3>1
  <2> QED
    BY <2>2, <2>3
<1>3. TypedRight(seen')
  <2>1. PICK order \in SetToSeqs((fields \ last) \ Modifiers) :
          seen' = seen \o [i \in DOMAIN order |-> Key(order[i], fields \cap Modifiers, image)]
                       \o TypedText(image)
    BY DEF Machine
  <2>2. IsFiniteSet((fields \ last) \ Modifiers)
    <3>1. IsFiniteSet(Pressed)
      BY PressedFinite DEF TInv
    <3> QED
      BY <3>1, FS_Subset
  <2>3. PICK keys : keys = [i \in DOMAIN order |-> Key(order[i], fields \cap Modifiers, image)]
    OBVIOUS
  <2>4. TypedRight(keys)
    BY <2>2, <2>3, KeysRight
  <2>5. TypedRight(seen \o keys)
    BY <2>4, TypedMore DEF TInv
  <2> QED
    BY <2>1, <2>3, <2>5, TextRight, TypedMore
<1> QED
  BY <1>1, <1>2, <1>3 DEF TInv

LEMMA TInvStep == TInv /\ [Next]_vars => TInv'
<1> SUFFICES ASSUME TInv, [Next]_vars PROVE TInv'
  OBVIOUS
<1>1. ASSUME NEW e \in Due, Run(e)
      PROVE  TInv'
  <2>1. /\ AllEvents' = AllEvents /\ driver' = driver /\ start' = start /\ end' = end /\ now' = now
        /\ last' = last /\ busy' = busy /\ seen' = seen
        /\ todo' = todo \ {e} /\ down' = Held(down, e)
    BY <1>1 DEF Run, AllEvents
  <2>2. Pressed' = Pressed
    BY <2>1 DEF Pressed
  <2>3. e \in AllEvents
    BY DEF Due, TInv
  <2>4. down' \subseteq Pressed
    BY <2>1, <2>3 DEF TInv, Held, Pressed
  <2> QED
    BY <2>1, <2>2, <2>4 DEF TInv
<1>2. CASE Frame
  <2>1. Machine(down, disk) /\ now < end /\ todo' = todo /\ down' = down
    BY <1>2 DEF Frame
  <2>2. down \subseteq Pressed
    BY DEF TInv
  <2>3. /\ driver' = driver /\ AllEvents' = AllEvents /\ start' = start /\ end' = end
        /\ now' \in Nat /\ start <= now' /\ now' <= end
        /\ last' \subseteq Pressed /\ busy' \in 0 .. CharTime - 1 /\ TypedRight(seen')
    BY <2>1, <2>2, MachineTyped
  <2>4. Pressed' = Pressed
    BY <2>3 DEF Pressed
  <2> QED
    BY <2>1, <2>3, <2>4 DEF TInv
<1>3. CASE InTurn
  <2>1. PICK ran : ran = {e \in Due : \A f \in Due : f.step = e.step => e.at <= f.at}
    OBVIOUS
  <2>2. /\ Machine(down', disk') /\ now < end
        /\ todo' = todo \ ran /\ down' = HeldAfter(down, ran)
    BY <1>3, <2>1 DEF InTurn
  <2>3. ran \subseteq AllEvents
    BY <2>1 DEF Due, TInv
  <2>4. down' \subseteq Pressed
    <3> SUFFICES ASSUME NEW x \in HeldAfter(down, ran), x \notin down
                 PROVE  x \in Pressed
      BY <2>2 DEF TInv
    <3>1. PICK e \in ran : e.kind = "down" /\ e.field[1] = x
      BY DEF HeldAfter
    <3> QED
      BY <2>3, <3>1 DEF Pressed
  <2>5. PICK fields, image : fields = down' /\ image = disk'
    OBVIOUS
  <2>6. /\ driver' = driver /\ AllEvents' = AllEvents /\ start' = start /\ end' = end
        /\ now' \in Nat /\ start <= now' /\ now' <= end
        /\ last' \subseteq Pressed /\ busy' \in 0 .. CharTime - 1 /\ TypedRight(seen')
    BY <2>2, <2>4, MachineTyped
  <2>7. Pressed' = Pressed
    BY <2>6 DEF Pressed
  <2> QED
    BY <2>2, <2>4, <2>6, <2>7 DEF TInv
<1>4. CASE UNCHANGED vars
  <2>1. AllEvents' = AllEvents /\ Pressed' = Pressed
    BY <1>4 DEF vars, AllEvents, Pressed
  <2> QED
    BY <1>4, <2>1 DEF vars, TInv
<1> QED
  BY <1>1, <1>2, <1>3, <1>4 DEF Next, FrameDone

\* The type invariant: a run ends at its end, only keys of the script are ever
\* down, and the keyboard types with modifiers that are modifiers.
THEOREM TypeCorrect == Spec => []TypeOK
<1>1. TInv => TypeOK
  <2> SUFFICES ASSUME TInv PROVE TypeOK
    OBVIOUS
  <2>1. now = start \/ now \in start .. end
    BY DEF TInv
  <2>2. \A i \in DOMAIN seen : seen[i].mods \subseteq Modifiers
    BY DEF TInv, TypedRight
  <2> QED
    BY <2>1, <2>2 DEF TInv, TypeOK, Pressed, AllEvents
<1> QED
  BY <1>1, InitTInv, TInvStep, PTL DEF Spec

------------------------------------------------------------------------------
(* What is typed when.                                                      *)

\* A step that presses a key.
IsTap(s) == s.mod # "!" /\ s.mod # "="

\* How long the keyboard is taken by a step.
Span(s) == CASE s.mod = "=" -> Len(s.what) * CharTime
             [] s.mod = "!" -> 0
             [] OTHER       -> 8

\* A script whose steps do not meet, in a run from `from`.
Paced(script, from) ==
  /\ Len(script) \in Nat /\ from \in Nat
  /\ \A k \in 1 .. Len(script) :
       LET s == script[k]
       IN  /\ s.at \in Nat
           /\ s.mod = "=" => IsSeq(s.what) /\ from <= s.at
           /\ IsTap(s) => s.what[1] \notin Modifiers
  /\ \A i, k \in 1 .. Len(script) : i < k =>
       /\ script[i].at + Span(script[i]) <= script[k].at
       /\ script[i].mod = "!" /\ script[k].mod = "!" => script[i].at # script[k].at

\* How much of its text, or of its key, a step has typed when the time is t.
TextTyped(len, at, t) ==
  IF t <= at THEN 0 ELSE IF at + len * CharTime <= t THEN len ELSE (t - at) \div CharTime
Prog(s, from, t) ==
  CASE s.mod = "=" -> TextTyped(Len(s.what), s.at, t)
    [] s.mod = "!" -> 0
    [] OTHER       -> IF from < s.at + 5 /\ from < t /\ s.at + 2 < t THEN 1 ELSE 0

\* What a step is to type, how much of that is typed when the time is t, and all
\* that is typed by then.
Row(script, from, k) == StepTypes(script[k], from, DiskOf(script, k))
UpTo(s, p) == [i \in 1 .. p |-> s[i]]
Part(script, from, k, t) == UpTo(Row(script, from, k), Prog(script[k], from, t))
Typed(script, from, t) ==
  FlattenSeq([k \in 1 .. Len(script) |-> Part(script, from, k, t)])

\* The fields that the taps of a script hold in the frame at t.
KeyHeld(s, t) == IsTap(s) /\ s.at + 2 <= t /\ t < s.at + 5
ModHeld(s, t) == s.mod \in Modifiers /\ s.at <= t /\ t < s.at + 7
FieldsAt(script, t) ==
  {script[k].what[1] : k \in {i \in 1 .. Len(script) : KeyHeld(script[i], t)}}
  \cup {script[k].mod : k \in {i \in 1 .. Len(script) : ModHeld(script[i], t)}}

\* The events that were run.
Ran == AllEvents \ todo

\* What the events that were run have left of the fields, the drive and the queue.
HeldNow == {e.field[1] : e \in {d \in Ran : d.kind = "down" /\ \E u \in todo : Releases(u, d)}}
Mounts ==
  \/ disk = First /\ \A e \in Ran : e.kind # "load"
  \/ \E e \in Ran : /\ e.kind = "load" /\ disk = e.field[1]
                    /\ \A f \in Ran : f.kind = "load" => f.at <= e.at
Posted(k) == \E e \in Ran : e.kind = "post" /\ e.step = k
Through(k) == Prog(steps[k], start, now) = Len(steps[k].what)
Rest(k) == LET p == Prog(steps[k], start, now)
           IN  [i \in 1 .. Len(steps[k].what) - p |-> steps[k].what[p + i]]
\* The natural keyboard is idle, or types the text of the k-th step.
Idle == /\ queue = <<>> /\ busy = 0
        /\ \A k \in 1 .. Len(steps) : Posted(k) => Through(k)
Types1(k) ==
  /\ Posted(k) /\ steps[k].at <= now /\ now < steps[k].at + Span(steps[k])
  /\ queue = Rest(k)
  /\ now = steps[k].at + Prog(steps[k], start, now) * CharTime + busy
  /\ \A i \in 1 .. Len(steps) : i # k /\ Posted(i) => Through(i)

\* A paced script is typed in time.  Events are run in the order of their times
\* and as soon as they are due; the fields, the drive and the queue are what the
\* events that were run make of them; and what was typed is what the steps have
\* come to at this moment, one of which at most is being typed.
InTime ==
  /\ Paced(steps, start) /\ driver # "schedules" /\ wanted = Types(steps, start)
  /\ start <= now
  /\ \A e \in Ran : e.at <= now /\ \A f \in todo : e.at <= f.at
  /\ now = start \/ \A f \in todo : now <= f.at
  /\ down = HeldNow
  /\ last = IF now = start THEN {} ELSE FieldsAt(steps, now - 1)
  /\ Mounts
  /\ Idle \/ \E k \in 1 .. Len(steps) : Types1(k)
  /\ seen = Typed(steps, start, now)

LEMMA TextTypedIs ==
  ASSUME NEW len \in Nat, NEW a \in Nat, NEW t \in Nat
  PROVE  /\ TextTyped(len, a, t) \in 0 .. len
         /\ t <= a => TextTyped(len, a, t) = 0
         /\ a + len * CharTime <= t => TextTyped(len, a, t) = len
         /\ a <= t /\ t < a + len * CharTime =>
              TextTyped(len, a, t) < len /\ \E r \in 0 .. CharTime - 1 :
                                              t = a + TextTyped(len, a, t) * CharTime + r
<1>0. PICK c \in Nat \ {0} : c = CharTime
  BY RunsTimed
<1>1. len * c \in Nat /\ (len # 0 => len * c > 0)
  <2>1. CASE len = 0
    BY <2>1
  <2>2. CASE len # 0
    <3>1. 0 * c + c <= len * c
      BY <2>2, Steps
    <3> QED
      BY <3>1
  <2> QED
    BY <2>1, <2>2
<1>2. CASE t < a
  BY <1>0, <1>1, <1>2 DEF TextTyped
<1>3. CASE t >= a /\ a + len * c <= t
  <2>1. TextTyped(len, a, t) = IF t <= a THEN 0 ELSE len
    BY <1>0, <1>1, <1>3 DEF TextTyped
  <2>2. t <= a => len = 0
    BY <1>1, <1>3
  <2> QED
    BY <1>0, <1>1, <1>3, <2>1, <2>2
<1>4. CASE t >= a /\ t < a + len * c
  <2>1. PICK d \in Nat : d = t - a
    BY <1>4
  <2>2. PICK q, r : q = d \div c /\ r = d % c
    OBVIOUS
  <2>3. q \in Nat /\ r \in 0 .. c - 1 /\ d = q * c + r
    BY <2>1, <2>2, DivMod
  <2>4. q < len
    <3> SUFFICES ASSUME ~(q < len) PROVE FALSE
      OBVIOUS
    <3>1. len = q \/ len < q
      BY <2>3
    <3>2. len * c <= q * c
      <4>1. CASE len = q
        BY <1>1, <4>1
      <4>2. CASE len < q
        <5>1. len * c + c <= q * c
          BY <2>3, <4>2, Steps
        <5>2. q * c \in Nat
          BY <2>3
        <5> QED
          BY <1>1, <5>1, <5>2
      <4> QED
        BY <3>1, <4>1, <4>2
    <3>3. q * c \in Nat
      BY <2>3
    <3> QED
      BY <1>1, <1>4, <2>1, <2>3, <3>2, <3>3
  <2>5. TextTyped(len, a, t) = q
    <3>1. CASE t = a
      <4>1. d = 0
        BY <2>1, <3>1
      <4>2. q = 0
        BY <2>2, <4>1
      <4> QED
        BY <3>1, <4>2 DEF TextTyped
    <3>2. CASE t # a
      <4>1. ~(t <= a) /\ ~(a + len * CharTime <= t)
        BY <1>0, <1>1, <1>4, <3>2
      <4>2. TextTyped(len, a, t) = (t - a) \div CharTime
        BY <4>1 DEF TextTyped
      <4> QED
        BY <1>0, <2>1, <2>2, <4>2
    <3> QED
      BY <3>1, <3>2
  <2>6. t = a + q * c + r
    <3>1. q * c \in Nat
      BY <2>3
    <3> QED
      BY <2>1, <2>3, <3>1
  <2> QED
    BY <1>0, <1>4, <2>3, <2>4, <2>5, <2>6
<1> QED
  BY <1>0, <1>1, <1>2, <1>3, <1>4

\* The time of a character passes, and it is typed.
LEMMA TextTypedNext ==
  ASSUME NEW len \in Nat, NEW a \in Nat, NEW p \in Nat, NEW r \in 0 .. CharTime - 1,
         p < len, NEW t, t = a + p * CharTime + r
  PROVE  /\ t \in Nat /\ a <= t /\ t < a + len * CharTime
         /\ TextTyped(len, a, t) = p
         /\ TextTyped(len, a, t + 1) = IF r + 1 = CharTime THEN p + 1 ELSE p
<1>0. PICK c \in Nat \ {0} : c = CharTime
  BY RunsTimed
<1>1. p * c \in Nat /\ len * c \in Nat /\ p * c + c <= len * c
  BY Steps
<1>2. t \in Nat /\ a <= t /\ t < a + len * c /\ t = a + p * c + r /\ r \in 0 .. c - 1
  BY <1>0, <1>1
<1>3. ASSUME NEW q \in Nat, NEW s \in 0 .. c - 1, NEW u \in Nat,
             a <= u, u < a + len * c, u = a + q * c + s
      PROVE  TextTyped(len, a, u) = q
  <2>1. PICK z \in 0 .. c - 1 : u = a + TextTyped(len, a, u) * c + z
    BY <1>0, <1>3, TextTypedIs
  <2>2. PICK m \in Nat : m = TextTyped(len, a, u)
    BY TextTypedIs
  <2>3. q * c \in Nat /\ m * c \in Nat
    OBVIOUS
  <2>4. q * c + s = m * c + z
    BY <1>0, <1>3, <2>1, <2>2, <2>3
  <2>5. q = m
    BY <2>4, OneWay
  <2> QED
    BY <2>2, <2>5
<1>4. TextTyped(len, a, t) = p
  BY <1>2, <1>3
<1>5. CASE r + 1 # c
  <2>1. r + 1 \in 0 .. c - 1 /\ t + 1 \in Nat /\ t + 1 = a + p * c + (r + 1)
    BY <1>1, <1>2, <1>5
  <2>2. t + 1 < a + len * c /\ a <= t + 1
    BY <1>1, <1>2, <2>1
  <2>3. TextTyped(len, a, t + 1) = p
    BY <1>3, <2>1, <2>2
  <2> QED
    BY <1>0, <1>2, <1>4, <1>5, <2>3
<1>6. CASE r + 1 = c
  <2>1. (p + 1) * c = p * c + c
    OBVIOUS
  <2>2. t + 1 = a + (p + 1) * c + 0 /\ t + 1 \in Nat /\ a <= t + 1 /\ 0 \in 0 .. c - 1 /\ p + 1 \in Nat
    BY <1>1, <1>2, <1>6, <2>1
  <2>3. TextTyped(len, a, t + 1) = p + 1
    <3>1. CASE p + 1 = len
      <4>1. a + len * CharTime <= t + 1
        <5>1. (p + 1) * c \in Nat
          OBVIOUS
        <5> QED
          BY <1>0, <2>2, <3>1, <5>1
      <4> QED
        BY <2>2, <3>1, <4>1, TextTypedIs
    <3>2. CASE p + 1 # len
      <4>1. p + 1 < len
        BY <3>2
      <4>2. (p + 1) * c + c <= len * c
        BY <4>1, Steps
      <4>3. (p + 1) * c \in Nat
        OBVIOUS
      <4>4. t + 1 < a + len * c
        BY <1>1, <2>2, <4>2, <4>3
      <4> QED
        BY <1>3, <2>2, <4>4
    <3> QED
      BY <3>1, <3>2
  <2> QED
    BY <1>0, <1>2, <1>4, <1>6, <2>3
<1> QED
  BY <1>5, <1>6

\* Two rows of sequences: the same up to the k-th, where the second has w more, and the
\* first has nothing behind it.
Fork(S, n, P, R, k, w) ==
  /\ n \in Nat /\ P \in [1 .. n -> Seq(S)] /\ R \in [1 .. n -> Seq(S)]
  /\ k \in 1 .. n /\ w \in Seq(S) /\ R[k] = Cat(P[k], w)
  /\ \A i \in 1 .. n : i < k => R[i] = P[i]
  /\ \A i \in 1 .. n : k < i => P[i] = <<>>

LEMMA FlattenSplit ==
  ASSUME NEW S, NEW n, NEW P, NEW R, NEW k, NEW w, Fork(S, n, P, R, k, w)
  PROVE  /\ FlattenSeq(P) \in Seq(S)
         /\ \E z \in Seq(S) : /\ FlattenSeq(R) = (FlattenSeq(P) \o w) \o z
                              /\ (\A i \in 1 .. n : k < i => R[i] = <<>>) => z = <<>>
<1>a. /\ n \in Nat /\ P \in [1 .. n -> Seq(S)] /\ R \in [1 .. n -> Seq(S)]
      /\ k \in 1 .. n /\ w \in Seq(S) /\ R[k] = P[k] \o w
      /\ \A i \in 1 .. n : i < k => R[i] = P[i]
      /\ \A i \in 1 .. n : k < i => P[i] = <<>>
  BY DEF Fork, Cat
<1> USE <1>a
<1>0. n # 0
  OBVIOUS
<1>1. PICK f : /\ \A i \in 1 .. n : f[i] = IF i = 1 THEN P[i] ELSE f[i - 1] \o P[i]
               /\ FlattenSeq(P) = f[n]
  BY <1>0, FlattenFcn
<1>2. PICK g : /\ \A i \in 1 .. n : g[i] = IF i = 1 THEN R[i] ELSE g[i - 1] \o R[i]
               /\ FlattenSeq(R) = g[n]
  BY <1>0, FlattenFcn
<1> DEFINE none(m) == \A i \in 1 .. n : k < i /\ i <= m => R[i] = <<>>
<1> DEFINE Good(m) == /\ f[m] \in Seq(S) /\ g[m] \in Seq(S)
                      /\ m < k => g[m] = f[m]
                      /\ m >= k => /\ f[m] = f[k] /\ f[k] \in Seq(S)
                                   /\ \E z \in Seq(S) : g[m] = (f[k] \o w) \o z /\ (none(m) => z = <<>>)
<1>3. \A m \in 1 .. n : Good(m)
  <2> DEFINE Bad == {m \in 1 .. n : ~Good(m)}
  <2> SUFFICES ASSUME Bad # {} PROVE FALSE
    OBVIOUS
  <2>1. PICK m \in Bad : \A j \in Bad : m <= j
    <3>1. Bad \in SUBSET Nat
      OBVIOUS
    <3> HIDE DEF Bad
    <3> QED
      BY <3>1, Least
  <2>2. m \in 1 .. n /\ ~Good(m) /\ \A j \in 1 .. n : j < m => Good(j)
    <3> HIDE DEF Good
    <3> QED
      BY <2>1
  <2>3. P[m] \in Seq(S) /\ R[m] \in Seq(S) /\ (m = k => R[m] = P[m] \o w)
        /\ (m < k => R[m] = P[m]) /\ (k < m => P[m] = <<>>)
    BY <2>2
  <2>4. CASE m = 1
    <3>1. f[m] = P[m] /\ g[m] = R[m]
      BY <1>1, <1>2, <2>2, <2>4
    <3>2. f[m] \in Seq(S) /\ g[m] \in Seq(S) /\ (m < k => g[m] = f[m])
      BY <2>3, <3>1
    <3>3. ASSUME m >= k
          PROVE  /\ f[m] = f[k] /\ f[k] \in Seq(S)
                 /\ \E z \in Seq(S) : g[m] = (f[k] \o w) \o z /\ (none(m) => z = <<>>)
      <4>1. m = k
        BY <2>4, <3>3
      <4>2. PICK v \in Seq(S) : v = f[k] \o w
        BY <3>2, <4>1, ConcatProperties
      <4>3. g[m] = v /\ v \o <<>> = v /\ <<>> \in Seq(S)
        BY <2>3, <3>1, <4>1, <4>2, EmptyIs
      <4>4. g[m] = (f[k] \o w) \o <<>>
        BY <4>2, <4>3
      <4> QED
        BY <3>2, <4>1, <4>3, <4>4
    <3> QED
      BY <2>2, <3>2, <3>3
  <2>5. CASE m # 1
    <3>0. PICK j \in 1 .. n : j = m - 1 /\ j < m
      BY <2>2, <2>5
    <3>1. Good(j)
      BY <2>2, <3>0
    <3>2. f[m] = f[j] \o P[m] /\ g[m] = g[j] \o R[m]
      BY <1>1, <1>2, <2>2, <2>5, <3>0
    <3>3. f[m] \in Seq(S) /\ g[m] \in Seq(S) /\ f[j] \in Seq(S)
      BY <2>3, <3>1, <3>2, ConcatProperties
    <3>4. m < k => g[m] = f[m]
      <4> SUFFICES ASSUME m < k PROVE g[m] = f[m]
        OBVIOUS
      <4>1. j < k /\ R[m] = P[m]
        BY <2>2, <2>3, <3>0
      <4>2. g[j] = f[j]
        BY <3>1, <4>1
      <4> QED
        BY <3>2, <4>1, <4>2
    <3>5. ASSUME m >= k
          PROVE  /\ f[m] = f[k] /\ f[k] \in Seq(S)
                 /\ \E z \in Seq(S) : g[m] = (f[k] \o w) \o z /\ (none(m) => z = <<>>)
      <4>1. CASE m = k
        <5>1. g[j] = f[j]
          BY <3>0, <3>1, <4>1
        <5>2. g[m] = f[j] \o (P[m] \o w)
          BY <2>3, <3>2, <4>1, <5>1
        <5>3. f[j] \o (P[m] \o w) = (f[j] \o P[m]) \o w
          <6>1. PICK a, b : a = f[j] /\ b = P[m]
            OBVIOUS
          <6>2. a \in Seq(S) /\ b \in Seq(S)
            BY <2>3, <3>3, <6>1
          <6>3. Cat(Cat(a, b), w) = Cat(a, Cat(b, w))
            BY ONLY <6>2, w \in Seq(S), Bracket
          <6> QED
            BY <6>1, <6>3 DEF Cat
        <5>4. PICK v \in Seq(S) : v = f[k] \o w
          BY <3>3, <4>1, ConcatProperties
        <5>5. g[m] = v /\ v \o <<>> = v /\ <<>> \in Seq(S)
          BY <3>2, <4>1, <5>2, <5>3, <5>4, EmptyIs
        <5>6. g[m] = (f[k] \o w) \o <<>>
          BY <5>4, <5>5
        <5> QED
          BY <3>3, <4>1, <5>5, <5>6
      <4>2. CASE m # k
        <5>1. j >= k /\ k < m
          BY <2>2, <3>0, <3>5, <4>2
        <5>2. f[m] = f[j]
          BY <2>3, <3>2, <3>3, <5>1, EmptyIs
        <5>3. f[j] = f[k] /\ f[k] \in Seq(S)
          BY <3>1, <5>1
        <5>4. PICK z \in Seq(S) : g[j] = (f[k] \o w) \o z /\ (none(j) => z = <<>>)
          BY <3>1, <5>1
        <5>5. PICK v \in Seq(S) : v = f[k] \o w
          BY <5>3, ConcatProperties
        <5>6. PICK y \in Seq(S) : y = z \o R[m]
          BY <2>3, ConcatProperties
        <5>7. g[m] = v \o y
          <6>1. g[m] = (v \o z) \o R[m]
            BY <3>2, <5>4, <5>5
          <6>2. v \o (z \o R[m]) = (v \o z) \o R[m]
            <7>1. PICK b : b = R[m]
              OBVIOUS
            <7>2. b \in Seq(S)
              BY <2>3, <7>1
            <7>3. Cat(Cat(v, z), b) = Cat(v, Cat(z, b))
              BY ONLY <7>2, v \in Seq(S), z \in Seq(S), Bracket
            <7> QED
              BY <7>1, <7>3 DEF Cat
          <6> QED
            BY <5>6, <6>1, <6>2
        <5>8. none(m) => y = <<>>
          <6> SUFFICES ASSUME none(m) PROVE y = <<>>
            OBVIOUS
          <6>1. R[m] = <<>>
            BY <2>2, <5>1
          <6>0. none(j)
            BY <2>2, <3>0
          <6>2. z = <<>>
            BY <5>4, <6>0
          <6> QED
            BY <5>6, <6>1, <6>2, EmptyIs
        <5>9. g[m] = (f[k] \o w) \o y
          BY <5>5, <5>7
        <5> HIDE DEF none
        <5> QED
          BY <5>2, <5>3, <5>8, <5>9
      <4> QED
        BY <4>1, <4>2
    <3> HIDE DEF none
    <3>6. Good(m)
      BY <3>3, <3>4, <3>5
    <3> QED
      BY <2>2, <3>6
  <2> QED
    BY <2>4, <2>5
<1>4. /\ f[n] = f[k] /\ f[k] \in Seq(S)
      /\ \E z \in Seq(S) : g[n] = (f[k] \o w) \o z /\ (none(n) => z = <<>>)
  <2>1. n \in 1 .. n /\ n >= k
    BY <1>0
  <2>2. Good(n)
    <3> HIDE DEF Good
    <3> QED
      BY <1>3, <2>1
  <2> HIDE DEF none
  <2> QED
    BY <2>1, <2>2
<1> HIDE DEF Good
<1>5. PICK z \in Seq(S) : g[n] = (f[k] \o w) \o z /\ (none(n) => z = <<>>)
  BY <1>4
<1>6. (\A i \in 1 .. n : k < i => R[i] = <<>>) => none(n)
  OBVIOUS
<1> HIDE DEF none
<1> QED
  BY <1>1, <1>2, <1>4, <1>5, <1>6

LEMMA PacedStep ==
  ASSUME NEW script, NEW from, Paced(script, from), NEW k \in 1 .. Len(script)
  PROVE  /\ script[k].at \in Nat /\ Span(script[k]) \in Nat
         /\ IsTap(script[k]) => Span(script[k]) = 8
         /\ script[k].mod = "=" =>
              /\ Len(script[k].what) \in Nat
              /\ Span(script[k]) = Len(script[k].what) * CharTime
<1>1. PICK c \in Nat : c = CharTime
  BY RunsTimed
<1>2. script[k].at \in Nat /\ (script[k].mod = "=" => Len(script[k].what) \in Nat)
  BY DEF Paced, IsSeq
<1>3. CASE script[k].mod = "="
  <2>1. PICK len \in Nat : len = Len(script[k].what)
    BY <1>2, <1>3
  <2>2. len * c \in Nat
    OBVIOUS
  <2> QED
    BY <1>1, <1>2, <1>3, <2>1, <2>2 DEF Span, IsTap
<1> QED
  BY <1>2, <1>3 DEF Span, IsTap

LEMMA Later ==
  ASSUME NEW script, NEW from, Paced(script, from),
         NEW i \in 1 .. Len(script), NEW k \in 1 .. Len(script), i < k
  PROVE  script[i].at + Span(script[i]) <= script[k].at /\ script[i].at <= script[k].at
<1>1. script[i].at + Span(script[i]) <= script[k].at
  BY DEF Paced
<1> QED
  BY <1>1, PacedStep

\* What a step types.
LEMMA RowIs ==
  ASSUME NEW script, NEW from, Paced(script, from), NEW k \in 1 .. Len(script)
  PROVE  /\ IsSeq(Row(script, from, k))
         /\ script[k].mod = "!" => Len(Row(script, from, k)) = 0
         /\ script[k].mod = "=" =>
              /\ Len(Row(script, from, k)) = Len(script[k].what)
              /\ \A i \in 1 .. Len(script[k].what) :
                   Row(script, from, k)[i] = Key(script[k].what[i], {}, DiskOf(script, k))
         /\ IsTap(script[k]) =>
              IF script[k].at + 5 <= from THEN Len(Row(script, from, k)) = 0
              ELSE /\ Len(Row(script, from, k)) = 1
                   /\ Row(script, from, k)[1] =
                        Key(script[k].what[1], {script[k].mod} \cap Modifiers, DiskOf(script, k))
<1>1. PICK s, image : s = script[k] /\ image = DiskOf(script, k)
  OBVIOUS
<1>2. PICK row : row = Row(script, from, k)
  OBVIOUS
<1>3. row = StepTypes(s, from, image)
  BY <1>1, <1>2 DEF Row
<1>4. IsSeq(<<>>) /\ Len(<<>>) = 0
  <2>1. PICK t : t = <<>>
    OBVIOUS
  <2>2. t \in Seq({}) /\ Len(t) = 0
    BY <2>1, EmptySeq
  <2> QED
    BY <2>1, <2>2, SeqIs
<1>5. CASE s.mod = "!"
  <2>1. row = <<>>
    BY <1>3, <1>5 DEF StepTypes
  <2> QED
    BY <1>1, <1>2, <1>4, <1>5, <2>1 DEF IsTap
<1>6. CASE s.mod = "="
  <2>1. PICK n \in Nat : n = Len(s.what)
    BY <1>1, <1>6, PacedStep
  <2>2. row = [i \in 1 .. n |-> Key(s.what[i], {}, image)]
    BY <1>3, <1>6, <2>1 DEF StepTypes, Characters
  <2>3. row \in [1 .. n -> {row[i] : i \in 1 .. n}]
    BY <2>2
  <2>4. row \in Seq({row[i] : i \in 1 .. n}) /\ Len(row) = n
    BY <2>3, FcnIsSeq
  <2>5. IsSeq(row)
    BY <2>4, SeqIs
  <2>6. \A i \in 1 .. n : row[i] = Key(s.what[i], {}, image)
    BY <2>2
  <2> QED
    BY <1>1, <1>2, <1>6, <2>1, <2>4, <2>5, <2>6 DEF IsTap
<1>7. CASE IsTap(s)
  <2>1. row = IF s.at + 5 <= from THEN <<>> ELSE <<Key(s.what[1], {s.mod} \cap Modifiers, image)>>
    BY <1>3, <1>7 DEF StepTypes, IsTap
  <2>2. CASE s.at + 5 <= from
    BY <1>1, <1>2, <1>4, <1>7, <2>1, <2>2 DEF IsTap
  <2>3. CASE ~(s.at + 5 <= from)
    <3>1. PICK key : key = Key(s.what[1], {s.mod} \cap Modifiers, image)
      OBVIOUS
    <3>2. row = <<key>>
      BY <2>1, <2>3, <3>1
    <3>3. row \in Seq({key}) /\ Len(row) = 1 /\ row[1] = key
      BY <3>2
    <3>4. IsSeq(row)
      BY <3>3, SeqIs
    <3> QED
      BY <1>1, <1>2, <1>7, <2>3, <3>1, <3>3, <3>4 DEF IsTap
  <2> QED
    BY <2>2, <2>3
<1> QED
  BY <1>1, <1>5, <1>6, <1>7 DEF IsTap

LEMMA ProgIs ==
  ASSUME NEW script, NEW from, Paced(script, from), NEW k \in 1 .. Len(script), NEW t \in Nat
  PROVE  /\ Len(Row(script, from, k)) \in Nat
         /\ Prog(script[k], from, t) \in 0 .. Len(Row(script, from, k))
<1>1. Len(Row(script, from, k)) \in Nat
  BY RowIs DEF IsSeq
<1>2. PICK s : s = script[k]
  OBVIOUS
<1>3. s.at \in Nat /\ from \in Nat
  BY <1>2, PacedStep DEF Paced
<1>4. CASE s.mod = "="
  <2>1. PICK len, at : len = Len(s.what) /\ at = s.at
    OBVIOUS
  <2>2. len \in Nat /\ at \in Nat /\ Len(Row(script, from, k)) = len
    BY <1>2, <1>3, <1>4, <2>1, PacedStep, RowIs
  <2>3. Prog(s, from, t) = TextTyped(len, at, t)
    BY <1>4, <2>1 DEF Prog
  <2>4. TextTyped(len, at, t) \in 0 .. len
    BY <2>2, TextTypedIs
  <2> QED
    BY <1>2, <2>2, <2>3, <2>4
<1>5. CASE s.mod = "!"
  BY <1>1, <1>2, <1>5 DEF Prog
<1>6. CASE IsTap(s)
  <2>1. Prog(s, from, t) = IF from < s.at + 5 /\ from < t /\ s.at + 2 < t THEN 1 ELSE 0
    BY <1>6 DEF Prog, IsTap
  <2>2. Len(Row(script, from, k)) = IF s.at + 5 <= from THEN 0 ELSE 1
    BY <1>2, <1>6, RowIs
  <2>3. from < s.at + 5 <=> ~(s.at + 5 <= from)
    BY <1>3
  <2> QED
    BY <1>1, <1>2, <2>1, <2>2, <2>3
<1> QED
  BY <1>1, <1>2, <1>4, <1>5, <1>6 DEF IsTap

\* A step types nothing before its time and everything in its own.
LEMMA BeforeStep ==
  ASSUME NEW script, NEW from, Paced(script, from), NEW k \in 1 .. Len(script), NEW t \in Nat,
         t <= script[k].at
  PROVE  Prog(script[k], from, t) = 0
<1>1. PICK s : s = script[k]
  OBVIOUS
<1>2. s.at \in Nat /\ t <= s.at /\ (s.mod = "=" => Len(s.what) \in Nat)
  BY <1>1, PacedStep
<1>3. CASE s.mod = "="
  BY <1>1, <1>2, <1>3 DEF Prog, TextTyped
<1>4. CASE s.mod # "="
  <2>1. ~(s.at + 2 < t)
    BY <1>2
  <2> QED
    BY <1>1, <1>4, <2>1 DEF Prog
<1> QED
  BY <1>3, <1>4

LEMMA AfterStep ==
  ASSUME NEW script, NEW from, Paced(script, from), NEW k \in 1 .. Len(script), NEW t \in Nat,
         script[k].at + Span(script[k]) <= t, from <= t
  PROVE  Prog(script[k], from, t) = Len(Row(script, from, k))
<1>1. PICK s : s = script[k]
  OBVIOUS
<1>2. s.at \in Nat /\ from \in Nat
  BY <1>1, PacedStep DEF Paced
<1>3. CASE s.mod = "="
  <2>1. PICK len, at : len = Len(s.what) /\ at = s.at
    OBVIOUS
  <2>2. len \in Nat /\ at \in Nat /\ Len(Row(script, from, k)) = len
    <3>1. len \in Nat
      BY <1>1, <1>3, <2>1, PacedStep
    <3>2. Len(Row(script, from, k)) = len
      BY <1>1, <1>3, <2>1, RowIs
    <3> QED
      BY <1>2, <2>1, <3>1, <3>2
  <2>3. Span(s) = len * CharTime
    BY <1>1, <1>3, <2>1, PacedStep
  <2>4. Prog(s, from, t) = TextTyped(len, at, t)
    BY <1>3, <2>1 DEF Prog
  <2>5. at + len * CharTime <= t
    BY <1>1, <2>1, <2>3
  <2>6. TextTyped(len, at, t) = len
    BY <2>2, <2>5, TextTypedIs
  <2> QED
    BY <1>1, <2>2, <2>4, <2>6
<1>4. CASE s.mod = "!"
  BY <1>1, <1>4, RowIs DEF Prog
<1>5. CASE IsTap(s)
  <2>1. Prog(s, from, t) = IF from < s.at + 5 /\ from < t /\ s.at + 2 < t THEN 1 ELSE 0
    BY <1>5 DEF Prog, IsTap
  <2>2. Len(Row(script, from, k)) = IF s.at + 5 <= from THEN 0 ELSE 1
    BY <1>1, <1>5, RowIs
  <2>3. s.at + 8 <= t
    BY <1>1, <1>5, PacedStep
  <2> QED
    BY <1>1, <1>2, <2>1, <2>2, <2>3
<1> QED
  BY <1>1, <1>3, <1>4, <1>5 DEF IsTap

LEMMA InStep ==
  ASSUME NEW script, NEW from, Paced(script, from), NEW k \in 1 .. Len(script), NEW t \in Nat,
         from <= t, ~(script[k].at <= t /\ t < script[k].at + Span(script[k]))
  PROVE  Prog(script[k], from, t + 1) = Prog(script[k], from, t)
<1>1. script[k].at \in Nat /\ Span(script[k]) \in Nat /\ from \in Nat
  BY PacedStep DEF Paced
<1>2. CASE t < script[k].at
  BY <1>1, <1>2, BeforeStep
<1>3. CASE script[k].at + Span(script[k]) <= t
  BY <1>1, <1>3, AfterStep
<1> QED
  BY <1>1, <1>2, <1>3

\* Everything that the steps of a script type.
Keys(script, from) ==
  UNION {{Row(script, from, k)[i] : i \in 1 .. Len(Row(script, from, k))} : k \in 1 .. Len(script)}

\* The first p of a sequence, and one more, and the rest.
LEMMA Fronts ==
  ASSUME NEW S, NEW s, NEW p, s \in Seq(S), p \in Nat, p <= Len(s)
  PROVE  /\ UpTo(s, p) \in Seq(S) /\ Len(UpTo(s, p)) = p
         /\ \A i \in 1 .. p : UpTo(s, p)[i] = s[i]
<1>1. PICK n \in Nat : n = Len(s)
  BY LenProperties
<1>2. s \in [1 .. n -> S]
  BY <1>1, LenProperties
<1>3. PICK t : t = UpTo(s, p)
  OBVIOUS
<1>4. t = [i \in 1 .. p |-> s[i]]
  BY <1>3 DEF UpTo
<1>5. t \in [1 .. p -> S]
  BY <1>1, <1>2, <1>4
<1>6. t \in Seq(S) /\ Len(t) = p
  BY <1>5, FcnIsSeq
<1> QED
  BY <1>3, <1>4, <1>6

LEMMA FrontRest ==
  ASSUME NEW S, NEW s, NEW p, s \in Seq(S), p \in Nat, p <= Len(s)
  PROVE  /\ \E w \in Seq(S) : s = Cat(UpTo(s, p), w)
         /\ p = Len(s) => UpTo(s, p) = s
<1>1. PICK n \in Nat : n = Len(s)
  BY LenProperties
<1>2. s \in [1 .. n -> S]
  BY <1>1, LenProperties
<1>3. PICK t : t = UpTo(s, p)
  OBVIOUS
<1>4. t \in Seq(S) /\ Len(t) = p /\ \A i \in 1 .. p : t[i] = s[i]
  BY <1>3, Fronts
<1>5. \E w \in Seq(S) : s = Cat(t, w)
  <2>0. n - p \in Nat
    BY <1>1
  <2>1. PICK m \in Nat : m = n - p
    BY <2>0
  <2>2. PICK w : w = [i \in 1 .. m |-> s[p + i]]
    OBVIOUS
  <2>3. w \in [1 .. m -> S]
    BY <1>1, <1>2, <2>1, <2>2
  <2>4. w \in Seq(S) /\ Len(w) = m
    BY <2>3, FcnIsSeq
  <2>5. PICK u : u = Cat(t, w)
    OBVIOUS
  <2>6. /\ u \in Seq(S) /\ Len(u) = p + m
        /\ \A i \in 1 .. p + m : u[i] = IF i <= p THEN t[i] ELSE w[i - p]
    <3>1. /\ Cat(t, w) \in Seq(S) /\ Len(Cat(t, w)) = Len(t) + Len(w)
          /\ \A i \in 1 .. Len(t) + Len(w) :
               Cat(t, w)[i] = IF i <= Len(t) THEN t[i] ELSE w[i - Len(t)]
      BY <1>4, <2>4, Joined
    <3> QED
      BY <1>4, <2>4, <2>5, <3>1
  <2>7. Len(u) = Len(s)
    BY <1>1, <2>1, <2>6
  <2>8. ASSUME NEW i \in 1 .. Len(u)
        PROVE  u[i] = s[i]
    <3>1. i \in 1 .. p + m /\ i \in Nat
      BY <2>6, <2>8
    <3>2. CASE i <= p
      BY <1>4, <2>6, <3>1, <3>2
    <3>3. CASE ~(i <= p)
      <4>1. i - p \in 1 .. m /\ p + (i - p) = i
        BY <3>1, <3>3
      <4> QED
        BY <2>2, <2>6, <3>1, <3>3, <4>1
    <3> QED
      BY <3>2, <3>3
  <2>9. u = s
    BY <2>6, <2>7, <2>8, SameSeq
  <2> QED
    BY <2>4, <2>5, <2>9
<1>6. p = Len(s) => t = s
  <2> SUFFICES ASSUME p = Len(s) PROVE t = s
    OBVIOUS
  <2>1. Len(t) = Len(s) /\ \A i \in 1 .. Len(t) : t[i] = s[i]
    BY <1>4
  <2> QED
    BY <1>4, <2>1, SameSeq
<1> QED
  BY <1>3, <1>5, <1>6

LEMMA FrontMore ==
  ASSUME NEW S, NEW s, NEW p, s \in Seq(S), p \in Nat, p < Len(s)
  PROVE  <<s[p + 1]>> \in Seq(S) /\ UpTo(s, p + 1) = Cat(UpTo(s, p), <<s[p + 1]>>)
<1>1. PICK n \in Nat : n = Len(s)
  BY LenProperties
<1>2. s \in [1 .. n -> S]
  BY <1>1, LenProperties
<1>3. PICK t, v : t = UpTo(s, p) /\ v = UpTo(s, p + 1)
  OBVIOUS
<1>4. p + 1 \in Nat /\ p + 1 <= Len(s) /\ p <= Len(s)
  BY <1>1
<1>5. t \in Seq(S) /\ Len(t) = p /\ \A i \in 1 .. p : t[i] = s[i]
  BY <1>3, <1>4, Fronts
<1>6. v \in Seq(S) /\ Len(v) = p + 1 /\ \A i \in 1 .. p + 1 : v[i] = s[i]
  BY <1>3, <1>4, Fronts
<1>7. PICK x \in S : x = s[p + 1]
  BY <1>1, <1>2
<1>8. PICK w : w = <<x>>
  OBVIOUS
<1>9. w \in Seq(S) /\ Len(w) = 1 /\ w[1] = x
  BY <1>8
<1>10. PICK u : u = Cat(t, w)
  OBVIOUS
<1>11. /\ u \in Seq(S) /\ Len(u) = p + 1
       /\ \A i \in 1 .. p + 1 : u[i] = IF i <= p THEN t[i] ELSE w[i - p]
  <2>1. /\ Cat(t, w) \in Seq(S) /\ Len(Cat(t, w)) = Len(t) + Len(w)
        /\ \A i \in 1 .. Len(t) + Len(w) :
             Cat(t, w)[i] = IF i <= Len(t) THEN t[i] ELSE w[i - Len(t)]
    <3>1. t \in Seq(S) /\ w \in Seq(S)
      BY <1>5, <1>9
    <3> QED
      BY ONLY <3>1, Joined
  <2> QED
    BY <1>5, <1>9, <1>10, <2>1
<1>12. ASSUME NEW i \in 1 .. Len(u)
       PROVE  u[i] = v[i]
  <2>1. i \in 1 .. p + 1 /\ i \in Nat
    BY <1>11, <1>12
  <2>2. CASE i <= p
    BY <1>5, <1>6, <1>11, <2>1, <2>2
  <2>3. CASE ~(i <= p)
    <3>1. i = p + 1 /\ i - p = 1
      BY <2>1, <2>3
    <3> QED
      BY <1>6, <1>7, <1>9, <1>11, <2>1, <2>3, <3>1
  <2> QED
    BY <2>2, <2>3
<1>13. u = v
  BY <1>6, <1>11, <1>12, SameSeq
<1> QED
  BY <1>3, <1>7, <1>8, <1>9, <1>10, <1>13

\* A step's part of what it types.
LEMMA PartIs ==
  ASSUME NEW script, NEW from, Paced(script, from), NEW k \in 1 .. Len(script), NEW t \in Nat,
         NEW S, S = Keys(script, from)
  PROVE  /\ Row(script, from, k) \in Seq(S) /\ Part(script, from, k, t) \in Seq(S)
         /\ Prog(script[k], from, t) = 0 => Part(script, from, k, t) = <<>>
         /\ Prog(script[k], from, t) = Len(Row(script, from, k)) =>
              Part(script, from, k, t) = Row(script, from, k)
         /\ \E w \in Seq(S) : Row(script, from, k) = Cat(Part(script, from, k, t), w)
<1>1. PICK row, p : row = Row(script, from, k) /\ p = Prog(script[k], from, t)
  OBVIOUS
<1>2. p \in Nat /\ p <= Len(row) /\ Len(row) \in Nat
  BY <1>1, ProgIs
<1>3. row \in Seq(S)
  <2>1. row \in Seq({row[i] : i \in 1 .. Len(row)})
    <3>1. IsSeq(row)
      BY <1>1, RowIs
    <3> QED
      BY <3>1 DEF IsSeq
  <2>2. {row[i] : i \in 1 .. Len(row)} \subseteq S
    BY <1>1 DEF Keys
  <2> QED
    BY <2>1, <2>2, SeqMonotonic
<1>4. PICK part : part = UpTo(row, p)
  OBVIOUS
<1>5. Part(script, from, k, t) = part
  BY <1>1, <1>4 DEF Part
<1>6. part \in Seq(S) /\ Len(part) = p
  BY <1>2, <1>3, <1>4, Fronts
<1>7. (\E w \in Seq(S) : row = Cat(part, w)) /\ (p = Len(row) => part = row)
  BY <1>2, <1>3, <1>4, FrontRest
<1>8. p = 0 => part = <<>>
  BY <1>6, EmptySeq
<1> QED
  BY <1>1, <1>3, <1>5, <1>6, <1>7, <1>8

LEMMA PartNext ==
  ASSUME NEW script, NEW from, Paced(script, from), NEW k \in 1 .. Len(script), NEW t \in Nat,
         NEW S, S = Keys(script, from),
         Prog(script[k], from, t + 1) = Prog(script[k], from, t) + 1
  PROVE  LET w == <<Row(script, from, k)[Prog(script[k], from, t) + 1]>>
         IN  w \in Seq(S) /\ Part(script, from, k, t + 1) = Cat(Part(script, from, k, t), w)
<1>1. PICK row, p : row = Row(script, from, k) /\ p = Prog(script[k], from, t)
  OBVIOUS
<1>2. p \in Nat /\ p + 1 <= Len(row) /\ Len(row) \in Nat
  BY <1>1, ProgIs
<1>3. row \in Seq(S)
  BY <1>1, PartIs
<1>4. Part(script, from, k, t) = UpTo(row, p) /\ Part(script, from, k, t + 1) = UpTo(row, p + 1)
  BY <1>1 DEF Part
<1>5. p < Len(row)
  BY <1>2
<1>6. <<row[p + 1]>> \in Seq(S) /\ UpTo(row, p + 1) = Cat(UpTo(row, p), <<row[p + 1]>>)
  BY <1>2, <1>3, <1>5, FrontMore
<1> QED
  BY <1>1, <1>4, <1>6

\* FlattenSplit in the words of the following.
LEMMA Behind ==
  ASSUME NEW S, NEW n, NEW P, NEW R, NEW k, NEW w, Fork(S, n, P, R, k, w)
  PROVE  /\ FlattenSeq(P) \in Seq(S)
         /\ \E z \in Seq(S) : FlattenSeq(R) = Cat(Cat(FlattenSeq(P), w), z)
         /\ (\A i \in 1 .. n : k < i => R[i] = <<>>) => FlattenSeq(R) = Cat(FlattenSeq(P), w)
<1>1. w \in Seq(S)
  BY DEF Fork
<1>2. /\ FlattenSeq(P) \in Seq(S)
      /\ \E z \in Seq(S) : /\ FlattenSeq(R) = (FlattenSeq(P) \o w) \o z
                           /\ (\A i \in 1 .. n : k < i => R[i] = <<>>) => z = <<>>
  BY FlattenSplit
<1>3. PICK fp, fr : fp = FlattenSeq(P) /\ fr = FlattenSeq(R)
  OBVIOUS
<1>4. fp \in Seq(S)
  BY <1>2, <1>3
<1>5. PICK z \in Seq(S) : /\ fr = Cat(Cat(fp, w), z)
                          /\ (\A i \in 1 .. n : k < i => R[i] = <<>>) => z = <<>>
  BY <1>2, <1>3 DEF Cat
<1>6. PICK v \in Seq(S) : v = Cat(fp, w)
  BY <1>1, <1>4, Joined
<1>7. Cat(v, <<>>) = v
  BY <1>6, EmptyIs DEF Cat
<1>8. (\A i \in 1 .. n : k < i => R[i] = <<>>) => fr = v
  BY <1>5, <1>6, <1>7
<1> QED
  BY <1>3, <1>4, <1>5, <1>6, <1>8

LEMMA FlattenType ==
  ASSUME NEW S, NEW n, NEW P, n \in Nat, P \in [1 .. n -> Seq(S)]
  PROVE  FlattenSeq(P) \in Seq(S)
<1>1. CASE n = 0
  <2>1. P \in [1 .. 0 -> S]
    BY <1>1
  <2>2. P \in Seq(S) /\ Len(P) = 0
    BY <2>1, FcnIsSeq
  <2>3. FlattenSeq(P) = P
    BY <2>2 DEF FlattenSeq
  <2> QED
    BY <2>2, <2>3
<1>2. CASE n # 0
  <2>1. PICK last_ : last_ = P[n]
    OBVIOUS
  <2>2. last_ \in Seq(S) /\ n \in 1 .. n
    BY <1>2, <2>1
  <2>3. last_ = Cat(last_, <<>>) /\ <<>> \in Seq(S)
    BY <2>2, EmptyIs DEF Cat
  <2>4. Fork(S, n, P, P, n, <<>>)
    BY <2>1, <2>2, <2>3 DEF Fork
  <2> QED
    BY <2>4, Behind
<1> QED
  BY <1>1, <1>2

\* What the steps have typed by t, and what they are to type, step by step.
Parts(script, from, t) == [k \in 1 .. Len(script) |-> Part(script, from, k, t)]

LEMMA PartsAre ==
  ASSUME NEW script, NEW from, Paced(script, from), NEW t \in Nat, NEW S, S = Keys(script, from)
  PROVE  /\ Len(script) \in Nat
         /\ Parts(script, from, t) \in [1 .. Len(script) -> Seq(S)]
         /\ \A k \in 1 .. Len(script) : Parts(script, from, t)[k] = Part(script, from, k, t)
         /\ Typed(script, from, t) = FlattenSeq(Parts(script, from, t))
         /\ Typed(script, from, t) \in Seq(S)
<1>1. \A k \in 1 .. Len(script) : Part(script, from, k, t) \in Seq(S)
  BY PartIs
<1>2. PICK P, n : P = Parts(script, from, t) /\ n = Len(script)
  OBVIOUS
<1>3. n \in Nat /\ P \in [1 .. n -> Seq(S)] /\ Typed(script, from, t) = FlattenSeq(P)
      /\ \A k \in 1 .. n : P[k] = Part(script, from, k, t)
  BY <1>1, <1>2 DEF Paced, Parts, Typed
<1>4. FlattenSeq(P) \in Seq(S)
  BY <1>3, FlattenType
<1> QED
  BY <1>2, <1>3, <1>4

\* While nothing is typed, nothing is.
LEMMA TypedSame ==
  ASSUME NEW script, NEW from, Paced(script, from), NEW t \in Nat,
         \A k \in 1 .. Len(script) : Prog(script[k], from, t + 1) = Prog(script[k], from, t)
  PROVE  Typed(script, from, t + 1) = Typed(script, from, t)
BY DEF Typed, Part

\* In the frame at t the k-th step types one thing, behind everything typed so far.
LEMMA TypedNext ==
  ASSUME NEW script, NEW from, Paced(script, from), NEW t \in Nat, from <= t,
         NEW k \in 1 .. Len(script), script[k].at <= t, t < script[k].at + Span(script[k]),
         Prog(script[k], from, t + 1) = Prog(script[k], from, t) + 1
  PROVE  Typed(script, from, t + 1) =
           Cat(Typed(script, from, t), <<Row(script, from, k)[Prog(script[k], from, t) + 1]>>)
<1>1. PICK S, n, P, R, w : /\ S = Keys(script, from) /\ n = Len(script)
                           /\ P = Parts(script, from, t) /\ R = Parts(script, from, t + 1)
                           /\ w = <<Row(script, from, k)[Prog(script[k], from, t) + 1]>>
  OBVIOUS
<1>2. /\ n \in Nat /\ P \in [1 .. n -> Seq(S)] /\ R \in [1 .. n -> Seq(S)]
      /\ \A i \in 1 .. n : P[i] = Part(script, from, i, t) /\ R[i] = Part(script, from, i, t + 1)
      /\ Typed(script, from, t) = FlattenSeq(P) /\ Typed(script, from, t + 1) = FlattenSeq(R)
  <2>1. /\ n \in Nat /\ P \in [1 .. n -> Seq(S)] /\ Typed(script, from, t) = FlattenSeq(P)
        /\ \A i \in 1 .. n : P[i] = Part(script, from, i, t)
    BY <1>1, PartsAre
  <2>2. /\ R \in [1 .. n -> Seq(S)] /\ Typed(script, from, t + 1) = FlattenSeq(R)
        /\ \A i \in 1 .. n : R[i] = Part(script, from, i, t + 1)
    <3>1. PICK u \in Nat : u = t + 1
      OBVIOUS
    <3>2. /\ Parts(script, from, u) \in [1 .. Len(script) -> Seq(S)]
          /\ \A i \in 1 .. Len(script) : Parts(script, from, u)[i] = Part(script, from, i, u)
          /\ Typed(script, from, u) = FlattenSeq(Parts(script, from, u))
      BY <1>1, PartsAre
    <3> QED
      BY <1>1, <3>1, <3>2
  <2> QED
    BY <2>1, <2>2
<1>3. w \in Seq(S) /\ R[k] = Cat(P[k], w)
  <2>1. w \in Seq(S) /\ Part(script, from, k, t + 1) = Cat(Part(script, from, k, t), w)
    BY <1>1, PartNext
  <2>2. P[k] = Part(script, from, k, t) /\ R[k] = Part(script, from, k, t + 1)
    BY <1>1, <1>2
  <2> QED
    BY <2>1, <2>2
<1>4. ASSUME NEW i \in 1 .. n, i < k
      PROVE  R[i] = P[i]
  <2>1. script[i].at + Span(script[i]) <= script[k].at
    BY <1>1, <1>4, Later
  <2>2. /\ script[i].at \in Nat /\ Span(script[i]) \in Nat /\ script[k].at \in Nat
    BY <1>1, PacedStep
  <2>3. ~(script[i].at <= t /\ t < script[i].at + Span(script[i]))
    BY <2>1, <2>2
  <2>4. Prog(script[i], from, t + 1) = Prog(script[i], from, t)
    BY <1>1, <2>3, InStep
  <2> QED
    BY <1>2, <2>4 DEF Part
<1>5. ASSUME NEW i \in 1 .. n, k < i
      PROVE  P[i] = <<>> /\ R[i] = <<>>
  <2>1. script[k].at + Span(script[k]) <= script[i].at
    BY <1>1, <1>5, Later
  <2>2. /\ script[i].at \in Nat /\ Span(script[k]) \in Nat /\ script[k].at \in Nat
    BY <1>1, PacedStep
  <2>3. t <= script[i].at /\ t + 1 <= script[i].at /\ t + 1 \in Nat
    BY <2>1, <2>2
  <2>4. Prog(script[i], from, t) = 0 /\ Prog(script[i], from, t + 1) = 0
    BY <1>1, <2>3, BeforeStep
  <2>5. Part(script, from, i, t) = <<>> /\ Part(script, from, i, t + 1) = <<>>
    BY <1>1, <2>3, <2>4, PartIs
  <2> QED
    BY <1>2, <2>5
<1>6. k \in 1 .. n
  BY <1>1
<1>7. FlattenSeq(R) = Cat(FlattenSeq(P), w)
  <2>1. Fork(S, n, P, R, k, w)
    BY ONLY <1>2, <1>3, <1>4, <1>5, <1>6 DEF Fork
  <2>2. \A i \in 1 .. n : k < i => R[i] = <<>>
    BY <1>5
  <2> QED
    BY ONLY <2>1, <2>2, Behind
<1> QED
  BY <1>1, <1>2, <1>7

Rows(script, from) == [k \in 1 .. Len(script) |-> Row(script, from, k)]

LEMMA RowsAre ==
  ASSUME NEW script, NEW from, Paced(script, from), NEW S, S = Keys(script, from)
  PROVE  /\ Rows(script, from) \in [1 .. Len(script) -> Seq(S)]
         /\ \A k \in 1 .. Len(script) : Rows(script, from)[k] = Row(script, from, k)
         /\ Types(script, from) = FlattenSeq(Rows(script, from))
<1>1. \A k \in 1 .. Len(script) : Row(script, from, k) \in Seq(S)
  BY PartIs
<1>2. Types(script, from) = FlattenSeq(Rows(script, from))
  BY DEF Types, Rows, Row
<1> QED
  BY <1>1, <1>2 DEF Rows

\* When every step is through, everything is typed.
LEMMA TypedAll ==
  ASSUME NEW script, NEW from, Paced(script, from), NEW t \in Nat,
         \A k \in 1 .. Len(script) : Prog(script[k], from, t) = Len(Row(script, from, k))
  PROVE  Typed(script, from, t) = Types(script, from)
<1>1. PICK S : S = Keys(script, from)
  OBVIOUS
<1>2. \A k \in 1 .. Len(script) : Part(script, from, k, t) = Row(script, from, k)
  BY <1>1, PartIs
<1>3. Parts(script, from, t) = Rows(script, from)
  BY <1>2 DEF Parts, Rows
<1> QED
  BY <1>1, <1>3, PartsAre, RowsAre

\* A beginning of a sequence is a prefix of it.
LEMMA PrefixIs ==
  ASSUME NEW S, NEW a, NEW b, a \in Seq(S), b \in Seq(S)
  PROVE  IsPrefix(a, Cat(a, b))
<1>1. PICK c : c = Cat(a, b)
  OBVIOUS
<1>2. /\ c \in Seq(S) /\ Len(c) = Len(a) + Len(b)
      /\ \A i \in 1 .. Len(a) + Len(b) : c[i] = IF i <= Len(a) THEN a[i] ELSE b[i - Len(a)]
  BY <1>1, Joined
<1>3. Len(a) \in Nat /\ Len(b) \in Nat
  BY LenProperties
<1>4. SubSeq(a, 1, Len(a)) = SubSeq(c, 1, Len(a))
  BY <1>2, <1>3 DEF SubSeq
<1> QED
  BY <1>1, <1>2, <1>3, <1>4 DEF IsPrefix

\* At any time what is typed is a beginning of what is to be.
LEMMA TypedIsPrefix ==
  ASSUME NEW script, NEW from, Paced(script, from), NEW t \in Nat, from <= t
  PROVE  IsPrefix(Typed(script, from, t), Types(script, from))
<1>0. PICK S, n, P, R : /\ S = Keys(script, from) /\ n = Len(script)
                        /\ P = Parts(script, from, t) /\ R = Rows(script, from)
  OBVIOUS
<1>1. /\ n \in Nat /\ P \in [1 .. n -> Seq(S)] /\ R \in [1 .. n -> Seq(S)]
      /\ \A i \in 1 .. n : P[i] = Part(script, from, i, t) /\ R[i] = Row(script, from, i)
      /\ Typed(script, from, t) = FlattenSeq(P) /\ Types(script, from) = FlattenSeq(R)
  BY <1>0, PartsAre, RowsAre
<1> DEFINE Open == {k \in 1 .. n : Prog(script[k], from, t) # Len(Row(script, from, k))}
<1>2. CASE Open = {}
  <2>1. Typed(script, from, t) = Types(script, from)
    BY <1>0, <1>2, TypedAll
  <2>2. IsPrefix(Typed(script, from, t), Typed(script, from, t))
    BY DEF IsPrefix
  <2> QED
    BY <2>1, <2>2
<1>3. CASE Open # {}
  <2>1. PICK k \in Open : \A i \in Open : k <= i
    <3>1. Open \in SUBSET Nat
      BY <1>1
    <3> HIDE DEF Open
    <3> QED
      BY <1>3, <3>1, Least
  <2>2. k \in 1 .. n /\ Prog(script[k], from, t) # Len(Row(script, from, k))
    BY <2>1
  <2>3. ASSUME NEW i \in 1 .. n, i < k
        PROVE  R[i] = P[i]
    <3>1. i \notin Open
      BY <2>1, <2>2, <2>3
    <3>2. Prog(script[i], from, t) = Len(Row(script, from, i))
      BY <3>1
    <3>3. Part(script, from, i, t) = Row(script, from, i)
      BY <1>0, <3>2, PartIs
    <3> QED
      BY <1>1, <3>3
  <2>4. ASSUME NEW i \in 1 .. n, k < i
        PROVE  P[i] = <<>>
    <3>1. /\ script[k].at \in Nat /\ Span(script[k]) \in Nat /\ script[i].at \in Nat /\ from \in Nat
      BY <1>0, <2>2, PacedStep DEF Paced
    <3>2. script[k].at + Span(script[k]) <= script[i].at
      BY <1>0, <2>2, <2>4, Later
    <3>3. ~(script[k].at + Span(script[k]) <= t)
      BY <1>0, <2>2, AfterStep
    <3>4. Prog(script[i], from, t) = 0
      BY <1>0, <3>1, <3>2, <3>3, BeforeStep
    <3>5. Part(script, from, i, t) = <<>>
      BY <1>0, <3>4, PartIs
    <3> QED
      BY <1>1, <3>5
  <2>5. PICK w \in Seq(S) : R[k] = Cat(P[k], w)
    <3>1. \E w \in Seq(S) : Row(script, from, k) = Cat(Part(script, from, k, t), w)
      BY <1>0, <2>2, PartIs
    <3> QED
      BY <1>1, <2>2, <3>1
  <2>6. /\ FlattenSeq(P) \in Seq(S)
        /\ \E z \in Seq(S) : FlattenSeq(R) = Cat(Cat(FlattenSeq(P), w), z)
    <3>1. k \in 1 .. n /\ w \in Seq(S)
      BY <2>2
    <3>2. Fork(S, n, P, R, k, w)
      BY ONLY <1>1, <2>3, <2>4, <2>5, <3>1 DEF Fork
    <3> QED
      BY ONLY <3>2, Behind
  <2>7. PICK a : a = FlattenSeq(P)
    OBVIOUS
  <2>8. PICK z \in Seq(S) : FlattenSeq(R) = Cat(Cat(a, w), z)
    BY <2>6, <2>7
  <2>9. a \in Seq(S)
    BY <2>6, <2>7
  <2>10. Cat(Cat(a, w), z) = Cat(a, Cat(w, z))
    BY ONLY <2>9, w \in Seq(S), z \in Seq(S), Bracket
  <2>11. Cat(w, z) \in Seq(S)
    BY ONLY w \in Seq(S), z \in Seq(S), Joined
  <2>12. IsPrefix(a, Cat(a, Cat(w, z)))
    BY ONLY <2>9, <2>11, PrefixIs
  <2> QED
    BY <1>1, <2>7, <2>8, <2>10, <2>12
<1> QED
  BY <1>2, <1>3

------------------------------------------------------------------------------
(* The events of a script.                                                  *)

\* The six kinds of events.
Loads(s, k, e)   == s.mod = "!" /\ e = Event(k, s.at, "load", s.what)
Posts(s, k, e)   == s.mod = "=" /\ e = Event(k, s.at, "post", s.what)
KeyDown(s, k, e) == IsTap(s) /\ e = Event(k, s.at + 2, "down", s.what)
KeyUp(s, k, e)   == IsTap(s) /\ e = Event(k, s.at + 5, "up", s.what)
ModDown(s, k, e) == IsTap(s) /\ s.mod \in Modifiers /\ e = Event(k, s.at, "down", <<s.mod>>)
ModUp(s, k, e)   == IsTap(s) /\ s.mod \in Modifiers /\ e = Event(k, s.at + 7, "up", <<s.mod>>)

LEMMA KindsOf ==
  ASSUME NEW s, NEW k, NEW e
  PROVE  e \in EventsOf(s, k) <=> \/ Loads(s, k, e) \/ Posts(s, k, e)
                                  \/ KeyDown(s, k, e) \/ KeyUp(s, k, e)
                                  \/ ModDown(s, k, e) \/ ModUp(s, k, e)
<1>1. CASE s.mod = "!"
  BY <1>1 DEF EventsOf, Loads, Posts, KeyDown, KeyUp, ModDown, ModUp, IsTap
<1>2. CASE s.mod = "="
  BY <1>2 DEF EventsOf, Loads, Posts, KeyDown, KeyUp, ModDown, ModUp, IsTap
<1>3. CASE IsTap(s)
  <2>1. PICK a, b, c, d : /\ a = Event(k, s.at + 2, "down", s.what)
                          /\ b = Event(k, s.at + 5, "up", s.what)
                          /\ c = Event(k, s.at, "down", <<s.mod>>)
                          /\ d = Event(k, s.at + 7, "up", <<s.mod>>)
    OBVIOUS
  <2>2. EventsOf(s, k) = {a, b} \cup (IF s.mod \in Modifiers THEN {c, d} ELSE {})
    BY <1>3, <2>1 DEF EventsOf, IsTap
  <2>3. ~Loads(s, k, e) /\ ~Posts(s, k, e)
    BY <1>3 DEF Loads, Posts, IsTap
  <2>4. /\ KeyDown(s, k, e) <=> e = a
        /\ KeyUp(s, k, e) <=> e = b
        /\ ModDown(s, k, e) <=> s.mod \in Modifiers /\ e = c
        /\ ModUp(s, k, e) <=> s.mod \in Modifiers /\ e = d
    BY <1>3, <2>1 DEF KeyDown, KeyUp, ModDown, ModUp
  <2> QED
    BY <2>2, <2>3, <2>4
<1> QED
  BY <1>1, <1>2, <1>3 DEF IsTap

\* What their fields are.
LEMMA EventFields ==
  ASSUME NEW s, NEW k, NEW e
  PROVE  /\ Loads(s, k, e) => e.kind = "load" /\ e.step = k /\ e.at = s.at /\ e.field = s.what
         /\ Posts(s, k, e) => e.kind = "post" /\ e.step = k /\ e.at = s.at /\ e.field = s.what
         /\ KeyDown(s, k, e) => e.kind = "down" /\ e.step = k /\ e.at = s.at + 2 /\ e.field[1] = s.what[1]
         /\ KeyUp(s, k, e) => e.kind = "up" /\ e.step = k /\ e.at = s.at + 5 /\ e.field[1] = s.what[1]
         /\ ModDown(s, k, e) => e.kind = "down" /\ e.step = k /\ e.at = s.at /\ e.field[1] = s.mod
         /\ ModUp(s, k, e) => e.kind = "up" /\ e.step = k /\ e.at = s.at + 7 /\ e.field[1] = s.mod
BY DEF Loads, Posts, KeyDown, KeyUp, ModDown, ModUp, Event

LEMMA StepOf ==
  ASSUME NEW script, NEW e \in Schedule(script)
  PROVE  /\ e.step \in 1 .. Len(script) /\ e \in EventsOf(script[e.step], e.step)
         /\ e.kind \in {"load", "post", "down", "up"}
         /\ e.kind = "load" => Loads(script[e.step], e.step, e)
         /\ e.kind = "post" => Posts(script[e.step], e.step, e)
         /\ e.kind = "down" => KeyDown(script[e.step], e.step, e) \/ ModDown(script[e.step], e.step, e)
         /\ e.kind = "up" => KeyUp(script[e.step], e.step, e) \/ ModUp(script[e.step], e.step, e)
<1>1. PICK k \in 1 .. Len(script) : e \in EventsOf(script[k], k)
  BY DEF Schedule
<1>2. PICK s : s = script[k]
  OBVIOUS
<1>3. \/ Loads(s, k, e) \/ Posts(s, k, e) \/ KeyDown(s, k, e) \/ KeyUp(s, k, e)
      \/ ModDown(s, k, e) \/ ModUp(s, k, e)
  BY <1>1, <1>2, KindsOf
<1>4. e.step = k
  BY <1>3, EventFields
<1>5. /\ e.kind \in {"load", "post", "down", "up"}
      /\ e.kind = "load" => Loads(s, k, e)
      /\ e.kind = "post" => Posts(s, k, e)
      /\ e.kind = "down" => KeyDown(s, k, e) \/ ModDown(s, k, e)
      /\ e.kind = "up" => KeyUp(s, k, e) \/ ModUp(s, k, e)
  BY <1>3, EventFields
<1> QED
  BY <1>1, <1>2, <1>4, <1>5

LEMMA Happens ==
  ASSUME NEW script, NEW k \in 1 .. Len(script), NEW e,
         \/ Loads(script[k], k, e) \/ Posts(script[k], k, e)
         \/ KeyDown(script[k], k, e) \/ KeyUp(script[k], k, e)
         \/ ModDown(script[k], k, e) \/ ModUp(script[k], k, e)
  PROVE  e \in Schedule(script)
BY KindsOf DEF Schedule

\* A field goes down and up again.
Pair(script, d, u) ==
  d \in Schedule(script) /\ u \in Schedule(script) /\ d.kind = "down" /\ Releases(u, d)

KeyPair(s, k, d, u) == KeyDown(s, k, d) /\ KeyUp(s, k, u)
ModPair(s, k, d, u) == ModDown(s, k, d) /\ ModUp(s, k, u)

LEMMA PairIs ==
  ASSUME NEW script, NEW from, Paced(script, from), NEW d, NEW u, Pair(script, d, u)
  PROVE  /\ d.step \in 1 .. Len(script) /\ IsTap(script[d.step])
         /\ script[d.step].what[1] \notin Modifiers
         /\ KeyPair(script[d.step], d.step, d, u) \/ ModPair(script[d.step], d.step, d, u)
<1>1. PICK k, s : k = d.step /\ s = script[k]
  OBVIOUS
<1>2. k \in 1 .. Len(script) /\ (KeyDown(s, k, d) \/ ModDown(s, k, d))
  BY <1>1, StepOf DEF Pair
<1>3. u.step = k /\ (KeyUp(s, k, u) \/ ModUp(s, k, u))
  BY <1>1, StepOf DEF Pair, Releases
<1>4. IsTap(s) /\ s.what[1] \notin Modifiers
  BY <1>1, <1>2 DEF KeyDown, ModDown, Paced
<1>5. u.field[1] = d.field[1]
  BY DEF Pair, Releases
<1>6. ~(KeyDown(s, k, d) /\ ModUp(s, k, u)) /\ ~(ModDown(s, k, d) /\ KeyUp(s, k, u))
  <2>1. ~(KeyDown(s, k, d) /\ ModUp(s, k, u))
    BY <1>4, <1>5, EventFields DEF ModUp
  <2>2. ~(ModDown(s, k, d) /\ KeyUp(s, k, u))
    BY <1>4, <1>5, EventFields DEF ModDown
  <2> QED
    BY <2>1, <2>2
<1> QED
  BY <1>1, <1>2, <1>3, <1>4, <1>6 DEF KeyPair, ModPair

\* Every release has its press.
LEMMA PressOf ==
  ASSUME NEW script, NEW from, Paced(script, from), NEW u \in Schedule(script), u.kind = "up"
  PROVE  \E d : Pair(script, d, u)
<1>1. PICK k, s : k = u.step /\ s = script[k]
  OBVIOUS
<1>2. k \in 1 .. Len(script) /\ (KeyUp(s, k, u) \/ ModUp(s, k, u)) /\ s.at \in Nat
  BY <1>1, StepOf, PacedStep
<1>3. CASE KeyUp(s, k, u)
  <2>1. PICK d : d = Event(k, s.at + 2, "down", s.what)
    OBVIOUS
  <2>2. KeyDown(s, k, d)
    BY <1>3, <2>1 DEF KeyDown, KeyUp
  <2>3. d \in Schedule(script)
    BY <1>1, <1>2, <2>2, Happens
  <2>4. d.kind = "down" /\ Releases(u, d)
    BY <1>2, <1>3, <2>2, EventFields DEF Releases
  <2> QED
    BY <2>3, <2>4 DEF Pair
<1>4. CASE ModUp(s, k, u)
  <2>1. PICK d : d = Event(k, s.at, "down", <<s.mod>>)
    OBVIOUS
  <2>2. ModDown(s, k, d)
    BY <1>4, <2>1 DEF ModDown, ModUp
  <2>3. d \in Schedule(script)
    BY <1>1, <1>2, <2>2, Happens
  <2>4. d.kind = "down" /\ Releases(u, d)
    BY <1>2, <1>4, <2>2, EventFields DEF Releases
  <2> QED
    BY <2>3, <2>4 DEF Pair
<1> QED
  BY <1>2, <1>3, <1>4

\* A pair lies within its step.
LEMMA PairInStep ==
  ASSUME NEW script, NEW from, Paced(script, from), NEW d, NEW u, Pair(script, d, u)
  PROVE  /\ d.step \in 1 .. Len(script) /\ script[d.step].at \in Nat /\ d.at \in Nat /\ u.at \in Nat
         /\ script[d.step].at <= d.at /\ d.at < u.at
         /\ u.at < script[d.step].at + Span(script[d.step])
<1>1. PICK k, s : k = d.step /\ s = script[k]
  OBVIOUS
<1>2. /\ k \in 1 .. Len(script) /\ IsTap(s)
      /\ KeyPair(s, k, d, u) \/ ModPair(s, k, d, u)
  BY <1>1, PairIs
<1>3. s.at \in Nat /\ Span(s) = 8
  BY <1>1, <1>2, PacedStep
<1>4. \/ d.at = s.at + 2 /\ u.at = s.at + 5
      \/ d.at = s.at /\ u.at = s.at + 7
  BY <1>2, EventFields DEF KeyPair, ModPair
<1> QED
  BY <1>1, <1>2, <1>3, <1>4

\* No field is pressed while it is down.
LEMMA Exclusive ==
  ASSUME NEW script, NEW from, Paced(script, from),
         NEW d, NEW u, Pair(script, d, u), NEW c, NEW v, Pair(script, c, v),
         c.field[1] = d.field[1]
  PROVE  v = u \/ u.at < c.at \/ v.at < d.at
<1>1. PICK i, k, r, s : i = c.step /\ k = d.step /\ r = script[i] /\ s = script[k]
  OBVIOUS
<1>2. /\ k \in 1 .. Len(script) /\ s.at \in Nat /\ d.at \in Nat /\ u.at \in Nat
      /\ s.at <= d.at /\ u.at < s.at + Span(s)
  BY <1>1, PairInStep
<1>3. /\ i \in 1 .. Len(script) /\ r.at \in Nat /\ c.at \in Nat /\ v.at \in Nat
      /\ r.at <= c.at /\ v.at < r.at + Span(r)
  BY <1>1, PairInStep
<1>4. Span(r) \in Nat /\ Span(s) \in Nat
  BY <1>1, <1>2, <1>3, PacedStep
<1>5. CASE i < k
  <2>1. r.at + Span(r) <= s.at
    BY <1>1, <1>2, <1>3, <1>5, Later
  <2>2. v.at < d.at
    <3>1. PICK a, b, h, x, y : a = r.at /\ b = s.at /\ h = Span(r) /\ x = v.at /\ y = d.at
      OBVIOUS
    <3>2. /\ a \in Nat /\ b \in Nat /\ h \in Nat /\ x \in Nat /\ y \in Nat
          /\ x < a + h /\ a + h <= b /\ b <= y
      BY <1>2, <1>3, <1>4, <2>1, <3>1
    <3> QED
      BY <3>1, <3>2
  <2> QED
    BY <2>2
<1>6. CASE k < i
  <2>1. s.at + Span(s) <= r.at
    BY <1>1, <1>2, <1>3, <1>6, Later
  <2>2. u.at < c.at
    <3>1. PICK a, b, h, x, y : a = s.at /\ b = r.at /\ h = Span(s) /\ x = u.at /\ y = c.at
      OBVIOUS
    <3>2. /\ a \in Nat /\ b \in Nat /\ h \in Nat /\ x \in Nat /\ y \in Nat
          /\ x < a + h /\ a + h <= b /\ b <= y
      BY <1>2, <1>3, <1>4, <2>1, <3>1
    <3> QED
      BY <3>1, <3>2
  <2> QED
    BY <2>2
<1>7. CASE i = k
  <2>1. /\ s.what[1] \notin Modifiers
        /\ KeyPair(s, k, d, u) \/ ModPair(s, k, d, u)
    BY <1>1, PairIs
  <2>2. KeyPair(s, k, c, v) \/ ModPair(s, k, c, v)
    BY <1>1, <1>7, PairIs
  <2>3. CASE KeyPair(s, k, d, u) /\ KeyPair(s, k, c, v)
    BY <2>3 DEF KeyPair, KeyUp
  <2>4. CASE ModPair(s, k, d, u) /\ ModPair(s, k, c, v)
    BY <2>4 DEF ModPair, ModUp
  <2>5. ~(KeyPair(s, k, d, u) /\ ModPair(s, k, c, v))
    BY <2>1, EventFields DEF KeyPair, ModPair, ModUp, ModDown
  <2>6. ~(ModPair(s, k, d, u) /\ KeyPair(s, k, c, v))
    BY <2>1, EventFields DEF KeyPair, ModPair, ModUp, ModDown
  <2> QED
    BY <2>1, <2>2, <2>3, <2>4, <2>5, <2>6
<1> QED
  BY <1>2, <1>3, <1>5, <1>6, <1>7

------------------------------------------------------------------------------
(* An event is run.                                                         *)

LEMMA EventsAre ==
  ASSUME IInv, InTime
  PROVE  /\ AllEvents = Schedule(steps) /\ todo \subseteq AllEvents
         /\ Ran \cup todo = AllEvents /\ Ran \cap todo = {}
         /\ \A e \in AllEvents : e.at \in Nat
         /\ now \in Nat /\ start \in Nat /\ start <= now
BY DEF IInv, InTime, AllEvents, Events, Paired, Ran, Paced

LEMMA RunOrder ==
  ASSUME IInv, InTime, NEW e \in Due, Run(e)
  PROVE  /\ e \in todo /\ e \in AllEvents /\ e \notin Ran /\ e.at <= now
         /\ AllEvents' = AllEvents /\ todo' = todo \ {e} /\ Ran' = Ran \cup {e}
         /\ \A f \in todo : e.at <= f.at
         /\ \A f \in Ran : f.at <= e.at
<1>1. e \in todo /\ e \in AllEvents /\ e \notin Ran /\ e.at <= now /\ now \in Nat
  BY EventsAre DEF Due
<1>2. AllEvents' = AllEvents /\ todo' = todo \ {e}
  BY DEF Run, AllEvents
<1>3. Ran' = Ran \cup {e}
  BY <1>1, <1>2 DEF Ran
<1>4. ASSUME NEW f \in todo
      PROVE  e.at <= f.at
  <2>1. e.at \in Nat /\ f.at \in Nat
    BY <1>1, EventsAre
  <2>2. CASE f.at <= now
    BY <2>2 DEF Run, Due
  <2>3. CASE ~(f.at <= now)
    BY <1>1, <2>1, <2>3
  <2> QED
    BY <2>2, <2>3
<1>5. \A f \in Ran : f.at <= e.at
  BY <1>1 DEF InTime
<1> QED
  BY <1>1, <1>2, <1>3, <1>4, <1>5

LEMMA HeldRun ==
  ASSUME IInv, InTime, NEW e \in Due, Run(e)
  PROVE  down' = HeldNow'
<1>1. /\ e \in todo /\ e \in AllEvents /\ e \notin Ran /\ e.at <= now
      /\ AllEvents' = AllEvents /\ todo' = todo \ {e} /\ Ran' = Ran \cup {e}
      /\ \A f \in todo : e.at <= f.at
      /\ \A f \in Ran : f.at <= e.at
  BY RunOrder
<1>2. /\ AllEvents = Schedule(steps) /\ Ran \cup todo = AllEvents
      /\ \A f \in AllEvents : f.at \in Nat
  BY EventsAre
<1>3. down' = Held(HeldNow, e)
  BY DEF Run, InTime
<1>4. HeldNow' = {d.field[1] : d \in {f \in Ran \cup {e} : f.kind = "down" /\ \E u \in todo \ {e} : Releases(u, f)}}
  BY <1>1 DEF HeldNow
<1>5. Paced(steps, start)
  BY DEF InTime
<1>6. CASE e.kind = "down"
  <2>1. PICK u \in todo : Releases(u, e)
    BY <1>1, <1>6, ReleaseIsToCome
  <2>2. u # e
    BY <1>6, <2>1 DEF Releases
  <2>3. \A f, v : Releases(v, f) => v # e
    BY <1>6 DEF Releases
  <2>4. HeldNow' = HeldNow \cup {e.field[1]}
    <3>1. ASSUME NEW x \in HeldNow'
          PROVE  x \in HeldNow \cup {e.field[1]}
      <4>1. PICK d \in Ran \cup {e} : /\ x = d.field[1] /\ d.kind = "down"
                                      /\ \E v \in todo \ {e} : Releases(v, d)
        BY <1>4
      <4> QED
        BY <4>1 DEF HeldNow
    <3>2. ASSUME NEW x \in HeldNow
          PROVE  x \in HeldNow'
      <4>1. PICK d \in Ran : x = d.field[1] /\ d.kind = "down" /\ \E v \in todo : Releases(v, d)
        BY DEF HeldNow
      <4>2. \E v \in todo \ {e} : Releases(v, d)
        BY <2>3, <4>1
      <4> QED
        BY <1>4, <4>1, <4>2
    <3>3. e.field[1] \in HeldNow'
      BY <1>4, <1>6, <2>1, <2>2
    <3> QED
      BY <3>1, <3>2, <3>3
  <2> QED
    BY <1>3, <1>6, <2>4 DEF Held
<1>7. CASE e.kind = "up"
  <2>1. PICK b : Pair(steps, b, e)
    BY <1>1, <1>2, <1>5, <1>7, PressOf
  <2>2. b.field[1] = e.field[1] /\ b.at < e.at
    BY <2>1 DEF Pair, Releases
  <2>3. HeldNow' = HeldNow \ {e.field[1]}
    <3>1. ASSUME NEW x \in HeldNow'
          PROVE  x \in HeldNow \ {e.field[1]}
      <4>1. PICK d \in Ran \cup {e} : /\ x = d.field[1] /\ d.kind = "down"
                                      /\ \E v \in todo \ {e} : Releases(v, d)
        BY <1>4
      <4>2. PICK v \in todo \ {e} : Releases(v, d)
        BY <4>1
      <4>3. d \in Ran
        BY <1>7, <4>1
      <4>4. Pair(steps, d, v)
        BY <1>2, <4>1, <4>2, <4>3 DEF Pair
      <4>5. x # e.field[1]
        <5> SUFFICES ASSUME x = e.field[1] PROVE FALSE
          OBVIOUS
        <5>1. b.field[1] = d.field[1]
          BY <2>2, <4>1
        <5>2. e = v \/ v.at < b.at \/ e.at < d.at
          BY <1>5, <2>1, <4>4, <5>1, Exclusive
        <5>3. d.at <= e.at /\ e.at <= v.at
          BY <1>1, <4>3
        <5>4. d.at \in Nat /\ e.at \in Nat /\ v.at \in Nat /\ b.at \in Nat
          BY <1>1, <1>2, <2>1, <4>4 DEF Pair
        <5> QED
          BY <2>2, <4>2, <5>2, <5>3, <5>4
      <4> QED
        BY <4>1, <4>2, <4>3, <4>5 DEF HeldNow
    <3>2. ASSUME NEW x \in HeldNow, x # e.field[1]
          PROVE  x \in HeldNow'
      <4>1. PICK d \in Ran : x = d.field[1] /\ d.kind = "down" /\ \E v \in todo : Releases(v, d)
        BY DEF HeldNow
      <4>2. PICK v \in todo : Releases(v, d)
        BY <4>1
      <4>3. v # e
        BY <3>2, <4>1, <4>2 DEF Releases
      <4> QED
        BY <1>4, <4>1, <4>2, <4>3
    <3> QED
      BY <3>1, <3>2
  <2> QED
    BY <1>3, <1>7, <2>3 DEF Held
<1>8. CASE e.kind # "down" /\ e.kind # "up"
  <2>1. \A f, v : Releases(v, f) => v # e
    BY <1>8 DEF Releases
  <2>2. HeldNow' = HeldNow
    <3>1. ASSUME NEW x \in HeldNow'
          PROVE  x \in HeldNow
      <4>1. PICK d \in Ran \cup {e} : /\ x = d.field[1] /\ d.kind = "down"
                                      /\ \E v \in todo \ {e} : Releases(v, d)
        BY <1>4
      <4> QED
        BY <1>8, <4>1 DEF HeldNow
    <3>2. ASSUME NEW x \in HeldNow
          PROVE  x \in HeldNow'
      <4>1. PICK d \in Ran : x = d.field[1] /\ d.kind = "down" /\ \E v \in todo : Releases(v, d)
        BY DEF HeldNow
      <4>2. \E v \in todo \ {e} : Releases(v, d)
        BY <2>1, <4>1
      <4> QED
        BY <1>4, <4>1, <4>2
    <3> QED
      BY <3>1, <3>2
  <2> QED
    BY <1>3, <1>8, <2>2 DEF Held
<1> QED
  BY <1>6, <1>7, <1>8

LEMMA MountsRun ==
  ASSUME IInv, InTime, NEW e \in Due, Run(e)
  PROVE  Mounts'
<1>1. e \in AllEvents /\ Ran' = Ran \cup {e} /\ \A f \in Ran : f.at <= e.at
  BY RunOrder
<1>2. disk' = Mounted(disk, e) /\ Mounts /\ e.at \in Nat
  BY <1>1, EventsAre DEF Run, InTime
<1>3. CASE e.kind = "load"
  <2>1. disk' = e.field[1]
    BY <1>2, <1>3 DEF Mounted
  <2>2. e.at <= e.at
    BY <1>2
  <2> QED
    BY <1>1, <1>3, <2>1, <2>2 DEF Mounts
<1>4. CASE e.kind # "load"
  <2>1. disk' = disk
    BY <1>2, <1>4 DEF Mounted
  <2>2. CASE disk = First /\ \A f \in Ran : f.kind # "load"
    BY <1>1, <1>4, <2>1, <2>2 DEF Mounts
  <2>3. CASE \E f \in Ran : /\ f.kind = "load" /\ disk = f.field[1]
                            /\ \A h \in Ran : h.kind = "load" => h.at <= f.at
    BY <1>1, <1>4, <2>1, <2>3 DEF Mounts
  <2> QED
    BY <1>2, <2>2, <2>3 DEF Mounts
<1> QED
  BY <1>3, <1>4

\* A text that was posted.
LEMMA PostedIs ==
  ASSUME IInv, InTime, NEW k, Posted(k)
  PROVE  /\ k \in 1 .. Len(steps) /\ steps[k].mod = "=" /\ IsSeq(steps[k].what)
         /\ Len(steps[k].what) \in Nat /\ steps[k].at \in Nat
         /\ Span(steps[k]) = Len(steps[k].what) * CharTime
         /\ Len(Row(steps, start, k)) = Len(steps[k].what)
         /\ \E e \in Ran : Posts(steps[k], k, e)
<1>1. PICK e \in Ran : e.kind = "post" /\ e.step = k
  BY DEF Posted
<1>2. e \in Schedule(steps)
  BY EventsAre
<1>3. k \in 1 .. Len(steps) /\ Posts(steps[k], k, e)
  BY <1>1, <1>2, StepOf
<1>4. Paced(steps, start)
  BY DEF InTime
<1>5. steps[k].mod = "="
  BY <1>3 DEF Posts
<1>6. IsSeq(steps[k].what)
  BY <1>3, <1>4, <1>5 DEF Paced
<1> QED
  BY <1>3, <1>4, <1>5, <1>6, PacedStep, RowIs

LEMMA QueueRun ==
  ASSUME IInv, InTime, NEW e \in Due, Run(e)
  PROVE  (Idle \/ \E k \in 1 .. Len(steps) : Types1(k))'
<1>1. /\ e \in todo /\ e \in AllEvents /\ e \notin Ran /\ e.at <= now /\ Ran' = Ran \cup {e}
      /\ AllEvents = Schedule(steps) /\ now \in Nat /\ start \in Nat /\ start <= now
  BY RunOrder, EventsAre
<1>2. /\ queue' = IF e.kind = "post" THEN queue \o e.field ELSE queue
      /\ busy' = busy /\ now' = now /\ steps' = steps /\ start' = start
  BY DEF Run
<1>3. \A j : Posted(j)' <=> Posted(j) \/ (e.kind = "post" /\ e.step = j)
  BY <1>1 DEF Posted
<1>4. \A j : (Through(j)' <=> Through(j)) /\ Rest(j)' = Rest(j)
  BY <1>2 DEF Through, Rest
<1>5. CASE e.kind # "post"
  <2>1. queue' = queue /\ \A j : Posted(j)' <=> Posted(j)
    BY <1>2, <1>3, <1>5
  <2>2. Idle => Idle'
    BY <1>2, <1>4, <2>1 DEF Idle
  <2>3. \A k : Types1(k) => Types1(k)'
    BY <1>2, <1>4, <2>1 DEF Types1
  <2> QED
    BY <1>2, <2>2, <2>3 DEF InTime
<1>6. CASE e.kind = "post"
  <2>1. PICK k, s : k = e.step /\ s = steps[k]
    OBVIOUS
  <2>2. Paced(steps, start)
    BY DEF InTime
  <2>3. k \in 1 .. Len(steps) /\ Posts(s, k, e)
    BY <1>1, <1>6, <2>1, StepOf
  <2>4. s.mod = "=" /\ e.at = s.at /\ e.field = s.what
    BY <2>3, EventFields DEF Posts
  <2>5. start <= s.at /\ IsSeq(s.what)
    BY <2>1, <2>2, <2>3, <2>4 DEF Paced
  <2>6. PICK len : len = Len(s.what)
    OBVIOUS
  <2>7. s.at \in Nat /\ len \in Nat /\ Span(s) = len * CharTime
    BY <2>1, <2>2, <2>3, <2>4, <2>6, PacedStep
  <2>8. now = s.at
    <3>1. now = start \/ now <= e.at
      BY <1>1 DEF InTime
    <3> QED
      BY <1>1, <2>4, <2>5, <2>7, <3>1
  <2>9. Prog(s, start, now) = 0
    BY <1>1, <2>1, <2>2, <2>3, <2>8, BeforeStep
  <2>10. PICK S : s.what \in Seq(S)
    BY <2>5 DEF IsSeq
  <2>11. ASSUME len = 0
         PROVE  s.what = <<>> /\ Through(k)
    BY <2>1, <2>6, <2>9, <2>10, <2>11, EmptySeq DEF Through
  <2>12. CASE Idle
    <3>1. queue' = s.what
      BY <1>2, <1>6, <2>4, <2>10, <2>12, EmptyIs DEF Idle
    <3>2. busy' = 0 /\ \A j \in 1 .. Len(steps) : Posted(j) => Through(j)
      BY <1>2, <2>12 DEF Idle
    <3>3. CASE len = 0
      <4>1. queue' = <<>>
        BY <2>11, <3>1, <3>3
      <4>2. \A j \in 1 .. Len(steps) : Posted(j)' => Through(j)'
        BY <1>3, <1>4, <2>1, <2>11, <3>2, <3>3
      <4> QED
        BY <1>2, <3>2, <4>1, <4>2 DEF Idle
    <3>4. CASE len # 0
      <4>1. Rest(k) = s.what
        <5>1. Rest(k) = [i \in 1 .. len - 0 |-> s.what[0 + i]]
          BY <2>1, <2>6, <2>9 DEF Rest
        <5>2. s.what \in [1 .. len -> S]
          BY <2>6, <2>10, LenProperties
        <5>3. [i \in 1 .. len - 0 |-> s.what[0 + i]] = [i \in 1 .. len |-> s.what[i]]
          BY <2>7
        <5> QED
          BY <5>1, <5>2, <5>3
      <4>2. now < s.at + Span(s)
        <5>1. PICK c \in Nat \ {0} : c = CharTime
          BY RunsTimed
        <5>2. 0 * c + c <= len * c
          BY <2>7, <3>4, Steps
        <5>3. len * c \in Nat
          BY <2>7
        <5> QED
          BY <2>7, <2>8, <5>1, <5>2, <5>3
      <4>3. now = s.at + Prog(s, start, now) * CharTime + busy'
        <5>1. CharTime \in Nat
          BY RunsTimed
        <5>2. Prog(s, start, now) * CharTime = 0
          BY <2>9, <5>1
        <5> QED
          BY <2>7, <2>8, <3>2, <5>2
      <4>4. \A j \in 1 .. Len(steps) : j # k /\ Posted(j)' => Through(j)'
        BY <1>3, <1>4, <2>1, <3>2
      <4>5. Posted(k)' /\ s.at <= now
        BY <1>3, <1>6, <2>1, <2>7, <2>8
      <4>6. Types1(k)'
        BY <1>2, <1>4, <2>1, <3>1, <4>1, <4>2, <4>3, <4>4, <4>5 DEF Types1
      <4> QED
        BY <1>2, <2>3, <4>6
    <3> QED
      BY <3>3, <3>4
  <2>13. ASSUME NEW i \in 1 .. Len(steps), Types1(i)
         PROVE  Types1(i)'
    <3>1. /\ Posted(i) /\ steps[i].at <= now /\ now < steps[i].at + Span(steps[i])
          /\ queue = Rest(i)
          /\ now = steps[i].at + Prog(steps[i], start, now) * CharTime + busy
          /\ \A j \in 1 .. Len(steps) : j # i /\ Posted(j) => Through(j)
      BY <2>13 DEF Types1
    <3>2. i # k
      <4> SUFFICES ASSUME i = k PROVE FALSE
        OBVIOUS
      <4>1. PICK f \in Ran : Posts(s, k, f)
        BY <2>1, <3>1, PostedIs
      <4>2. f = e
        BY <2>3, <4>1 DEF Posts
      <4> QED
        BY <1>1, <4>2
    <3>3. steps[i].at \in Nat /\ Span(steps[i]) \in Nat /\ Span(s) \in Nat
      BY <2>1, <2>2, <2>3, PacedStep
    <3>4. ~(i < k)
      <4> SUFFICES ASSUME i < k PROVE FALSE
        OBVIOUS
      <4>1. steps[i].at + Span(steps[i]) <= s.at
        BY <2>1, <2>2, <2>3, Later
      <4> QED
        BY <2>7, <2>8, <3>1, <3>3, <4>1
    <3>5. len = 0
      <4>1. k < i
        BY <2>3, <3>2, <3>4
      <4>2. s.at + Span(s) <= steps[i].at
        BY <2>1, <2>2, <2>3, <4>1, Later
      <4>3. Span(s) = 0
        BY <2>7, <2>8, <3>1, <3>3, <4>2
      <4>4. PICK c \in Nat \ {0} : c = CharTime
        BY RunsTimed
      <4>5. len # 0 => 0 * c + c <= len * c
        BY <2>7, Steps
      <4>6. len * c \in Nat
        BY <2>7
      <4> QED
        BY <2>7, <4>3, <4>4, <4>5, <4>6
    <3>6. queue' = queue
      <4>1. queue' = queue \o <<>>
        BY <1>2, <1>6, <2>4, <2>11, <3>5
      <4>2. PICK m, r : m = Len(steps[i].what) /\ r = Prog(steps[i], start, now)
        OBVIOUS
      <4>3. m \in Nat /\ r \in 0 .. m
        BY <1>1, <2>2, <3>1, <4>2, PostedIs, ProgIs
      <4>4. m - r \in Nat
        BY <4>3
      <4>5. queue = [x \in 1 .. m - r |-> steps[i].what[r + x]]
        BY <3>1, <4>2 DEF Rest
      <4>6. PICK n, T : n = m - r /\ T = {steps[i].what[r + x] : x \in 1 .. m - r}
        OBVIOUS
      <4>7. queue \in [1 .. n -> T]
        BY <4>5, <4>6
      <4>8. queue \in Seq(T)
        BY <4>4, <4>6, <4>7, FcnIsSeq
      <4> QED
        BY <4>1, <4>8, EmptyIs
    <3>7. \A j \in 1 .. Len(steps) : j # i /\ Posted(j)' => Through(j)'
      BY <1>3, <1>4, <2>1, <2>11, <3>1, <3>5
    <3>8. Posted(i)' /\ queue' = Rest(i)'
      BY <1>3, <1>4, <3>1, <3>6
    <3> QED
      BY <1>2, <3>1, <3>7, <3>8 DEF Types1
  <2> QED
    BY <1>2, <2>12, <2>13 DEF InTime
<1> QED
  BY <1>5, <1>6

LEMMA RunInTime ==
  ASSUME IInv, InTime, NEW e \in Due, Run(e)
  PROVE  InTime'
<1>1. /\ e \in todo /\ e \in AllEvents /\ e \notin Ran /\ e.at <= now
      /\ AllEvents' = AllEvents /\ todo' = todo \ {e} /\ Ran' = Ran \cup {e}
      /\ \A f \in todo : e.at <= f.at
  BY RunOrder
<1>2. /\ steps' = steps /\ driver' = driver /\ start' = start /\ now' = now
      /\ last' = last /\ seen' = seen /\ wanted' = wanted
  BY DEF Run
<1>3. down' = HeldNow'
  BY HeldRun
<1>4. Mounts'
  BY MountsRun
<1>5. (Idle \/ \E k \in 1 .. Len(steps) : Types1(k))'
  BY QueueRun
<1>6. \A f \in Ran' : f.at <= now /\ \A h \in todo' : f.at <= h.at
  BY <1>1 DEF InTime
<1>7. now = start \/ \A f \in todo' : now <= f.at
  BY <1>1 DEF InTime
<1> QED
  BY <1>2, <1>3, <1>4, <1>5, <1>6, <1>7 DEF InTime

------------------------------------------------------------------------------
(* A frame passes.                                                          *)

LEMMA DueNone ==
  ASSUME IInv, InTime, Due = {}
  PROVE  /\ \A e \in Ran : e \in Schedule(steps) /\ e.at \in Nat /\ e.at <= now
         /\ \A e \in todo : e \in Schedule(steps) /\ e.at \in Nat /\ now < e.at
         /\ \A e \in Schedule(steps) : e.at <= now => e \in Ran
         /\ \A e \in Schedule(steps) : now < e.at => e \in todo
<1>1. /\ AllEvents = Schedule(steps) /\ Ran \cup todo = AllEvents
      /\ \A e \in AllEvents : e.at \in Nat
      /\ now \in Nat
  BY EventsAre
<1>2. \A e \in Ran : e.at <= now
  BY DEF InTime
<1>3. ASSUME NEW e \in todo
      PROVE  now < e.at
  <2>1. ~(e.at <= now)
    BY DEF Due
  <2> QED
    BY <1>1, <2>1
<1>4. \A e \in AllEvents : e.at <= now => ~(now < e.at)
  BY <1>1
<1> QED
  BY <1>1, <1>2, <1>3, <1>4

LEMMA OneAtATime ==
  ASSUME NEW script, NEW from, Paced(script, from), NEW t \in Nat,
         NEW i \in 1 .. Len(script), NEW k \in 1 .. Len(script),
         script[i].at <= t, t < script[i].at + Span(script[i]),
         script[k].at <= t, t < script[k].at + Span(script[k])
  PROVE  i = k
<1>1. /\ script[i].at \in Nat /\ Span(script[i]) \in Nat
      /\ script[k].at \in Nat /\ Span(script[k]) \in Nat
  BY PacedStep
<1>2. ~(i < k)
  BY <1>1, Later
<1>3. ~(k < i)
  BY <1>1, Later
<1>4. i \in Nat /\ k \in Nat
  BY DEF Paced
<1> QED
  BY <1>2, <1>3, <1>4

LEMMA HeldIn ==
  ASSUME NEW script, NEW from, Paced(script, from), NEW t \in Nat, NEW k \in 1 .. Len(script),
         KeyHeld(script[k], t) \/ ModHeld(script[k], t)
  PROVE  /\ IsTap(script[k]) /\ script[k].at \in Nat /\ Span(script[k]) = 8
         /\ script[k].at <= t /\ t < script[k].at + Span(script[k])
<1>1. script[k].at \in Nat
  BY PacedStep
<1>2. IsTap(script[k])
  BY DEF KeyHeld, ModHeld, Modifiers, IsTap
<1>3. Span(script[k]) = 8
  BY <1>2, PacedStep
<1> QED
  BY <1>1, <1>2, <1>3 DEF KeyHeld, ModHeld

\* What is down in a frame.
LEMMA HeldIs ==
  ASSUME IInv, InTime, Due = {}
  PROVE  down = FieldsAt(steps, now)
<1>0. Paced(steps, start) /\ now \in Nat /\ down = HeldNow
  BY EventsAre DEF InTime
<1>1. ASSUME NEW x \in HeldNow
      PROVE  x \in FieldsAt(steps, now)
  <2>1. PICK d \in Ran : x = d.field[1] /\ d.kind = "down" /\ \E u \in todo : Releases(u, d)
    BY DEF HeldNow
  <2>2. PICK u \in todo : Releases(u, d)
    BY <2>1
  <2>3. Pair(steps, d, u) /\ d.at <= now /\ now < u.at
    BY <2>1, <2>2, DueNone DEF Pair
  <2>4. PICK k, s : k = d.step /\ s = steps[k]
    OBVIOUS
  <2>5. k \in 1 .. Len(steps) /\ IsTap(s) /\ (KeyPair(s, k, d, u) \/ ModPair(s, k, d, u))
    BY <1>0, <2>3, <2>4, PairIs
  <2>6. CASE KeyPair(s, k, d, u)
    <3>1. d.at = s.at + 2 /\ u.at = s.at + 5 /\ x = s.what[1]
      BY <2>1, <2>6, EventFields DEF KeyPair
    <3>2. KeyHeld(s, now)
      BY <2>3, <2>5, <3>1 DEF KeyHeld
    <3> QED
      BY <2>4, <2>5, <3>1, <3>2 DEF FieldsAt
  <2>7. CASE ModPair(s, k, d, u)
    <3>1. d.at = s.at /\ u.at = s.at + 7 /\ x = s.mod /\ s.mod \in Modifiers
      BY <2>1, <2>7, EventFields DEF ModPair, ModDown
    <3>2. ModHeld(s, now)
      BY <2>3, <3>1 DEF ModHeld
    <3> QED
      BY <2>4, <2>5, <3>1, <3>2 DEF FieldsAt
  <2> QED
    BY <2>5, <2>6, <2>7
<1>2. ASSUME NEW x \in FieldsAt(steps, now)
      PROVE  x \in HeldNow
  <2>1. CASE \E k \in 1 .. Len(steps) : KeyHeld(steps[k], now) /\ x = steps[k].what[1]
    <3>1. PICK k \in 1 .. Len(steps) : KeyHeld(steps[k], now) /\ x = steps[k].what[1]
      BY <2>1
    <3>2. PICK s, d, u : /\ s = steps[k] /\ d = Event(k, s.at + 2, "down", s.what)
                         /\ u = Event(k, s.at + 5, "up", s.what)
      OBVIOUS
    <3>3. KeyDown(s, k, d) /\ KeyUp(s, k, u)
      BY <3>1, <3>2 DEF KeyDown, KeyUp, KeyHeld
    <3>4. d \in Schedule(steps) /\ u \in Schedule(steps)
      BY <3>2, <3>3, Happens
    <3>5. /\ d.kind = "down" /\ d.step = k /\ d.at = s.at + 2 /\ d.field[1] = s.what[1]
          /\ u.kind = "up" /\ u.step = k /\ u.at = s.at + 5 /\ u.field[1] = s.what[1]
      BY <3>3, EventFields
    <3>6. s.at \in Nat /\ s.at + 2 <= now /\ now < s.at + 5
      BY <1>0, <3>1, <3>2, PacedStep DEF KeyHeld
    <3>7. d \in Ran /\ u \in todo
      BY <3>4, <3>5, <3>6, DueNone
    <3>8. Releases(u, d)
      BY <3>5, <3>6 DEF Releases
    <3> QED
      BY <3>1, <3>2, <3>5, <3>7, <3>8 DEF HeldNow
  <2>2. CASE \E k \in 1 .. Len(steps) : ModHeld(steps[k], now) /\ x = steps[k].mod
    <3>1. PICK k \in 1 .. Len(steps) : ModHeld(steps[k], now) /\ x = steps[k].mod
      BY <2>2
    <3>2. PICK s, d, u : /\ s = steps[k] /\ d = Event(k, s.at, "down", <<s.mod>>)
                         /\ u = Event(k, s.at + 7, "up", <<s.mod>>)
      OBVIOUS
    <3>3. ModDown(s, k, d) /\ ModUp(s, k, u)
      <4>1. IsTap(s) /\ s.mod \in Modifiers
        BY <1>0, <3>1, <3>2, HeldIn DEF ModHeld
      <4> QED
        BY <3>2, <4>1 DEF ModDown, ModUp
    <3>4. d \in Schedule(steps) /\ u \in Schedule(steps)
      BY <3>2, <3>3, Happens
    <3>5. /\ d.kind = "down" /\ d.step = k /\ d.at = s.at /\ d.field[1] = s.mod
          /\ u.kind = "up" /\ u.step = k /\ u.at = s.at + 7 /\ u.field[1] = s.mod
      BY <3>3, EventFields
    <3>6. s.at \in Nat /\ s.at <= now /\ now < s.at + 7
      BY <1>0, <3>1, <3>2, PacedStep DEF ModHeld
    <3>7. d \in Ran /\ u \in todo
      BY <3>4, <3>5, <3>6, DueNone
    <3>8. Releases(u, d)
      BY <3>5, <3>6 DEF Releases
    <3> QED
      BY <3>1, <3>2, <3>5, <3>7, <3>8 DEF HeldNow
  <2> QED
    BY <2>1, <2>2 DEF FieldsAt
<1> QED
  BY <1>0, <1>1, <1>2

LEMMA MaxOf ==
  ASSUME NEW n \in Nat, NEW S \in SUBSET (1 .. n), S # {}
  PROVE  Max(S) \in S /\ \A m \in S : m <= Max(S)
<1>1. PICK T : T = {m \in Nat : \A j \in S : j <= m}
  OBVIOUS
<1>2. n \in T /\ T \in SUBSET Nat
  BY <1>1
<1>3. PICK m \in T : \A k \in T : m <= k
  BY <1>2, Least
<1>4. m \in Nat /\ \A j \in S : j <= m
  BY <1>1
<1>5. ASSUME m \notin S
      PROVE  FALSE
  <2>1. PICK s \in S : TRUE
    OBVIOUS
  <2>2. m - 1 \in Nat
    BY <1>4, <2>1
  <2>3. \A j \in S : j <= m - 1
    BY <1>4, <1>5
  <2>4. m <= m - 1
    BY <1>1, <1>3, <2>2, <2>3
  <2> QED
    BY <1>4, <2>4
<1>6. \A j \in S : m >= j
  BY <1>4
<1>7. \E x \in S : \A y \in S : x >= y
  BY <1>5, <1>6
<1>8. Max(S) \in S /\ \A y \in S : Max(S) >= y
  BY <1>7 DEF Max
<1> QED
  BY <1>8

\* The drive holds what the steps before the present one have left there.
LEMMA DiskIs ==
  ASSUME IInv, InTime, Due = {}, NEW k \in 1 .. Len(steps),
         steps[k].at <= now, now < steps[k].at + Span(steps[k])
  PROVE  disk = DiskOf(steps, k)
<1>0. /\ Paced(steps, start) /\ now \in Nat /\ Mounts
      /\ steps[k].at \in Nat /\ Span(steps[k]) \in Nat
  BY EventsAre, PacedStep DEF InTime
<1> DEFINE loads == {i \in 1 .. k - 1 : steps[i].mod = "!"}
<1>1. ASSUME NEW e \in Ran, e.kind = "load"
      PROVE  /\ e.step \in loads /\ e.step \in 1 .. Len(steps) /\ e.at = steps[e.step].at
             /\ e.field = steps[e.step].what
  <2>1. e \in Schedule(steps) /\ e.at <= now
    BY DueNone
  <2>2. PICK i : i = e.step
    OBVIOUS
  <2>3. i \in 1 .. Len(steps) /\ Loads(steps[i], i, e)
    BY <1>1, <2>1, <2>2, StepOf
  <2>4. steps[i].mod = "!" /\ e.at = steps[i].at /\ e.field = steps[i].what
    <3>1. PICK s : s = steps[i]
      OBVIOUS
    <3>2. s.mod = "!" /\ e.at = s.at /\ e.field = s.what
      BY <2>3, <3>1 DEF Loads, Event
    <3> QED
      BY <3>1, <3>2
  <2>5. i # k
    <3> SUFFICES ASSUME i = k PROVE FALSE
      OBVIOUS
    <3>1. Span(steps[k]) = 0
      BY <2>4 DEF Span
    <3> QED
      BY <1>0, <3>1
  <2>6. ~(k < i)
    <3> SUFFICES ASSUME k < i PROVE FALSE
      OBVIOUS
    <3>1. steps[k].at + Span(steps[k]) <= steps[i].at
      BY <1>0, <2>3, Later
    <3>2. steps[i].at \in Nat
      BY <1>0, <2>3, PacedStep
    <3> QED
      BY <1>0, <2>1, <2>4, <3>1, <3>2
  <2>7. i \in 1 .. k - 1
    BY <2>3, <2>5, <2>6
  <2> QED
    BY <2>2, <2>3, <2>4, <2>7
<1>2. ASSUME NEW i \in loads
      PROVE  \E e \in Ran : e.kind = "load" /\ e.step = i /\ e.at = steps[i].at
  <2>1. PICK e : e = Event(i, steps[i].at, "load", steps[i].what)
    OBVIOUS
  <2>2. Loads(steps[i], i, e) /\ i \in 1 .. Len(steps) /\ i < k
    BY <2>1 DEF Loads
  <2>3. e \in Schedule(steps) /\ e.kind = "load" /\ e.step = i /\ e.at = steps[i].at
    BY <2>2, Happens, EventFields
  <2>4. steps[i].at <= steps[k].at /\ steps[i].at \in Nat
    BY <1>0, <2>2, Later, PacedStep
  <2>5. e \in Ran
    BY <1>0, <2>3, <2>4, DueNone
  <2> QED
    BY <2>3, <2>5
<1>3. DiskOf(steps, k) = IF loads = {} THEN First ELSE steps[Max(loads)].what[1]
  BY DEF DiskOf
<1>4. CASE loads = {}
  <2>1. \A e \in Ran : e.kind # "load"
    BY <1>1, <1>4
  <2> QED
    BY <1>0, <1>3, <1>4, <2>1 DEF Mounts
<1>5. CASE loads # {}
  <2>1. loads \in SUBSET (1 .. k - 1) /\ k - 1 \in Nat
    OBVIOUS
  <2>2. PICK m : m = Max(loads)
    OBVIOUS
  <2>3. m \in loads /\ \A i \in loads : i <= m
    <3> HIDE DEF loads
    <3> QED
      BY <1>5, <2>1, <2>2, MaxOf
  <2>4. PICK f \in Ran : f.kind = "load" /\ f.step = m /\ f.at = steps[m].at
    BY <1>2, <2>3
  <2>5. PICK e \in Ran : /\ e.kind = "load" /\ disk = e.field[1]
                         /\ \A h \in Ran : h.kind = "load" => h.at <= e.at
    BY <1>0, <2>4 DEF Mounts
  <2>6. PICK i : i = e.step
    OBVIOUS
  <2>7. i \in loads /\ e.at = steps[i].at /\ e.field = steps[i].what /\ i <= m
        /\ i \in 1 .. Len(steps) /\ m \in 1 .. Len(steps)
    BY <1>1, <2>3, <2>4, <2>5, <2>6
  <2>8. steps[m].at <= steps[i].at
    BY <2>4, <2>5, <2>7
  <2>9. ~(i < m)
    <3> SUFFICES ASSUME i < m PROVE FALSE
      OBVIOUS
    <3>1. steps[i].at <= steps[m].at
      BY <1>0, <2>7, Later
    <3>2. steps[i].at # steps[m].at
      BY <1>0, <2>3, <2>7 DEF Paced
    <3>3. steps[i].at \in Nat /\ steps[m].at \in Nat
      BY <1>0, <2>7, PacedStep
    <3> QED
      BY <2>8, <3>1, <3>2, <3>3
  <2>10. i = m
    BY <2>7, <2>9
  <2> QED
    BY <1>3, <1>5, <2>2, <2>5, <2>7, <2>10
<1> QED
  BY <1>4, <1>5

\* The tap that the keyboard sees for the first time in this frame.
TapNow(k) ==
  KeyHeld(steps[k], now) /\ (now = start \/ steps[k].at + 2 = now)

LEMMA TapMoves ==
  ASSUME InTime, now \in Nat, NEW k \in 1 .. Len(steps), IsTap(steps[k])
  PROVE  /\ TapNow(k) => /\ Prog(steps[k], start, now) = 0
                         /\ Prog(steps[k], start, now + 1) = 1
                         /\ start < steps[k].at + 5
         /\ ~TapNow(k) => Prog(steps[k], start, now + 1) = Prog(steps[k], start, now)
<1>1. PICK s : s = steps[k]
  OBVIOUS
<1>2. /\ Paced(steps, start) /\ start \in Nat /\ s.at \in Nat /\ start <= now
  BY <1>1, PacedStep DEF InTime, Paced
<1>3. \A t : Prog(s, start, t) = IF start < s.at + 5 /\ start < t /\ s.at + 2 < t THEN 1 ELSE 0
  BY <1>1 DEF Prog, IsTap
<1>4. TapNow(k) <=> s.at + 2 <= now /\ now < s.at + 5 /\ (now = start \/ s.at + 2 = now)
  BY <1>1 DEF TapNow, KeyHeld
<1>5. CASE TapNow(k)
  <2>1. start < s.at + 5 /\ ~(start < now /\ s.at + 2 < now) /\ start < now + 1 /\ s.at + 2 < now + 1
    BY <1>2, <1>4, <1>5
  <2> QED
    BY <1>1, <1>3, <1>5, <2>1
<1>6. CASE ~TapNow(k)
  <2>1. (start < s.at + 5 /\ start < now + 1 /\ s.at + 2 < now + 1)
          <=> (start < s.at + 5 /\ start < now /\ s.at + 2 < now)
    BY <1>2, <1>4, <1>6
  <2> QED
    BY <1>1, <1>3, <1>6, <2>1
<1> QED
  BY <1>5, <1>6

\* What the keyboard finds pressed since its last look.
NewKeys == (down \ last) \ Modifiers

\* What the keyboard sees in a frame: the key of that tap, with its modifier.
LEMMA KeysSeen ==
  ASSUME IInv, InTime, Due = {}, NEW k \in 1 .. Len(steps), TapNow(k)
  PROVE  /\ NewKeys = {steps[k].what[1]}
         /\ down \cap Modifiers = {steps[k].mod} \cap Modifiers
<1>0. /\ Paced(steps, start) /\ now \in Nat /\ start \in Nat /\ start <= now
      /\ down = FieldsAt(steps, now)
      /\ last = IF now = start THEN {} ELSE FieldsAt(steps, now - 1)
  BY EventsAre, HeldIs DEF InTime
<1>1. PICK s, x : s = steps[k] /\ x = s.what[1]
  OBVIOUS
<1>2. /\ KeyHeld(s, now) /\ IsTap(s) /\ s.at \in Nat /\ Span(s) = 8
      /\ s.at <= now /\ now < s.at + Span(s)
      /\ s.at + 2 <= now /\ now < s.at + 5 /\ (now = start \/ s.at + 2 = now)
  BY <1>0, <1>1, HeldIn DEF TapNow, KeyHeld
<1>3. x \notin Modifiers
  BY <1>0, <1>1, <1>2 DEF Paced
<1>4. ASSUME NEW i \in 1 .. Len(steps), KeyHeld(steps[i], now) \/ ModHeld(steps[i], now)
      PROVE  i = k
  <2>1. steps[i].at <= now /\ now < steps[i].at + Span(steps[i])
    BY <1>0, <1>4, HeldIn
  <2> QED
    BY <1>0, <1>1, <1>2, <2>1, OneAtATime
<1>5. x \in down
  BY <1>0, <1>1, <1>2 DEF FieldsAt
<1>6. x \notin last
  <2> SUFFICES ASSUME x \in last PROVE FALSE
    OBVIOUS
  <2>1. now # start /\ last = FieldsAt(steps, now - 1)
    BY <1>0
  <2>2. now = s.at + 2 /\ now - 1 \in Nat
    BY <1>2, <2>1
  <2>3. PICK i \in 1 .. Len(steps) : \/ KeyHeld(steps[i], now - 1) /\ x = steps[i].what[1]
                                     \/ ModHeld(steps[i], now - 1) /\ x = steps[i].mod
    BY <2>1 DEF FieldsAt
  <2>4. KeyHeld(steps[i], now - 1)
    BY <1>3, <2>3 DEF ModHeld
  <2>5. steps[i].at <= now - 1 /\ now - 1 < steps[i].at + Span(steps[i])
    BY <1>0, <2>2, <2>4, HeldIn
  <2>6. i = k
    <3>1. s.at <= now - 1 /\ now - 1 < s.at + Span(s)
      BY <1>2, <2>2
    <3> QED
      BY <1>0, <1>1, <2>2, <2>5, <3>1, OneAtATime
  <2>7. ~(s.at + 2 <= now - 1)
    BY <1>2, <2>2
  <2> QED
    BY <1>1, <2>4, <2>6, <2>7 DEF KeyHeld
<1>7. ASSUME NEW y \in down, y \notin Modifiers
      PROVE  y = x
  <2>1. PICK i \in 1 .. Len(steps) : \/ KeyHeld(steps[i], now) /\ y = steps[i].what[1]
                                     \/ ModHeld(steps[i], now) /\ y = steps[i].mod
    BY <1>0 DEF FieldsAt
  <2>2. i = k
    BY <1>4, <2>1
  <2> QED
    BY <1>1, <1>7, <2>1, <2>2 DEF ModHeld
<1>8. NewKeys = {x}
  BY <1>3, <1>5, <1>6, <1>7 DEF NewKeys
<1>9. ASSUME NEW y \in Modifiers
      PROVE  y \in down <=> y = s.mod
  <2>1. ASSUME y \in down
        PROVE  y = s.mod
    <3>1. PICK i \in 1 .. Len(steps) : \/ KeyHeld(steps[i], now) /\ y = steps[i].what[1]
                                       \/ ModHeld(steps[i], now) /\ y = steps[i].mod
      BY <1>0, <2>1 DEF FieldsAt
    <3>2. i = k
      BY <1>4, <3>1
    <3> QED
      BY <1>1, <1>3, <1>9, <3>1, <3>2
  <2>2. ASSUME y = s.mod
        PROVE  y \in down
    <3>0. s.mod \in Modifiers /\ now < s.at + 7
      BY <1>0, <1>2, <1>9, <2>2
    <3>1. ModHeld(s, now)
      BY <1>2, <3>0 DEF ModHeld
    <3> QED
      BY <1>0, <1>1, <2>2, <3>1 DEF FieldsAt
  <2> QED
    BY <2>1, <2>2
<1>10. down \cap Modifiers = {s.mod} \cap Modifiers
  BY <1>9
<1> QED
  BY <1>1, <1>8, <1>10

LEMMA NoKeysSeen ==
  ASSUME IInv, InTime, Due = {}, \A k \in 1 .. Len(steps) : ~TapNow(k)
  PROVE  NewKeys = {}
<1>0. /\ Paced(steps, start) /\ now \in Nat /\ start \in Nat /\ start <= now
      /\ down = FieldsAt(steps, now)
      /\ last = IF now = start THEN {} ELSE FieldsAt(steps, now - 1)
  BY EventsAre, HeldIs DEF InTime
<1> SUFFICES ASSUME NEW x \in down, x \notin Modifiers PROVE x \in last
  BY DEF NewKeys
<1>1. PICK k \in 1 .. Len(steps) : \/ KeyHeld(steps[k], now) /\ x = steps[k].what[1]
                                   \/ ModHeld(steps[k], now) /\ x = steps[k].mod
  BY <1>0 DEF FieldsAt
<1>2. KeyHeld(steps[k], now) /\ x = steps[k].what[1]
  BY <1>1 DEF ModHeld
<1>3. now # start /\ steps[k].at + 2 # now
  BY <1>2 DEF TapNow
<1>4. steps[k].at \in Nat
  BY <1>0, PacedStep
<1>5. KeyHeld(steps[k], now - 1)
  BY <1>0, <1>2, <1>3, <1>4 DEF KeyHeld
<1> QED
  BY <1>0, <1>2, <1>3, <1>5 DEF FieldsAt

\* The orders of no key and of one.
LEMMA OrderOfNone ==
  ASSUME NEW order \in SetToSeqs({})
  PROVE  DOMAIN order = {}
<1>1. Cardinality({}) = 0
  BY FS_EmptySet
<1> QED
  BY <1>1 DEF SetToSeqs

LEMMA OrderOfOne ==
  ASSUME NEW x, NEW order \in SetToSeqs({x})
  PROVE  DOMAIN order = 1 .. 1 /\ order[1] = x
<1>1. Cardinality({x}) = 1
  BY FS_Singleton
<1> QED
  BY <1>1 DEF SetToSeqs

LEMMA TypedNone ==
  ASSUME NEW order, DOMAIN order = {}, NEW mods, NEW image
  PROVE  [i \in DOMAIN order |-> Key(order[i], mods, image)] = <<>>
<1>1. PICK f : f = [i \in DOMAIN order |-> Key(order[i], mods, image)]
  OBVIOUS
<1>2. f \in [1 .. 0 -> {}] 
  BY <1>1
<1>3. f \in Seq({}) /\ Len(f) = 0
  BY <1>2, FcnIsSeq
<1> QED
  BY <1>1, <1>3, EmptySeq

LEMMA TypedOne ==
  ASSUME NEW order, NEW x, DOMAIN order = 1 .. 1, order[1] = x, NEW mods, NEW image
  PROVE  [i \in DOMAIN order |-> Key(order[i], mods, image)] = <<Key(x, mods, image)>>
<1>1. PICK key : key = Key(x, mods, image)
  OBVIOUS
<1>2. PICK f, g : f = [i \in DOMAIN order |-> Key(order[i], mods, image)] /\ g = <<key>>
  OBVIOUS
<1>3. f \in [1 .. 1 -> {key}]
  BY <1>1, <1>2
<1>4. f \in Seq({key}) /\ Len(f) = 1
  BY <1>3, FcnIsSeq
<1>5. g \in Seq({key}) /\ Len(g) = 1 /\ g[1] = key
  BY <1>2
<1>6. f[1] = key
  BY <1>3
<1>7. \A i \in 1 .. Len(f) : f[i] = g[i]
  BY <1>4, <1>5, <1>6
<1>8. f = g
  BY <1>4, <1>5, <1>7, SameSeq
<1> QED
  BY <1>1, <1>2, <1>8

\* A text that is through has had its time.
LEMMA ThroughIs ==
  ASSUME IInv, InTime, NEW k, Posted(k), Through(k)
  PROVE  /\ steps[k].at + Span(steps[k]) <= now
         /\ Prog(steps[k], start, now + 1) = Len(steps[k].what)
         /\ Prog(steps[k], start, now + 1) = Prog(steps[k], start, now)
<1>1. /\ Paced(steps, start) /\ now \in Nat /\ start \in Nat /\ start <= now
  BY EventsAre DEF InTime
<1>2. PICK s, len : s = steps[k] /\ len = Len(s.what)
  OBVIOUS
<1>3. /\ k \in 1 .. Len(steps) /\ s.mod = "=" /\ len \in Nat /\ s.at \in Nat
      /\ Span(s) = len * CharTime /\ Len(Row(steps, start, k)) = len
      /\ \E e \in Ran : Posts(s, k, e)
  BY <1>2, PostedIs
<1>4. s.at <= now
  <2>1. PICK e \in Ran : Posts(s, k, e)
    BY <1>3
  <2>2. e.at = s.at
    BY <2>1, EventFields
  <2> QED
    BY <2>1, <2>2 DEF InTime
<1>5. TextTyped(len, s.at, now) = len
  BY <1>2, <1>3 DEF Through, Prog
<1>6. s.at + Span(s) <= now
  <2> SUFFICES ASSUME ~(s.at + Span(s) <= now) PROVE FALSE
    OBVIOUS
  <2>1. PICK at, c : at = s.at /\ c = len * CharTime
    OBVIOUS
  <2>2. c \in Nat /\ at \in Nat
    BY <1>2, <1>3, <1>1, <2>1, PacedStep
  <2>3. at <= now /\ now < at + len * CharTime
    BY <1>1, <1>3, <1>4, <2>1, <2>2
  <2>4. TextTyped(len, at, now) < len
    BY ONLY <1>1, <1>3, <2>2, <2>3, TextTypedIs
  <2> QED
    BY <1>3, <1>5, <2>1, <2>4
<1>7. Span(s) \in Nat
  BY <1>1, <1>2, <1>3, PacedStep
<1>8. s.at + Span(s) <= now + 1 /\ start <= now + 1 /\ now + 1 \in Nat
  BY <1>1, <1>3, <1>6, <1>7
<1>9. Prog(s, start, now + 1) = len /\ Prog(s, start, now) = len
  BY <1>1, <1>2, <1>3, <1>6, <1>8, AfterStep
<1> QED
  BY <1>2, <1>6, <1>9

\* A text whose time has not come types nothing in this frame.
LEMMA NotPosted ==
  ASSUME IInv, InTime, Due = {}, NEW k \in 1 .. Len(steps), steps[k].mod = "=", ~Posted(k)
  PROVE  Prog(steps[k], start, now + 1) = Prog(steps[k], start, now)
<1>1. Paced(steps, start) /\ now \in Nat /\ steps[k].at \in Nat
  BY EventsAre, PacedStep DEF InTime
<1>2. PICK s, e : s = steps[k] /\ e = Event(k, s.at, "post", s.what)
  OBVIOUS
<1>3. Posts(s, k, e)
  BY <1>2 DEF Posts
<1>4. e \in Schedule(steps) /\ e.kind = "post" /\ e.step = k /\ e.at = s.at
  BY <1>2, <1>3, Happens, EventFields
<1>5. e \notin Ran
  BY <1>4 DEF Posted
<1>6. ~(e.at <= now)
  BY <1>4, <1>5, DueNone
<1>7. now <= s.at /\ now + 1 <= s.at /\ now + 1 \in Nat
  BY <1>1, <1>2, <1>4, <1>6
<1> QED
  BY <1>1, <1>2, <1>7, BeforeStep

\* An idle keyboard types no text.
LEMMA IdleTexts ==
  ASSUME IInv, InTime, Due = {}, Idle, NEW k \in 1 .. Len(steps), ~IsTap(steps[k])
  PROVE  Prog(steps[k], start, now + 1) = Prog(steps[k], start, now)
<1>1. CASE steps[k].mod = "="
  BY <1>1, ThroughIs, NotPosted DEF Idle
<1>2. CASE steps[k].mod # "="
  BY <1>2 DEF IsTap, Prog
<1> QED
  BY <1>1, <1>2

\* What becomes of the invariant when a frame passes, but for what is typed.
LEMMA FramePasses ==
  ASSUME IInv, InTime, Frame
  PROVE  /\ Due = {} /\ now \in Nat /\ now' = now + 1 /\ steps' = steps /\ start' = start
         /\ driver' = driver /\ wanted' = wanted /\ disk' = disk /\ down' = down
         /\ Ran' = Ran /\ todo' = todo
         /\ start <= now'
         /\ \A e \in Ran' : e.at <= now' /\ \A f \in todo' : e.at <= f.at
         /\ \A f \in todo' : now' <= f.at
         /\ down' = HeldNow'
         /\ last' = FieldsAt(steps, now' - 1) /\ now' # start
         /\ Mounts'
<1>1. /\ Due = {} /\ Machine(down, disk) /\ todo' = todo /\ down' = down /\ disk' = disk
  BY DEF Frame
<1>2. /\ now' = now + 1 /\ steps' = steps /\ start' = start /\ driver' = driver
      /\ wanted' = wanted /\ last' = down
  BY <1>1 DEF Machine
<1>3. AllEvents' = AllEvents
  BY <1>2 DEF AllEvents
<1>4. Ran' = Ran
  BY <1>1, <1>3 DEF Ran
<1>5. now \in Nat /\ start \in Nat /\ start <= now
  BY EventsAre
<1>6. \A e \in Ran : e.at <= now + 1 /\ \A f \in todo : e.at <= f.at
  <2>1. \A e \in Ran : e.at \in Nat /\ e.at <= now
    BY <1>1, DueNone
  <2> QED
    BY <1>5, <2>1 DEF InTime
<1>7. \A f \in todo : now + 1 <= f.at
  <2>1. \A f \in todo : f.at \in Nat /\ now < f.at
    BY <1>1, DueNone
  <2> QED
    BY <1>5, <2>1
<1>8. HeldNow' = HeldNow /\ down = HeldNow
  BY <1>1, <1>4 DEF HeldNow, InTime
<1>9. down = FieldsAt(steps, now) /\ now' - 1 = now
  BY <1>1, <1>2, <1>5, HeldIs
<1>10. Mounts'
  BY <1>1, <1>4 DEF Mounts, InTime
<1>11. start <= now' /\ now' # start
  BY <1>2, <1>5
<1> QED
  BY <1>1, <1>2, <1>4, <1>5, <1>6, <1>7, <1>8, <1>9, <1>10, <1>11

\* Nothing is posted in a frame, and what is through stays through.
LEMMA PostedStays ==
  ASSUME IInv, InTime, Frame
  PROVE  \A k : (Posted(k)' <=> Posted(k)) /\ (Posted(k) /\ Through(k) => Through(k)')
<1>1. Ran' = Ran /\ now' = now + 1 /\ steps' = steps /\ start' = start
  BY FramePasses
<1>2. \A k : Posted(k)' <=> Posted(k)
  BY <1>1 DEF Posted
<1>3. ASSUME NEW k, Posted(k), Through(k)
      PROVE  Through(k)'
  <2>1. Prog(steps[k], start, now + 1) = Len(steps[k].what)
    BY <1>3, ThroughIs
  <2> QED
    BY <1>1, <2>1 DEF Through
<1> QED
  BY <1>2, <1>3

\* A frame of an idle keyboard.
LEMMA IdleFrame ==
  ASSUME IInv, InTime, Frame, Idle
  PROVE  Idle' /\ seen' = Typed(steps, start, now + 1)
<1>1. /\ Due = {} /\ now \in Nat /\ now' = now + 1 /\ steps' = steps /\ start' = start
  BY FramePasses
<1>2. /\ Paced(steps, start) /\ start \in Nat /\ start <= now /\ seen = Typed(steps, start, now)
  BY EventsAre DEF InTime
<1>3. queue = <<>> /\ busy = 0 /\ \A k \in 1 .. Len(steps) : Posted(k) => Through(k)
  BY DEF Idle
<1>4. TypedText(disk) = <<>>
  BY <1>3 DEF TypedText
<1>5. PICK order \in SetToSeqs(NewKeys) :
        seen' = seen \o [i \in DOMAIN order |-> Key(order[i], down \cap Modifiers, disk)] \o <<>>
  BY <1>4 DEF Frame, Machine, NewKeys
<1>6. queue' = queue /\ busy' = 0
  BY <1>3, <1>4 DEF Frame, Machine
<1>7. Idle'
  BY <1>1, <1>3, <1>6, PostedStays DEF Idle
<1>8. PICK S : S = Keys(steps, start)
  OBVIOUS
<1>9. seen \in Seq(S)
  BY <1>1, <1>2, <1>8, PartsAre
<1>10. CASE \A k \in 1 .. Len(steps) : ~TapNow(k)
  <2>1. NewKeys = {}
    BY <1>1, <1>10, NoKeysSeen
  <2>2. DOMAIN order = {}
    BY <1>5, <2>1, OrderOfNone
  <2>3. [i \in DOMAIN order |-> Key(order[i], down \cap Modifiers, disk)] = <<>>
    BY <2>2, TypedNone
  <2>4. seen' = seen
    BY <1>5, <1>9, <2>3, EmptyIs
  <2>5. ASSUME NEW k \in 1 .. Len(steps)
        PROVE  Prog(steps[k], start, now + 1) = Prog(steps[k], start, now)
    BY <1>1, <1>10, TapMoves, IdleTexts
  <2>6. Typed(steps, start, now + 1) = Typed(steps, start, now)
    BY <1>1, <1>2, <2>5, TypedSame
  <2> QED
    BY <1>2, <1>7, <2>4, <2>6
<1>11. CASE \E k \in 1 .. Len(steps) : TapNow(k)
  <2>1. PICK k \in 1 .. Len(steps) : TapNow(k)
    BY <1>11
  <2>2. PICK x, mods : x = steps[k].what[1] /\ mods = {steps[k].mod} \cap Modifiers
    OBVIOUS
  <2>3. NewKeys = {x} /\ down \cap Modifiers = mods
    BY <1>1, <2>1, <2>2, KeysSeen
  <2>4. DOMAIN order = 1 .. 1 /\ order[1] = x
    BY <1>5, <2>3, OrderOfOne
  <2>5. [i \in DOMAIN order |-> Key(order[i], mods, disk)] = <<Key(x, mods, disk)>>
    BY <2>4, TypedOne
  <2>6. /\ IsTap(steps[k]) /\ steps[k].at \in Nat
        /\ steps[k].at <= now /\ now < steps[k].at + Span(steps[k])
    BY <1>1, <1>2, <2>1, HeldIn DEF TapNow
  <2>7. /\ Prog(steps[k], start, now) = 0 /\ Prog(steps[k], start, now + 1) = 1
        /\ start < steps[k].at + 5
    BY <1>1, <2>1, <2>6, TapMoves
  <2>8. disk = DiskOf(steps, k)
    BY <1>1, <2>6, DiskIs
  <2>9. Row(steps, start, k)[1] = Key(x, mods, disk)
    <3>1. ~(steps[k].at + 5 <= start)
      BY <1>2, <2>6, <2>7
    <3> QED
      BY <1>2, <2>2, <2>6, <2>8, <3>1, RowIs
  <2>10. Typed(steps, start, now + 1) = Cat(Typed(steps, start, now), <<Row(steps, start, k)[0 + 1]>>)
    <3>1. Prog(steps[k], start, now + 1) = Prog(steps[k], start, now) + 1
      BY <2>7
    <3>2. Typed(steps, start, now + 1) =
            Cat(Typed(steps, start, now), <<Row(steps, start, k)[Prog(steps[k], start, now) + 1]>>)
      BY <1>1, <1>2, <2>6, <3>1, TypedNext
    <3> QED
      BY <2>7, <3>2
  <2>11. PICK w : w = <<Key(x, mods, disk)>>
    OBVIOUS
  <2>12. Typed(steps, start, now + 1) = Cat(seen, w)
    BY <1>2, <2>9, <2>10, <2>11
  <2>13. seen' = Cat(seen, w) \o <<>>
    BY <1>5, <2>3, <2>5, <2>11 DEF Cat
  <2>14. w \in Seq({Key(x, mods, disk)})
    BY <2>11
  <2>15. PICK T : T = S \cup {Key(x, mods, disk)}
    OBVIOUS
  <2>16. seen \in Seq(T) /\ w \in Seq(T)
    BY <1>9, <2>14, <2>15, SeqMonotonic
  <2>17. PICK c : c = Cat(seen, w)
    OBVIOUS
  <2>18. c \in Seq(T)
    BY <2>16, <2>17, Joined
  <2>19. seen' = c
    BY <2>13, <2>17, <2>18, EmptyIs
  <2> QED
    BY <1>7, <2>12, <2>17, <2>19
<1> QED
  BY <1>10, <1>11

\* A frame while the keyboard types a text.
LEMMA TextFrame ==
  ASSUME IInv, TInv, InTime, Frame, NEW k \in 1 .. Len(steps), Types1(k)
  PROVE  (Idle \/ Types1(k))' /\ seen' = Typed(steps, start, now + 1)
<1>1. /\ Due = {} /\ now \in Nat /\ now' = now + 1 /\ steps' = steps /\ start' = start
  BY FramePasses
<1>2. /\ Paced(steps, start) /\ start \in Nat /\ start <= now /\ seen = Typed(steps, start, now)
  BY EventsAre DEF InTime
<1>3. PICK s, len, p, at, c : /\ s = steps[k] /\ len = Len(s.what) /\ at = s.at /\ c = CharTime
                              /\ p = Prog(s, start, now)
  OBVIOUS
<1>4. /\ Posted(k) /\ at <= now /\ now < at + Span(s)
      /\ queue = [i \in 1 .. len - p |-> s.what[p + i]]
      /\ now = at + p * CharTime + busy
      /\ \A i \in 1 .. Len(steps) : i # k /\ Posted(i) => Through(i)
  BY <1>3 DEF Types1, Rest
<1>5. /\ s.mod = "=" /\ len \in Nat /\ at \in Nat /\ Span(s) = len * CharTime
      /\ Len(Row(steps, start, k)) = len
  BY <1>3, <1>4, PostedIs
<1>6. p \in Nat /\ p < len /\ busy \in 0 .. CharTime - 1
  <2>1. p = TextTyped(len, at, now)
    BY <1>3, <1>5 DEF Prog
  <2>2. at <= now /\ now < at + len * CharTime
    BY <1>4, <1>5
  <2>3. p \in 0 .. len /\ p < len
    BY ONLY <1>1, <1>5, <2>1, <2>2, TextTypedIs
  <2> QED
    BY <2>3 DEF TInv
<1>7. \A t : Prog(s, start, t) = TextTyped(len, at, t)
  BY <1>3, <1>5 DEF Prog
<1>8. Prog(s, start, now + 1) = IF busy + 1 = CharTime THEN p + 1 ELSE p
  <2>1. TextTyped(len, at, now + 1) = IF busy + 1 = CharTime THEN p + 1 ELSE p
    BY ONLY <1>4, <1>5, <1>6, TextTypedNext
  <2> QED
    BY <1>7, <2>1
<1>9. \A j \in 1 .. Len(steps) : ~TapNow(j)
  <2> SUFFICES ASSUME NEW j \in 1 .. Len(steps), TapNow(j) PROVE FALSE
    OBVIOUS
  <2>1. IsTap(steps[j]) /\ steps[j].at <= now /\ now < steps[j].at + Span(steps[j])
    BY <1>1, <1>2, HeldIn DEF TapNow
  <2>2. steps[k].at <= now /\ now < steps[k].at + Span(steps[k])
    BY <1>3, <1>4
  <2>3. j = k
    BY <1>1, <1>2, <2>1, <2>2, OneAtATime
  <2> QED
    BY <1>3, <1>5, <2>1, <2>3 DEF IsTap
<1>10. PICK order \in SetToSeqs(NewKeys) :
        seen' = seen \o [i \in DOMAIN order |-> Key(order[i], down \cap Modifiers, disk)] \o TypedText(disk)
  BY DEF Frame, Machine, NewKeys
<1>11. [i \in DOMAIN order |-> Key(order[i], down \cap Modifiers, disk)] = <<>>
  <2>1. NewKeys = {}
    BY <1>1, <1>9, NoKeysSeen
  <2>2. DOMAIN order = {}
    BY <1>10, <2>1, OrderOfNone
  <2> QED
    BY <2>2, TypedNone
<1>12. PICK S : S = Keys(steps, start)
  OBVIOUS
<1>13. seen \in Seq(S)
  BY <1>1, <1>2, <1>12, PartsAre
<1>14. seen' = seen \o TypedText(disk)
  BY <1>10, <1>11, <1>13, EmptyIs
<1>15. PICK n, T : n = len - p /\ T = {s.what[p + i] : i \in 1 .. len - p}
  OBVIOUS
<1>16. queue \in Seq(T) /\ Len(queue) = n /\ n \in Nat /\ n # 0 /\ queue # <<>>
  <2>0. n \in Nat /\ n # 0
    BY <1>5, <1>6, <1>15
  <2>4. queue = [i \in 1 .. n |-> s.what[p + i]] /\ \A i \in 1 .. n : s.what[p + i] \in T
    BY <1>4, <1>15
  <2>5. queue \in [1 .. n -> T]
    BY ONLY <2>4
  <2>1. n \in Nat /\ n # 0 /\ queue \in [1 .. n -> T]
    BY <2>0, <2>5
  <2>2. queue \in Seq(T) /\ Len(queue) = n
    BY <2>1, FcnIsSeq
  <2>3. queue # <<>>
    BY <2>1, <2>2, EmptySeq
  <2> QED
    BY <2>1, <2>2, <2>3
<1>17. /\ queue' = IF TypedText(disk) = <<>> THEN queue ELSE Tail(queue)
       /\ busy' = IF queue = <<>> \/ TypedText(disk) # <<>> THEN 0 ELSE busy + 1
  BY DEF Frame, Machine
<1>18. \A i \in 1 .. Len(steps) : i # k /\ Posted(i)' => Through(i)'
  BY <1>4, PostedStays
<1>19. Posted(k)' /\ Rest(k)' = LET q == Prog(s, start, now + 1) IN [i \in 1 .. len - q |-> s.what[q + i]]
  BY <1>1, <1>3, <1>4, PostedStays DEF Rest
<1>20. CASE busy + 1 # CharTime
  <2>1. TypedText(disk) = <<>>
    BY <1>20 DEF TypedText
  <2>2. seen' = seen
    BY <1>13, <1>14, <2>1, EmptyIs
  <2>3. \A j \in 1 .. Len(steps) : Prog(steps[j], start, now + 1) = Prog(steps[j], start, now)
    <3> SUFFICES ASSUME NEW j \in 1 .. Len(steps)
                 PROVE  Prog(steps[j], start, now + 1) = Prog(steps[j], start, now)
      OBVIOUS
    <3>1. CASE j = k
      BY <1>3, <1>8, <1>20, <3>1
    <3>2. CASE j # k
      <4>1. ~(steps[j].at <= now /\ now < steps[j].at + Span(steps[j]))
        BY <1>1, <1>2, <1>3, <1>4, <3>2, OneAtATime
      <4> QED
        BY <1>1, <1>2, <4>1, InStep
    <3> QED
      BY <3>1, <3>2
  <2>4. Typed(steps, start, now + 1) = Typed(steps, start, now)
    BY <1>1, <1>2, <2>3, TypedSame
  <2>5. queue' = queue /\ busy' = busy + 1
    BY <1>16, <1>17, <2>1
  <2>6. busy + 1 \in 0 .. CharTime - 1
    BY <1>6, <1>20, RunsTimed
  <2>7. now + 1 = at + p * CharTime + (busy + 1)
    <3>1. PICK x : x = p * CharTime
      OBVIOUS
    <3>2. x \in Nat
      <4>1. CharTime \in Nat
        BY RunsTimed
      <4> QED
        BY <1>6, <3>1, <4>1
    <3> QED
      BY <1>4, <1>5, <1>6, <3>1, <3>2
  <2>8. now + 1 < at + len * CharTime /\ at <= now + 1
    <3>1. PICK r, u : r = busy + 1 /\ u = now + 1
      OBVIOUS
    <3>2. r \in 0 .. CharTime - 1 /\ u = at + p * CharTime + r
      BY <2>6, <2>7, <3>1
    <3>3. u < at + len * CharTime /\ at <= u
      BY ONLY <1>5, <1>6, <3>2, TextTypedNext
    <3> QED
      BY <3>1, <3>3
  <2>9. Prog(s, start, now + 1) = p
    BY <1>8, <1>20
  <2>10. Types1(k)'
    BY <1>1, <1>3, <1>4, <1>5, <1>18, <1>19, <2>5, <2>7, <2>8, <2>9 DEF Types1
  <2> QED
    BY <1>2, <2>2, <2>4, <2>10
<1>21. CASE busy + 1 = CharTime
  <2>1. TypedText(disk) = <<Key(Head(queue), {}, disk)>>
    BY <1>16, <1>21 DEF TypedText
  <2>2. Head(queue) = s.what[p + 1]
    BY <1>4, <1>15, <1>16
  <2>3. disk = DiskOf(steps, k)
    BY <1>1, <1>3, <1>4, DiskIs
  <2>4. Row(steps, start, k)[p + 1] = Key(s.what[p + 1], {}, disk)
    <3>1. steps[k].mod = "=" =>
            /\ Len(Row(steps, start, k)) = Len(steps[k].what)
            /\ \A i \in 1 .. Len(steps[k].what) :
                 Row(steps, start, k)[i] = Key(steps[k].what[i], {}, DiskOf(steps, k))
      BY <1>2, RowIs
    <3>2. \A i \in 1 .. len : Row(steps, start, k)[i] = Key(s.what[i], {}, DiskOf(steps, k))
      BY ONLY <1>3, <1>5, <3>1
    <3>3. p + 1 \in 1 .. len
      BY <1>5, <1>6
    <3> QED
      BY ONLY <2>3, <3>2, <3>3
  <2>5. Prog(s, start, now + 1) = p + 1
    BY <1>8, <1>21
  <2>6. Typed(steps, start, now + 1) = Cat(Typed(steps, start, now), <<Row(steps, start, k)[p + 1]>>)
    BY <1>1, <1>2, <1>3, <1>4, <2>5, TypedNext
  <2>7. seen' = Typed(steps, start, now + 1)
    BY <1>2, <1>14, <2>1, <2>2, <2>4, <2>6 DEF Cat
  <2>8. TypedText(disk) # <<>>
    BY <2>1
  <2>9. queue' = Tail(queue) /\ busy' = 0
    BY <1>16, <1>17, <2>8
  <2>10. Tail(queue) = [i \in 1 .. len - (p + 1) |-> s.what[p + 1 + i]]
    <3>1. PICK a, b, m : /\ a = Tail(queue) /\ m = len - (p + 1)
                         /\ b = [i \in 1 .. m |-> s.what[p + 1 + i]]
      OBVIOUS
    <3>2. m \in Nat /\ m = n - 1
      BY <1>5, <1>6, <1>15, <3>1
    <3>3. a \in Seq(T) /\ Len(a) = m /\ \A i \in 1 .. m : a[i] = queue[i + 1]
      BY <1>16, <3>1, <3>2, HeadTailProperties
    <3>4. \A i \in 1 .. m : i + 1 \in 1 .. n /\ p + (i + 1) = p + 1 + i
      BY <1>6, <1>16, <3>2
    <3>5. \A i \in 1 .. n : queue[i] = s.what[p + i] /\ s.what[p + i] \in T
      BY <1>4, <1>15
    <3>6. b \in [1 .. m -> T] /\ \A i \in 1 .. m : a[i] = b[i]
      BY <3>1, <3>3, <3>4, <3>5
    <3>7. b \in Seq(T) /\ Len(b) = m
      BY <3>2, <3>6, FcnIsSeq
    <3>8. a = b
      BY <3>3, <3>6, <3>7, SameSeq
    <3> QED
      BY <3>1, <3>8
  <2>11. Rest(k)' = [i \in 1 .. len - (p + 1) |-> s.what[p + 1 + i]]
    BY <1>19, <2>5
  <2>12. now + 1 = at + (p + 1) * CharTime + 0
    <3>1. PICK x, y : x = p * CharTime /\ y = (p + 1) * CharTime
      OBVIOUS
    <3>2. x \in Nat /\ y = x + CharTime /\ CharTime \in Nat
      <4>1. c \in Nat /\ c = CharTime
        BY <1>3, RunsTimed
      <4>2. p * c \in Nat /\ (p + 1) * c = p * c + c
        BY <1>6, <4>1
      <4> QED
        BY <3>1, <4>1, <4>2
    <3> QED
      BY <1>4, <1>5, <1>6, <1>21, <3>1, <3>2
  <2>13. CASE p + 1 = len
    <3>1. queue' = <<>>
      <4>1. n = 1
        BY <1>5, <1>6, <1>15, <2>13
      <4>2. Tail(queue) \in Seq(T) /\ Len(Tail(queue)) = 0
        BY <1>16, <4>1, HeadTailProperties
      <4> QED
        BY <2>9, <4>2, EmptySeq
    <3>2. Through(k)'
      BY <1>1, <1>3, <2>5, <2>13 DEF Through
    <3>3. Idle'
      BY <1>1, <1>18, <2>9, <3>1, <3>2 DEF Idle
    <3> QED
      BY <2>7, <3>3
  <2>14. CASE p + 1 # len
    <3>1. p + 1 < len /\ p + 1 \in Nat /\ 0 \in 0 .. CharTime - 1
      BY ONLY <1>5, <1>6, <2>14, RunsTimed
    <3>2. now + 1 < at + len * CharTime /\ at <= now + 1
      BY ONLY <1>5, <3>1, <2>12, TextTypedNext
    <3>3. Types1(k)'
      BY <1>1, <1>3, <1>4, <1>5, <1>18, <1>19, <2>5, <2>9, <2>10, <2>11, <2>12, <3>2 DEF Types1
    <3> QED
      BY <2>7, <3>3, Zenon
  <2> QED
    BY <2>13, <2>14
<1> QED
  BY <1>20, <1>21

\* Commands whose parts take no longer to type than mksteps.py waits, with gaps that
\* are not shorter than the Enter before them, are paced, and their script is to
\* type what they say.
LEMMA MadePaced ==
  ASSUME NEW C, Slash \in C, NEW script, NEW from, NEW to, NEW typed,
         Makes(C, script, from, to, typed),
         \A k \in 1 .. Len(script) : CharTime * Len(script[k].what) <= 15,
         \A k \in 1 .. Len(script) - 1 :
           script[k].what = <<Enter>> => script[k + 1].at - script[k].at >= CharTime
  PROVE  Paced(script, 0) /\ Types(script, 0) = typed
<1>0. PICK n, c : n = Len(script) /\ c = CharTime
  OBVIOUS
<1>1. n \in Nat /\ c \in Nat
  BY <1>0, MadeTimed, RunsTimed
<1>2. ASSUME NEW k \in 1 .. n
      PROVE  /\ script[k].at \in Nat /\ script[k].mod \in {"@", "="}
             /\ script[k].what \in Seq(C)
             /\ script[k].mod = "@" => script[k].what = <<Slash>>
  BY <1>0, MadeTimed DEF MadeSteps
<1>3. /\ typed = Said(script)
      /\ \A i, k \in 1 .. n : i < k => script[i].at + Pause(script[i]) <= script[k].at
  BY <1>0 DEF Makes, SetApart
<1>4. ASSUME NEW k \in 1 .. n
      PROVE  Span(script[k]) \in Nat /\ Span(script[k]) <= 15
  <2>1. PICK s, m : s = script[k] /\ m = Len(s.what)
    OBVIOUS
  <2>2. m \in Nat /\ c * m <= 15
    BY <1>0, <1>2, <2>1, LenProperties
  <2>3. PICK x : x = c * m /\ x = m * c /\ x \in Nat
    BY ONLY <1>1, <2>2
  <2>4. CASE s.mod = "="
    <3>1. Span(s) = m * c
      BY <1>0, <2>1, <2>4 DEF Span
    <3> QED
      BY <2>1, <2>2, <2>3, <3>1
  <2>5. CASE s.mod = "@"
    BY <2>1, <2>5 DEF Span
  <2> QED
    BY <1>2, <2>1, <2>4, <2>5
<1>5. ASSUME NEW k \in 1 .. n
      PROVE  /\ script[k].mod = "=" => IsSeq(script[k].what)
             /\ IsTap(script[k]) => script[k].what[1] \notin Modifiers
             /\ script[k].mod # "!"
  <2>1. script[k].mod = "=" => IsSeq(script[k].what)
    BY <1>2, SeqIs
  <2>2. Slash \notin Modifiers
    BY DEF Slash, Modifiers
  <2>3. script[k].mod = "@" => script[k].what[1] = Slash
    BY <1>2
  <2> QED
    BY <1>2, <2>1, <2>2, <2>3 DEF IsTap
<1>6. Paced(script, 0)
  <2>1. ASSUME NEW i \in 1 .. n, NEW k \in 1 .. n, i < k
        PROVE  script[i].at + Span(script[i]) <= script[k].at
    <3>1. PICK a, b, x, p : /\ a = script[i].at /\ b = script[k].at /\ x = Span(script[i])
                            /\ p = Pause(script[i])
      OBVIOUS
    <3>2. a \in Nat /\ b \in Nat /\ x \in Nat /\ x <= 15 /\ a + p <= b /\ p \in Nat
      BY <1>2, <1>3, <1>4, <2>1, <3>1, PauseIs
    <3>3. CASE script[i].what # <<Enter>>
      <4>1. p = 15
        BY <3>1, <3>3, PauseIs
      <4>2. a + x <= b
        BY ONLY <3>2, <4>1
      <4> QED
        BY ONLY <3>1, <4>2
    <3>4. CASE script[i].what = <<Enter>>
      <4>1. PICK j, d, q : j = i + 1 /\ d = script[j].at /\ q = Pause(script[j])
        OBVIOUS
      <4>2. j \in 1 .. n /\ i \in 1 .. n - 1 /\ j <= k
        BY <1>1, <2>1, <4>1
      <4>3. d \in Nat /\ q \in Nat /\ d - a >= c
        BY <1>0, <1>2, <3>1, <3>4, <4>1, <4>2, PauseIs
      <4>4. x = c
        <5>1. Len(script[i].what) = 1
          BY <3>4
        <5>2. script[i].mod = "="
          <6>1. Slash # Enter
            BY DEF Slash, Enter
          <6>2. script[i].what[1] = Enter
            BY <3>4
          <6>3. script[i].mod = "@" => script[i].what[1] = Slash
            BY <1>2
          <6> QED
            BY <1>2, <6>1, <6>2, <6>3
        <5> QED
          BY <1>0, <1>1, <3>1, <5>1, <5>2 DEF Span
      <4>5. d <= b
        <5>1. CASE j = k
          BY <3>1, <3>2, <4>1, <5>1
        <5>2. CASE j # k
          <6>1. d + q <= b
            BY <1>3, <3>1, <4>1, <4>2, <5>2
          <6> QED
            BY <3>2, <4>3, <6>1
        <5> QED
          BY <5>1, <5>2
      <4>6. a + x <= b
        BY <1>1, <3>2, <4>3, <4>4, <4>5
      <4> QED
        BY <3>1, <4>6
    <3> QED
      BY <3>3, <3>4
  <2> QED
    BY <1>0, <1>1, <1>2, <1>5, <2>1 DEF Paced
<1>7. ASSUME NEW k \in 1 .. n
      PROVE  DiskOf(script, k) = First
  <2>1. {i \in 1 .. k - 1 : script[i].mod = "!"} = {}
    BY <1>1, <1>5
  <2> QED
    BY <2>1 DEF DiskOf
<1>8. [k \in 1 .. Len(script) |-> StepTypes(script[k], 0, DiskOf(script, k))] = Sayings(script)
  BY <1>0, <1>7 DEF Sayings, Saying
<1> QED
  BY <1>3, <1>6, <1>8 DEF Types, Said

LEMMA FrameInTime ==
  ASSUME IInv, TInv, InTime, Frame
  PROVE  InTime'
<1>1. /\ now' = now + 1 /\ steps' = steps /\ start' = start /\ driver' = driver /\ wanted' = wanted
      /\ start <= now'
      /\ \A e \in Ran' : e.at <= now' /\ \A f \in todo' : e.at <= f.at
      /\ \A f \in todo' : now' <= f.at
      /\ down' = HeldNow'
      /\ last' = FieldsAt(steps, now' - 1) /\ now' # start
      /\ Mounts'
  BY FramePasses
<1>2. (Idle \/ \E k \in 1 .. Len(steps) : Types1(k))' /\ seen' = Typed(steps, start, now + 1)
  <2>1. CASE Idle
    BY <2>1, IdleFrame
  <2>2. ASSUME NEW k \in 1 .. Len(steps), Types1(k)
        PROVE  (Idle \/ \E i \in 1 .. Len(steps) : Types1(i))' /\ seen' = Typed(steps, start, now + 1)
    BY <1>1, <2>2, TextFrame
  <2> QED
    BY <2>1, <2>2 DEF InTime
<1>3. Paced(steps, start)' /\ (driver # "schedules")' /\ (wanted = Types(steps, start))'
  BY <1>1 DEF InTime
<1> QED
  BY <1>1, <1>2, <1>3 DEF InTime

------------------------------------------------------------------------------
(* How a run begins and ends.                                               *)

\* Steps that keep their distance from the next keep it from all that follow.
LEMMA SpacedPaced ==
  ASSUME NEW run \in Runs, steps = run.steps, start = run.start, Spaced
  PROVE  Paced(steps, start)
<1>0. PICK n, c : n = Len(steps) /\ c = CharTime
  OBVIOUS
<1>1. n \in Nat /\ start \in Nat /\ c \in Nat
  BY <1>0, ScriptsTimed, RunsTimed
<1>2. ASSUME NEW k \in 1 .. n
      PROVE  /\ steps[k].at \in Nat
             /\ steps[k].mod = "=" => IsSeq(steps[k].what) /\ start <= steps[k].at
             /\ IsTap(steps[k]) => steps[k].what[1] \notin Modifiers
             /\ Span(steps[k]) \in Nat
  <2>1. PICK s : s = steps[k]
    OBVIOUS
  <2>2. s.at \in Nat /\ Sound(s) /\ (s.mod = "=" => start <= s.at)
    <3>1. s.at \in Nat
      BY <1>0, <2>1, ScriptsTimed
    <3>2. Sound(s)
      BY <1>0, <2>1, ScriptsSound
    <3>3. s.mod = "=" => s.at >= start
      BY <1>0, <2>1 DEF Spaced
    <3> QED
      BY <1>1, <3>1, <3>2, <3>3
  <2>3. s.mod = "=" => IsSeq(s.what)
    <3> SUFFICES ASSUME s.mod = "=" PROVE IsSeq(s.what)
      OBVIOUS
    <3>1. s.what \in Seq(Range(s.what))
      BY <2>2 DEF Sound
    <3> QED
      BY <3>1, SeqIs
  <2>4. IsTap(s) => s.what[1] \notin Modifiers
    BY <2>2 DEF Sound, IsTap
  <2>5. Span(s) \in Nat
    <3>1. CASE s.mod = "="
      <4>1. PICK m : m = Len(s.what)
        OBVIOUS
      <4>2. m \in Nat /\ Span(s) = m * c
        BY <1>0, <2>3, <3>1, <4>1 DEF IsSeq, Span
      <4>3. m * c \in Nat
        BY ONLY <1>1, <4>2
      <4> QED
        BY <4>2, <4>3
    <3>2. CASE s.mod # "="
      BY <3>2 DEF Span
    <3> QED
      BY <3>1, <3>2
  <2> QED
    BY <2>1, <2>2, <2>3, <2>4, <2>5
<1>3. ASSUME NEW k \in 1 .. n - 1
      PROVE  steps[k].at + Span(steps[k]) <= steps[k + 1].at
  <2>1. PICK s, u : s = steps[k] /\ u = steps[k + 1].at
    OBVIOUS
  <2>2. k \in 1 .. n /\ k + 1 \in 1 .. n
    BY <1>1
  <2>3. s.at \in Nat /\ u \in Nat /\ Span(s) \in Nat /\ (s.mod = "=" => IsSeq(s.what))
    BY <1>2, <2>1, <2>2
  <2>4. CASE s.mod = "="
    <3>1. PICK m : m = Len(s.what)
      OBVIOUS
    <3>2. m \in Nat /\ Span(s) = m * c
      BY <1>0, <2>3, <2>4, <3>1 DEF IsSeq, Span
    <3>3. u - s.at >= c * m
      BY <1>0, <2>1, <2>4, <3>1 DEF Spaced
    <3>4. PICK x : x = m * c /\ x = c * m /\ x \in Nat
      BY ONLY <1>1, <3>2
    <3> QED
      BY <2>1, <2>3, <3>2, <3>3, <3>4
  <2>5. CASE s.mod = "!"
    BY <1>0, <2>1, <2>3, <2>5 DEF Spaced, Span
  <2>6. CASE s.mod # "=" /\ s.mod # "!"
    <3>1. Span(s) = 8
      BY <2>6 DEF Span
    <3>2. u - s.at >= 8
      BY <1>0, <2>1, <2>6 DEF Spaced
    <3> QED
      BY <2>1, <2>3, <3>1, <3>2
  <2> QED
    BY <2>4, <2>5, <2>6
<1>4. ASSUME NEW i \in 1 .. n
      PROVE  \A k \in 1 .. n : i < k => steps[i].at + Span(steps[i]) <= steps[k].at
  <2> DEFINE Bad == {k \in 1 .. n : i < k /\ ~(steps[i].at + Span(steps[i]) <= steps[k].at)}
  <2> SUFFICES ASSUME Bad # {} PROVE FALSE
    OBVIOUS
  <2>1. Bad \in SUBSET Nat
    BY <1>1
  <2>2. PICK k \in Bad : \A m \in Bad : k <= m
    <3> HIDE DEF Bad
    <3> QED
      BY <2>1, Least
  <2>3. k \in 1 .. n /\ i < k /\ ~(steps[i].at + Span(steps[i]) <= steps[k].at)
    OBVIOUS
  <2>4. PICK j : j = k - 1
    OBVIOUS
  <2>5. j \in 1 .. n - 1 /\ j \in 1 .. n /\ j + 1 = k /\ i <= j /\ ~(k <= j)
    BY <1>1, <2>3, <2>4
  <2>6. steps[j].at + Span(steps[j]) <= steps[k].at
    BY <1>3, <2>5
  <2>7. i < j
    BY <2>3, <2>5, <2>6
  <2>8. j \notin Bad
    BY <2>2, <2>5
  <2>9. steps[i].at + Span(steps[i]) <= steps[j].at
    BY <2>5, <2>7, <2>8
  <2>10. /\ steps[i].at \in Nat /\ Span(steps[i]) \in Nat /\ steps[j].at \in Nat
         /\ Span(steps[j]) \in Nat /\ steps[k].at \in Nat
    BY <1>2, <2>3, <2>5
  <2> QED
    BY <2>3, <2>6, <2>9, <2>10
<1>5. \A i, k \in 1 .. n : i < k /\ steps[i].mod = "!" /\ steps[k].mod = "!" =>
                             steps[i].at # steps[k].at
  BY <1>0 DEF Spaced
<1> QED
  BY <1>0, <1>1, <1>2, <1>4, <1>5 DEF Paced

\* Nothing is typed before the first frame.
LEMMA TypedNothing ==
  ASSUME NEW script, NEW from, Paced(script, from)
  PROVE  Typed(script, from, from) = <<>>
<1>0. PICK S, n, P : S = Keys(script, from) /\ n = Len(script) /\ P = Parts(script, from, from)
  OBVIOUS
<1>1. from \in Nat /\ n \in Nat
  BY <1>0 DEF Paced
<1>2. \A k \in 1 .. n : Prog(script[k], from, from) = 0
  <2> SUFFICES ASSUME NEW k \in 1 .. n PROVE Prog(script[k], from, from) = 0
    OBVIOUS
  <2>1. script[k].at \in Nat /\ (script[k].mod = "=" => from <= script[k].at)
    BY <1>0 DEF Paced
  <2>2. CASE script[k].mod = "="
    BY <1>0, <1>1, <2>1, <2>2, BeforeStep
  <2>3. CASE script[k].mod # "="
    BY <1>1, <2>1, <2>3 DEF Prog
  <2> QED
    BY <2>2, <2>3
<1>3. /\ P \in [1 .. n -> Seq(S)] /\ Typed(script, from, from) = FlattenSeq(P)
      /\ \A k \in 1 .. n : P[k] = Part(script, from, k, from)
  BY <1>0, <1>1, PartsAre
<1>4. \A k \in 1 .. n : P[k] = <<>>
  BY <1>0, <1>1, <1>2, <1>3, PartIs
<1>5. CASE n = 0
  <2>1. P \in Seq(Seq(S)) /\ Len(P) = 0
    BY <1>3, <1>5, FcnIsSeq
  <2>2. P = <<>>
    BY <2>1, EmptySeq
  <2>3. FlattenSeq(P) = P
    BY <2>1 DEF FlattenSeq
  <2> QED
    BY <1>3, <2>2, <2>3
<1>6. CASE n # 0
  <2>1. PICK f : /\ \A i \in 1 .. n : f[i] = IF i = 1 THEN P[i] ELSE f[i - 1] \o P[i]
                 /\ FlattenSeq(P) = f[n]
    BY ONLY <1>1, <1>3, <1>6, FlattenFcn
  <2> DEFINE Bad == {i \in 1 .. n : f[i] # <<>>}
  <2>2. Bad = {}
    <3> SUFFICES ASSUME Bad # {} PROVE FALSE
      OBVIOUS
    <3>1. Bad \in SUBSET Nat
      BY <1>1
    <3>2. PICK k \in Bad : \A m \in Bad : k <= m
      <4> HIDE DEF Bad
      <4> QED
        BY <3>1, Least
    <3>3. k \in 1 .. n /\ f[k] # <<>>
      OBVIOUS
    <3>4. k # 1
      BY <1>4, <2>1, <3>3
    <3>5. k - 1 \in 1 .. n /\ ~(k <= k - 1)
      BY <1>1, <3>3, <3>4
    <3>6. f[k - 1] = <<>>
      BY <3>2, <3>5
    <3>7. f[k] = <<>> \o <<>>
      BY <1>4, <2>1, <3>3, <3>4, <3>6
    <3>8. <<>> \o <<>> = <<>>
      BY EmptyIs
    <3> QED
      BY <3>3, <3>7, <3>8
  <2>3. n \in 1 .. n
    BY <1>1, <1>6
  <2>4. f[n] = <<>>
    BY <2>2, <2>3
  <2> QED
    BY <1>3, <2>1, <2>4
<1> QED
  BY <1>5, <1>6

LEMMA InitInTime ==
  ASSUME Init, driver # "schedules", Unhurried
  PROVE  InTime
<1>1. Paced(steps, start) /\ wanted = Types(steps, start)
  <2>1. CASE driver = "author"
    <3>1. PICK run \in Runs : steps = run.steps /\ start = run.start /\ wanted = Types(steps, start)
      BY <2>1 DEF Init
    <3>2. Spaced
      BY <2>1 DEF Unhurried
    <3> QED
      BY <3>1, <3>2, SpacedPaced
  <2>2. CASE driver = "mksteps"
    <3>1. PICK arguments \in Commands : /\ steps = MkSteps(10, arguments) /\ start = 0
                                       /\ wanted = CommandsType(arguments)
      BY <2>2 DEF Init
    <3>2. PICK C, to : Slash \in C /\ Makes(C, steps, 10, to, wanted)
      BY <3>1, MkTimed
    <3>3. /\ \A k \in 1 .. Len(steps) : CharTime * Len(steps[k].what) <= 15
          /\ \A k \in 1 .. Len(steps) - 1 :
               steps[k].what = <<Enter>> => steps[k + 1].at - steps[k].at >= CharTime
      BY <2>2 DEF Unhurried, Leisurely, Wait
    <3>4. Paced(steps, 0) /\ Types(steps, 0) = wanted
      BY <3>2, <3>3, MadePaced
    <3> QED
      BY <3>1, <3>4
  <2> QED
    BY <2>1, <2>2 DEF Init
<1>2. /\ todo = AllEvents /\ now = start /\ down = {} /\ last = {} /\ queue = <<>> /\ busy = 0
      /\ disk = First /\ seen = <<>>
  BY DEF Init, AllEvents
<1>3. start \in Nat
  BY <1>1 DEF Paced
<1>4. Ran = {}
  BY <1>2 DEF Ran
<1>5. HeldNow = {} /\ Mounts /\ \A k : ~Posted(k)
  BY <1>2, <1>4 DEF HeldNow, Mounts, Posted
<1>6. Idle
  BY <1>2, <1>5 DEF Idle
<1>7. seen = Typed(steps, start, now)
  BY <1>1, <1>2, TypedNothing
<1>8. start <= now
  BY <1>2, <1>3
<1> QED
  BY <1>1, <1>2, <1>3, <1>4, <1>5, <1>6, <1>7, <1>8 DEF InTime

\* When nothing is to come and nothing is in the queue, every step has typed what it is to.
LEMMA TypedAtTheEnd ==
  ASSUME IInv, TInv, InTime, todo = {}, queue = <<>>
  PROVE  seen = wanted
<1>1. /\ Paced(steps, start) /\ start \in Nat /\ now \in Nat /\ start <= now
      /\ AllEvents = Schedule(steps) /\ Ran = Schedule(steps)
  BY EventsAre DEF InTime
<1>2. ASSUME NEW k \in 1 .. Len(steps)
      PROVE  Prog(steps[k], start, now) = Len(Row(steps, start, k))
  <2>1. CASE steps[k].mod = "="
    <3>1. PICK e : e = Event(k, steps[k].at, "post", steps[k].what)
      OBVIOUS
    <3>2. Posts(steps[k], k, e) /\ e.kind = "post" /\ e.step = k
      BY <2>1, <3>1 DEF Posts, Event
    <3>3. e \in Ran
      BY <1>1, <3>2, Happens
    <3>4. Posted(k)
      BY <3>2, <3>3 DEF Posted
    <3>5. Len(Row(steps, start, k)) = Len(steps[k].what)
      BY <3>4, PostedIs
    <3>6. Through(k)
      <4>1. CASE Idle
        BY <3>4, <4>1 DEF Idle
      <4>2. ASSUME NEW i \in 1 .. Len(steps), Types1(i)
            PROVE  FALSE
        <5>1. PICK s, len, p, at : /\ s = steps[i] /\ len = Len(s.what) /\ at = s.at
                                   /\ p = Prog(s, start, now)
          OBVIOUS
        <5>2. /\ Posted(i) /\ at <= now /\ now < at + Span(s)
              /\ <<>> = [j \in 1 .. len - p |-> s.what[p + j]]
          BY <4>2, <5>1 DEF Types1, Rest
        <5>3. s.mod = "=" /\ len \in Nat /\ at \in Nat /\ Span(s) = len * CharTime
          BY <5>1, <5>2, PostedIs
        <5>4. p = TextTyped(len, at, now)
          BY <5>1, <5>3 DEF Prog
        <5>5. now < at + len * CharTime
          BY <5>2, <5>3
        <5>6. p \in 0 .. len /\ p < len
          BY ONLY <1>1, <5>2, <5>3, <5>4, <5>5, TextTypedIs
        <5>7. 1 \in DOMAIN [j \in 1 .. len - p |-> s.what[p + j]]
          BY <5>3, <5>6
        <5> QED
          BY <5>2, <5>7
      <4> QED
        BY <4>1, <4>2 DEF InTime
    <3> QED
      BY <3>5, <3>6 DEF Through
  <2>2. CASE steps[k].mod = "!"
    <3>1. Len(Row(steps, start, k)) = 0
      BY <1>1, <2>2, RowIs
    <3> QED
      BY <2>2, <3>1 DEF Prog
  <2>3. CASE IsTap(steps[k])
    <3>1. PICK at : at = steps[k].at
      OBVIOUS
    <3>2. at \in Nat
      BY <1>1, <3>1, PacedStep
    <3>3. PICK e : e = Event(k, steps[k].at + 5, "up", steps[k].what)
      OBVIOUS
    <3>4. KeyUp(steps[k], k, e) /\ e.at = at + 5
      BY <2>3, <3>1, <3>3 DEF KeyUp, Event
    <3>5. e \in Ran
      BY <1>1, <3>4, Happens
    <3>6. at + 5 <= now
      BY <3>4, <3>5 DEF InTime
    <3>7. Prog(steps[k], start, now) = IF start < at + 5 /\ start < now /\ at + 2 < now THEN 1 ELSE 0
      BY <2>3, <3>1 DEF Prog, IsTap
    <3>8. IF at + 5 <= start THEN Len(Row(steps, start, k)) = 0 ELSE Len(Row(steps, start, k)) = 1
      BY <1>1, <2>3, <3>1, RowIs
    <3> QED
      BY <1>1, <3>2, <3>6, <3>7, <3>8
  <2> QED
    BY <2>1, <2>2, <2>3 DEF IsTap
<1>3. Typed(steps, start, now) = Types(steps, start)
  BY <1>1, <1>2, TypedAll
<1> QED
  BY <1>3 DEF InTime

\* The invariants together: the unhurried scripts of an author and of mksteps.py are
\* typed in time.
AInv == IInv /\ TInv /\ (driver # "schedules" /\ Unhurried => InTime)

LEMMA InitAInv == Init => AInv
BY InitIInv, InitTInv, InitInTime DEF AInv

LEMMA AInvStep == AInv /\ [Next]_vars => AInv'
<1> SUFFICES ASSUME AInv, [Next]_vars PROVE AInv'
  OBVIOUS
<1>1. IInv' /\ TInv'
  BY NextStep, TInvStep DEF AInv
<1>2. driver' = driver /\ steps' = steps /\ start' = start
  BY DEF Next, FrameDone, Frame, InTurn, Run, Machine, vars
<1>3. ASSUME (driver # "schedules" /\ Unhurried)'
      PROVE  InTime'
  <2>1. driver # "schedules" /\ Unhurried
    <3>1. Spaced' => Spaced
      BY <1>2 DEF Spaced
    <3>2. driver = "author" => Spaced
      BY <1>2, <1>3, <3>1 DEF Unhurried
    <3>3. driver = "mksteps" => Leisurely
      <4>1. Leisurely' => Leisurely
        BY <1>2 DEF Leisurely, Wait
      <4> QED
        BY <1>2, <1>3, <4>1 DEF Unhurried
    <3>4. driver \in {"author", "mksteps"}
      BY <1>2, <1>3 DEF AInv, TInv
    <3> QED
      BY <3>2, <3>3, <3>4 DEF Unhurried
  <2>2. IInv /\ TInv /\ InTime
    BY <2>1 DEF AInv
  <2>3. CASE UNCHANGED vars
    BY <2>2, <2>3 DEF vars, InTime, Ran, AllEvents, HeldNow, Mounts, Idle, Types1, Posted, Through, Rest
  <2>4. ASSUME NEW e \in Due, Run(e)
        PROVE  InTime'
    BY <2>2, <2>4, RunInTime
  <2>5. CASE Frame
    BY <2>2, <2>5, FrameInTime
  <2>6. CASE InTurn
    BY <2>1, <2>6 DEF InTurn
  <2> QED
    BY <2>3, <2>4, <2>5, <2>6 DEF Next, FrameDone
<1> QED
  BY <1>1, <1>3 DEF AInv

\* A script of run_keys.lua types what it says, each key once, in order and with its
\* own modifier, on the disk of the last disk step before it, and never anything else,
\* and when all is over nothing is missing: every script of an author whose steps do
\* not meet, and every script that mksteps.py makes of any commands and gaps, its
\* arguments that are all digits taken for gaps, whose parts take no longer to type
\* than it waits and whose gaps are not shorter than the Enter before them.
THEOREM ScriptsTyped == Spec => [](driver # "schedules" => TypedAsWanted)
<1>1. AInv => (driver # "schedules" => TypedAsWanted)
  <2> SUFFICES ASSUME AInv, driver # "schedules", Unhurried
               PROVE  IsPrefix(seen, wanted) /\ (Settled => seen = wanted)
    BY DEF TypedAsWanted
  <2>1. IInv /\ TInv /\ InTime
    BY DEF AInv
  <2>2. /\ Paced(steps, start) /\ now \in Nat /\ start <= now
        /\ seen = Typed(steps, start, now) /\ wanted = Types(steps, start)
    BY <2>1, EventsAre DEF InTime
  <2>3. IsPrefix(seen, wanted)
    BY <2>2, TypedIsPrefix
  <2>4. Settled => seen = wanted
    BY <2>1, TypedAtTheEnd DEF Settled
  <2> QED
    BY <2>3, <2>4
<1> QED
  BY <1>1, InitAInv, AInvStep, PTL DEF Spec
==============================================================================
