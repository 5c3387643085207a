---------------------------- MODULE DiskImageProofs ----------------------------
(***************************************************************************)
(* Theorems about the tools for disk images, for any number of sectors on a *)
(* track, any number of cylinders, any images and any edits.                *)
(***************************************************************************)
EXTENDS DiskImage, FiniteSetTheorems, SequenceTheorems, TLAPS

(* Numbers.                                                                 *)

Less == {p \in Nat \X Nat : p[1] < p[2]}

LEMMA LessWellFounded == IsWellFoundedOn(Less, Nat)
<1>1. Less = OpToRel(<, Nat)
  BY Zenon DEF Less, OpToRel
<1> QED
  BY <1>1, NatLessThanWellFounded

LEMMA Least ==
  ASSUME NEW S \in SUBSET Nat, S # {}
  PROVE  \E n \in S : \A m \in S : n <= m
<1>1. PICK n \in S : \A m \in S : <<m, n>> \notin Less
  BY LessWellFounded, WFMin
<1>2. ASSUME NEW m \in S
      PROVE  n <= m
  <2>1. <<m, n>> \in Nat \X Nat
    OBVIOUS
  <2>2. ~(m < n)
    BY <1>1, <2>1 DEF Less
  <2> QED
    BY <2>2
<1> QED
  BY <1>2

LEMMA MinOf ==
  ASSUME NEW S \in SUBSET Nat, S # {}
  PROVE  Min(S) \in S /\ \A m \in S : Min(S) <= m
  BY Least DEF Min

LEMMA MaxOf ==
  ASSUME NEW n \in Nat, NEW S \in SUBSET (1 .. n), S # {}
  PROVE  Max(S) \in S /\ \A m \in S : m <= Max(S)
<1>1. PICK T : T = {m \in Nat : \A j \in S : j <= m}
  OBVIOUS
<1>2. n \in T /\ T \in SUBSET Nat
  BY <1>1
<1>3. PICK m \in T : \A k \in T : m <= k
  BY <1>2, Least
<1>4. m \in Nat /\ \A j \in S : j <= m
  BY <1>1
<1>5. ASSUME m \notin S
      PROVE  FALSE
  <2>1. PICK s \in S : TRUE
    OBVIOUS
  <2>2. m - 1 \in Nat
    BY <1>4, <2>1
  <2>3. \A j \in S : j <= m - 1
    BY <1>4, <1>5
  <2>4. m <= m - 1
    BY <1>1, <1>3, <2>2, <2>3
  <2> QED
    BY <1>4, <2>4
<1>6. \A j \in S : m >= j
  BY <1>4
<1>7. \E x \in S : \A y \in S : x >= y
  BY <1>5, <1>6
<1>8. Max(S) \in S /\ \A y \in S : Max(S) >= y
  BY <1>7 DEF Max
<1> QED
  BY <1>8

LEMMA MaxOne ==
  ASSUME NEW n \in Nat
  PROVE  Max({n}) = n
<1>1. \E x \in {n} : \A y \in {n} : x >= y
  OBVIOUS
<1>2. Max({n}) \in {n}
  BY <1>1 DEF Max
<1> QED
  BY <1>2

LEMMA DivMod ==
  ASSUME NEW n \in Nat, NEW d \in Nat \ {0}
  PROVE  /\ n \div d \in Nat /\ n % d \in 0 .. d - 1
         /\ n = (n \div d) * d + (n % d)
OBVIOUS

LEMMA Steps ==
  ASSUME NEW d \in Nat, NEW p \in Nat, NEW q \in Nat, p < q
  PROVE  p * d + d <= q * d
<1>1. PICK e \in Nat : q = p + 1 + e
  <2>1. q - p - 1 \in Nat /\ q = p + 1 + (q - p - 1)
    OBVIOUS
  <2> QED BY <2>1
<1>2. q * d = p * d + d + e * d
  BY <1>1
<1>3. e * d \in Nat /\ p * d \in Nat
  OBVIOUS
<1> QED BY <1>2, <1>3

LEMMA OneWay ==
  ASSUME NEW d \in Nat \ {0}, NEW p \in Nat, NEW q \in Nat,
         NEW r \in 0 .. d - 1, NEW s \in 0 .. d - 1, p * d + r = q * d + s
  PROVE  p = q /\ r = s
<1>0. p * d \in Nat /\ q * d \in Nat
  OBVIOUS
<1>1. CASE p < q
  <2>1. p * d + d <= q * d
    BY <1>1, Steps
  <2> QED BY <1>0, <2>1
<1>2. CASE q < p
  <2>1. q * d + d <= p * d
    BY <1>2, Steps
  <2> QED BY <1>0, <2>1
<1> QED BY <1>0, <1>1, <1>2

LEMMA DivIs ==
  ASSUME NEW d \in Nat \ {0}, NEW q \in Nat, NEW r \in 0 .. d - 1,
         NEW n, n = q * d + r
  PROVE  n \in Nat /\ n \div d = q /\ n % d = r
<1>1. n \in Nat
  OBVIOUS
<1>2. n \div d \in Nat /\ n % d \in 0 .. d - 1 /\ n = (n \div d) * d + (n % d)
  BY <1>1, DivMod
<1>3. q * d + r = (n \div d) * d + (n % d)
  BY <1>2
<1>4. q = n \div d /\ r = n % d
  BY <1>2, <1>3, OneWay
<1> QED BY <1>1, <1>4

\* An index taken apart by the sectors of a track, and by those of a cylinder.
LEMMA Split ==
  ASSUME NEW n \in Nat
  PROVE  /\ n \div Spt \in Nat /\ n % Spt \in 0 .. Spt - 1 /\ n = (n \div Spt) * Spt + (n % Spt)
         /\ n \div PerCyl = (n \div Spt) \div 2
         /\ (n % PerCyl) \div Spt = (n \div Spt) % 2
<1>0. Spt \in Nat \ {0}
  BY SptIsEven
<1>1. PICK q, r : q = n \div Spt /\ r = n % Spt
  OBVIOUS
<1>2. q \in Nat /\ r \in 0 .. Spt - 1 /\ n = q * Spt + r
  BY <1>0, <1>1, DivMod
<1>3. PICK c, h : c = q \div 2 /\ h = q % 2
  OBVIOUS
<1>4. c \in Nat /\ h \in 0 .. 1 /\ q = c * 2 + h
  BY <1>2, <1>3
<1>5. PICK m, d : m = h * Spt + r /\ d = 2 * Spt
  OBVIOUS
<1>6. m \in 0 .. d - 1 /\ d \in Nat \ {0}
  <2>1. CASE h = 0
    BY <1>0, <1>2, <1>5, <2>1
  <2>2. CASE h = 1
    BY <1>0, <1>2, <1>5, <2>2
  <2> QED
    BY <1>4, <2>1, <2>2
<1>7. n = c * d + m
  <2>1. q * Spt = c * 2 * Spt + h * Spt
    BY <1>0, <1>4
  <2>2. c * 2 * Spt = c * d
    BY <1>0, <1>4, <1>5
  <2> QED
    BY <1>0, <1>2, <1>4, <1>5, <2>1, <2>2
<1>8. n \div d = c /\ n % d = m
  BY <1>4, <1>6, <1>7, DivIs
<1>9. m \div Spt = h
  BY <1>0, <1>2, <1>4, <1>5, DivIs
<1>10. PerCyl = d
  BY <1>5 DEF PerCyl, Heads
<1> QED
  BY <1>1, <1>2, <1>3, <1>8, <1>9, <1>10
------------------------------------------------------------------------------
(* Sequences, and sequences of sequences that are joined.                   *)

LEMMA FcnIsSeq ==
  ASSUME NEW S, NEW n \in Nat, NEW s \in [1 .. n -> S]
  PROVE  s \in Seq(S) /\ Len(s) = n
<1>1. s \in Seq(S)
  BY SeqDef
<1>2. PICK m : m = Len(s)
  OBVIOUS
<1>3. m \in Nat /\ DOMAIN s = 1 .. m
  BY <1>1, <1>2, LenProperties
<1>4. \A i \in Nat : i \in 1 .. m <=> i \in 1 .. n
  BY <1>3
<1>5. m <= n /\ n <= m
  BY <1>3, <1>4
<1> QED
  BY <1>1, <1>2, <1>3, <1>5

\* The function that FlattenSeq is defined with exists.
LEMMA FlattenIs ==
  ASSUME NEW seqs, Len(seqs) \in Nat, Len(seqs) # 0
  PROVE  \E f : /\ \A i \in 1 .. Len(seqs) : f[i] = IF i = 1 THEN seqs[i] ELSE f[i - 1] \o seqs[i]
                /\ FlattenSeq(seqs) = f[Len(seqs)]
<1> DEFINE Is(f, m) == f = [i \in 1 .. m |-> IF i = 1 THEN seqs[i] ELSE f[i - 1] \o seqs[i]]
<1>1. \A m \in Nat : \E f : Is(f, m)
  <2> DEFINE Missing == {m \in Nat : ~\E f : Is(f, m)}
  <2> SUFFICES ASSUME Missing # {}
               PROVE  FALSE
    OBVIOUS
  <2>1. PICK m \in Nat : m \in Missing /\ \A k \in Missing : m <= k
    <3>1. Missing \in SUBSET Nat
      OBVIOUS
    <3> HIDE DEF Missing
    <3> QED
      BY <3>1, Least
  <2>2. CASE m = 0
    <3> DEFINE f == [i \in 1 .. 0 |-> seqs[1]]
    <3>1. Is(f, 0)
      OBVIOUS
    <3> QED
      BY <2>1, <2>2, <3>1
  <2>3. CASE m # 0
    <3>0. PICK k : k = m - 1
      OBVIOUS
    <3>1. k \in Nat /\ ~(m <= k)
      BY <2>1, <2>3, <3>0
    <3>2. PICK f : Is(f, k)
      <4> HIDE DEF Is
      <4> QED
        BY <2>1, <3>1
    <3> DEFINE more == [i \in 1 .. m |-> IF i = m
                                         THEN IF m = 1 THEN seqs[m] ELSE f[m - 1] \o seqs[m]
                                         ELSE f[i]]
    <3>3. ASSUME NEW i \in 1 .. m
          PROVE  more[i] = IF i = 1 THEN seqs[i] ELSE more[i - 1] \o seqs[i]
      <4>1. CASE i = m
        <5>1. CASE m = 1
          BY <4>1, <5>1
        <5>2. CASE m # 1
          <6>0. more[i] = f[m - 1] \o seqs[m]
            BY <4>1, <5>2
          <6>1. more[i] = f[k] \o seqs[m]
            BY <3>0, <6>0
          <6>2. k \in 1 .. m /\ k # m
            BY <2>1, <2>3, <3>0, <5>2
          <6>3. more[k] = f[k]
            BY <6>2
          <6> QED
            BY <3>0, <4>1, <5>2, <6>1, <6>3
        <5> QED
          BY <5>1, <5>2
      <4>2. CASE i # m
        <5>1. i \in 1 .. k
          BY <2>1, <3>0, <4>2
        <5>2. f[i] = IF i = 1 THEN seqs[i] ELSE f[i - 1] \o seqs[i]
          BY <3>2, <5>1
        <5>3. more[i] = f[i]
          BY <4>2
        <5>4. i # 1 => i - 1 \in 1 .. m /\ i - 1 # m
          BY <2>1
        <5>5. i # 1 => more[i - 1] = f[i - 1]
          BY <5>4
        <5> QED
          BY <5>2, <5>3, <5>5
      <4> QED
        BY <4>1, <4>2
    <3>4. Is(more, m)
      BY <3>3
    <3> QED
      BY <2>1, <3>4
  <2> QED
    BY <2>2, <2>3
<1>2. PICK f : f = CHOOSE g : Is(g, Len(seqs))
  OBVIOUS
<1>3. Is(f, Len(seqs))
  BY <1>1, <1>2
<1>4. FlattenSeq(seqs) = f[Len(seqs)]
  BY <1>2 DEF FlattenSeq
<1> QED
  BY <1>3, <1>4

\* The first m of the sequences stand one behind the other, and the i-th ends at
\* off[i].
Laid(S, seqs, off, joined, m) ==
  /\ joined \in Seq(S) /\ Len(joined) = off[m] /\ off[m] \in Nat
  /\ \A i \in 1 .. m : off[i - 1] \in Nat /\ off[i] \in 0 .. off[m]
  /\ \A i \in 1 .. m : \A k \in 1 .. Len(seqs[i]) : joined[off[i - 1] + k] = seqs[i][k]

Ends(seqs, off, n) == off[0] = 0 /\ \A i \in 1 .. n : off[i] = off[i - 1] + Len(seqs[i])

LEMMA LaidMore ==
  ASSUME NEW S, NEW seqs, NEW off, NEW n \in Nat, Ends(seqs, off, n), NEW m \in 1 .. n - 1,
         NEW joined, Laid(S, seqs, off, joined, m), \A i \in 1 .. n : seqs[i] \in Seq(S)
  PROVE  Laid(S, seqs, off, joined \o seqs[m + 1], m + 1)
<1>1. PICK next, new, l, o : /\ next = seqs[m + 1] /\ new = joined \o next
                             /\ l = Len(next) /\ o = off[m]
  OBVIOUS
<1>a. m + 1 \in 1 .. n /\ (\A i \in 1 .. m : i \in 1 .. n) /\ m + 1 - 1 = m
  OBVIOUS
<1>b. next \in Seq(S) /\ joined \in Seq(S) /\ o = Len(joined) /\ o \in Nat
  BY <1>1, <1>a DEF Laid
<1>c. l \in Nat
  BY <1>1, <1>b, LenProperties
<1>2. /\ l \in Nat /\ o \in Nat /\ new \in Seq(S) /\ Len(new) = o + l
      /\ \A j \in 1 .. o + l : new[j] = IF j <= o THEN joined[j] ELSE next[j - o]
  BY <1>1, <1>b, <1>c, ConcatProperties
<1>3. off[m + 1] = o + l
  <2>1. m + 1 \in 1 .. n /\ m + 1 - 1 = m
    OBVIOUS
  <2>2. off[m + 1] = off[m + 1 - 1] + Len(seqs[m + 1])
    BY <2>1 DEF Ends
  <2> QED
    BY <1>1, <2>1, <2>2
<1>4. \A i \in 1 .. m + 1 : i \in 1 .. m \/ (i = m + 1 /\ i - 1 = m)
  OBVIOUS
<1>5. ASSUME NEW i \in 1 .. m + 1
      PROVE  off[i - 1] \in Nat /\ off[i] \in 0 .. o + l
  <2>1. CASE i \in 1 .. m
    <3>1. off[i - 1] \in Nat /\ off[i] \in 0 .. o
      BY <1>1, <2>1 DEF Laid
    <3> QED
      BY <1>2, <3>1
  <2>2. CASE i = m + 1 /\ i - 1 = m
    BY <1>1, <1>2, <1>3, <2>2
  <2> QED
    BY <1>4, <2>1, <2>2
<1>6. ASSUME NEW i \in 1 .. m + 1, NEW k \in 1 .. Len(seqs[i])
      PROVE  new[off[i - 1] + k] = seqs[i][k]
  <2>1. CASE i \in 1 .. m
    <3>0. i \in 1 .. n
      BY <1>a, <2>1
    <3>1. off[i] = off[i - 1] + Len(seqs[i]) /\ off[i] \in 0 .. o /\ off[i - 1] \in Nat
      BY <1>1, <2>1, <3>0 DEF Laid, Ends
    <3>2. PICK j : j = off[i - 1] + k
      OBVIOUS
    <3>3. PICK w : w = Len(seqs[i])
      OBVIOUS
    <3>4. w \in Nat /\ k \in 1 .. w /\ off[i] = off[i - 1] + w
      <4>1. seqs[i] \in Seq(S)
        BY <1>a, <2>1
      <4> QED
        BY <3>1, <3>3, <4>1, LenProperties
    <3>5. j \in 1 .. o
      <4>1. PICK p, e : p = off[i - 1] /\ e = off[i]
        OBVIOUS
      <4>2. p \in Nat /\ e \in 0 .. o /\ w \in Nat /\ k \in 1 .. w /\ e = p + w /\ j = p + k
        BY <3>1, <3>2, <3>4, <4>1
      <4> QED
        BY <1>2, <4>2
    <3>6. new[j] = joined[j]
      BY <1>2, <3>5
    <3> QED
      BY <2>1, <3>2, <3>6 DEF Laid
  <2>2. CASE i = m + 1 /\ i - 1 = m
    <3>1. k \in 1 .. l /\ off[i - 1] = o /\ seqs[i] = next
      BY <1>1, <2>2
    <3>2. PICK j : j = o + k
      OBVIOUS
    <3>3. j \in 1 .. o + l /\ ~(j <= o) /\ j - o = k
      BY <1>2, <3>1, <3>2
    <3>4. new[j] = next[k]
      BY <1>2, <3>3
    <3> QED
      BY <3>1, <3>2, <3>4
  <2> QED
    BY <1>4, <2>1, <2>2
<1>7. Laid(S, seqs, off, new, m + 1)
  BY <1>2, <1>3, <1>5, <1>6 DEF Laid
<1> QED
  BY <1>1, <1>7

LEMMA FlattenAt ==
  ASSUME NEW S, NEW n \in Nat, NEW seqs \in [1 .. n -> Seq(S)], NEW off, Ends(seqs, off, n)
  PROVE  Laid(S, seqs, off, FlattenSeq(seqs), n)
<1>0. seqs \in Seq(Seq(S)) /\ Len(seqs) = n
  BY FcnIsSeq
<1>1. CASE n = 0
  <2>1. FlattenSeq(seqs) = seqs
    BY <1>0, <1>1 DEF FlattenSeq
  <2>2. seqs = <<>>
    BY <1>0, <1>1, EmptySeq
  <2>3. PICK s : s = seqs
    OBVIOUS
  <2>4. s \in Seq(S) /\ Len(s) = 0
    BY <2>2, <2>3, EmptySeq
  <2>5. off[n] = 0
    BY <1>1 DEF Ends
  <2>6. \A i \in 1 .. n : FALSE
    BY <1>1
  <2>7. Laid(S, seqs, off, s, n)
    <3>1. s \in Seq(S) /\ Len(s) = off[n] /\ off[n] \in Nat
      BY <2>4, <2>5
    <3>2. /\ \A i \in 1 .. n : off[i - 1] \in Nat /\ off[i] \in 0 .. off[n]
          /\ \A i \in 1 .. n : \A k \in 1 .. Len(seqs[i]) : s[off[i - 1] + k] = seqs[i][k]
      BY <2>6
    <3> QED
      BY <3>1, <3>2 DEF Laid
  <2> QED
    BY <2>1, <2>3, <2>7
<1>2. CASE n # 0
  <2>1. PICK f : /\ \A i \in 1 .. n : f[i] = IF i = 1 THEN seqs[i] ELSE f[i - 1] \o seqs[i]
                 /\ FlattenSeq(seqs) = f[n]
    BY <1>0, <1>2, FlattenIs
  <2>2. PICK Bad : Bad = {m \in 1 .. n : ~Laid(S, seqs, off, f[m], m)}
    OBVIOUS
  <2>3. ASSUME Bad # {}
        PROVE  FALSE
    <3>1. Bad \in SUBSET Nat
      BY <2>2
    <3>2. PICK m \in Bad : \A k \in Bad : m <= k
      BY <2>3, <3>1, Least
    <3>3. m \in 1 .. n /\ ~Laid(S, seqs, off, f[m], m)
      BY <2>2
    <3>4. CASE m = 1
      <4>1. PICK s : s = seqs[1]
        OBVIOUS
      <4>2. 1 \in 1 .. n /\ 1 - 1 = 0 /\ off[0] = 0 /\ off[1] = off[1 - 1] + Len(s)
        BY <3>3, <3>4, <4>1 DEF Ends
      <4>3. s \in Seq(S) /\ Len(s) \in Nat
        BY <4>1, <4>2, LenProperties
      <4>4. off[1] = Len(s)
        BY <4>2, <4>3
      <4>5. \A i \in 1 .. 1 : i = 1
        OBVIOUS
      <4>6. \A k \in 1 .. Len(s) : 0 + k = k
        BY <4>3
      <4>7. Laid(S, seqs, off, s, 1)
        BY <4>1, <4>2, <4>3, <4>4, <4>5, <4>6 DEF Laid
      <4>8. f[1] = s
        BY <2>1, <4>1, <4>2
      <4> QED
        BY <3>3, <3>4, <4>7, <4>8
    <3>5. CASE m # 1
      <4>1. PICK k : k = m - 1
        OBVIOUS
      <4>2. k \in 1 .. n - 1 /\ k \in 1 .. n /\ m = k + 1 /\ ~(m <= k)
        BY <3>3, <3>5, <4>1
      <4>3. Laid(S, seqs, off, f[k], k)
        BY <2>2, <3>2, <4>2
      <4>4. f[m] = f[k] \o seqs[m]
        BY <2>1, <3>3, <3>5, <4>1
      <4>5. \A i \in 1 .. n : seqs[i] \in Seq(S)
        OBVIOUS
      <4>6. Laid(S, seqs, off, f[k] \o seqs[k + 1], k + 1)
        BY <4>2, <4>3, <4>5, LaidMore
      <4> QED
        BY <3>3, <4>2, <4>4, <4>6
    <3> QED
      BY <3>4, <3>5
  <2>4. n \in 1 .. n
    BY <1>2
  <2> QED
    BY <2>1, <2>2, <2>3, <2>4
<1> QED
  BY <1>1, <1>2
------------------------------------------------------------------------------
(* Sectors in the order of their numbers.                                   *)

LEMMA SortedRange ==
  ASSUME NEW n \in Nat
  PROVE  Sorted(1 .. n) = [k \in 1 .. n |-> k]
<1>1. PICK ids : ids = 1 .. n
  OBVIOUS
<1>2. Cardinality(ids) = n
  BY <1>1, FS_Interval
<1>3. ASSUME NEW id \in ids
      PROVE  Cardinality({x \in ids : x < id}) = id - 1
  <2>1. PICK m : m = id - 1
    OBVIOUS
  <2>2. id \in 1 .. n /\ m \in 0 .. n
    BY <1>1, <2>1
  <2>3. {x \in ids : x < id} = 1 .. m
    BY <1>1, <2>1, <2>2
  <2>4. Cardinality(1 .. m) = m
    BY <2>2, FS_Interval
  <2> QED
    BY <2>1, <2>3, <2>4
<1>4. ASSUME NEW k \in 1 .. n
      PROVE  (CHOOSE id \in ids : Cardinality({x \in ids : x < id}) = k - 1) = k
  <2>1. k \in ids /\ \A id \in ids : id \in Int
    BY <1>1
  <2>2. \A id \in ids : Cardinality({x \in ids : x < id}) = k - 1 <=> id = k
    BY <1>3, <2>1
  <2> QED
    BY <2>1, <2>2
<1>5. Sorted(ids) = [k \in 1 .. n |-> k]
  BY <1>2, <1>4 DEF Sorted
<1> QED
  BY <1>1, <1>5

LEMMA PositionIs ==
  ASSUME NEW rec, RecordOK(rec), NEW id \in Ids(rec)
  PROVE  Position(rec, id) \in DOMAIN rec.map /\ rec.map[Position(rec, id)] = id
<1>1. PICK n, S : n = Len(rec.map) /\ S = {k \in DOMAIN rec.map : rec.map[k] = id}
  OBVIOUS
<1>2. n \in Nat /\ DOMAIN rec.map = 1 .. n
  BY <1>1, LenProperties DEF RecordOK
<1>3. S \in SUBSET (1 .. n) /\ S # {}
  BY <1>1, <1>2 DEF Ids
<1>4. Max(S) \in S
  BY <1>2, <1>3, MaxOf
<1> QED
  BY <1>1, <1>4 DEF Position

LEMMA PayloadType ==
  ASSUME NEW rec, RecordOK(rec), NEW k \in DOMAIN rec.map
  PROVE  Payload(rec, k) \in [1 .. rec.size -> Values]
<1>1. PICK sec : sec = rec.secs[k]
  OBVIOUS
<1>2. /\ sec.type \in {1, 3, 5, 7} => sec.cells \in [1 .. rec.size -> Values]
      /\ sec.type \in {2, 4, 6, 8} => sec.cells[1] \in Values
      /\ sec.type \in 0 .. 8
  BY <1>1 DEF RecordOK
<1>3. CASE sec.type = 0
  BY <1>1, <1>3, ValuesAssumption DEF Payload
<1>4. CASE sec.type \in {1, 3, 5, 7}
  BY <1>1, <1>2, <1>4 DEF Payload
<1>5. CASE sec.type \in {2, 4, 6, 8}
  BY <1>1, <1>2, <1>5 DEF Payload
<1> QED
  BY <1>2, <1>3, <1>4, <1>5

\* The cells of a sector of a file.
CellsAt(file, t, id) == Payload(file[t], Position(file[t], id))

\* Sector number m of a complete file, counted from 0, stands in this record, and
\* has this number there.
RecordOf(m) == (m \div Spt) + 1
NumberOf(m) == (m % Spt) + 1

LEMMA PlaceOf ==
  ASSUME NEW m \in Nat
  PROVE  /\ RecordOf(m) \in Nat \ {0} /\ NumberOf(m) \in 1 .. Spt
         /\ m + 1 = (RecordOf(m) - 1) * Spt + NumberOf(m)
         /\ \A n \in Nat : RecordOf(m) <= n <=> m + 1 <= n * Spt
         /\ ChsAt(m) = <<(RecordOf(m) - 1) \div 2, (RecordOf(m) - 1) % 2, NumberOf(m)>>
<1>0. Spt \in Nat \ {0}
  BY SptIsEven
<1>1. PICK q, r : q = m \div Spt /\ r = m % Spt
  OBVIOUS
<1>2. /\ q \in Nat /\ r \in 0 .. Spt - 1 /\ m = q * Spt + r
      /\ m \div PerCyl = q \div 2 /\ (m % PerCyl) \div Spt = q % 2
  BY <1>1, Split
<1>3. RecordOf(m) = q + 1 /\ NumberOf(m) = r + 1 /\ RecordOf(m) - 1 = q
  BY <1>1, <1>2 DEF RecordOf, NumberOf
<1>4. m + 1 = q * Spt + (r + 1)
  <2>1. q * Spt \in Nat
    BY <1>0, <1>2
  <2> QED
    BY <1>0, <1>2, <2>1
<1>5. ASSUME NEW n \in Nat
      PROVE  q + 1 <= n <=> m + 1 <= n * Spt
  <2>1. q * Spt \in Nat /\ n * Spt \in Nat
    BY <1>0, <1>2
  <2>2. CASE q < n
    <3>1. q * Spt + Spt <= n * Spt
      BY <1>0, <1>2, <2>2, Steps
    <3> QED
      BY <1>0, <1>2, <1>4, <2>1, <2>2, <3>1
  <2>3. CASE n < q
    <3>1. n * Spt + Spt <= q * Spt
      BY <1>0, <1>2, <2>3, Steps
    <3> QED
      BY <1>0, <1>2, <1>4, <2>1, <2>3, <3>1
  <2>4. CASE n = q
    BY <1>0, <1>2, <1>4, <2>1, <2>4
  <2> QED
    BY <1>2, <2>2, <2>3, <2>4
<1>6. ChsAt(m) = <<q \div 2, q % 2, r + 1>>
  <2>1. 1 + (m % Spt) = r + 1
    BY <1>0, <1>1, <1>2
  <2> QED
    BY <1>2, <2>1 DEF ChsAt
<1>7. RecordOf(m) \in Nat \ {0} /\ NumberOf(m) \in 1 .. Spt
  BY <1>0, <1>2, <1>3
<1>8. m + 1 = (RecordOf(m) - 1) * Spt + NumberOf(m)
  BY <1>3, <1>4
<1>9. \A n \in Nat : RecordOf(m) <= n <=> m + 1 <= n * Spt
  BY <1>3, <1>5
<1>10. ChsAt(m) = <<(RecordOf(m) - 1) \div 2, (RecordOf(m) - 1) % 2, NumberOf(m)>>
  BY <1>3, <1>6
<1> QED
  BY <1>7, <1>8, <1>9, <1>10

\* LogicalSectors puts the sectors of a complete file in this order.
LEMMA SectorsInOrder ==
  ASSUME NEW file, FileOK(file), Complete(file)
  PROVE  /\ Len(LogicalSectors(file)) = Len(file) * Spt
         /\ DOMAIN LogicalSectors(file) = 1 .. Len(file) * Spt
         /\ \A t \in 1 .. Len(file) : \A k \in 1 .. Spt :
              LogicalSectors(file)[(t - 1) * Spt + k] = M40Sector(file[t], k)
<1>0. Spt \in Nat \ {0}
  BY SptIsEven
<1>1. PICK n : n = Len(file)
  OBVIOUS
<1>2. n \in Nat /\ DOMAIN file = 1 .. n /\ \A t \in 1 .. n : Ids(file[t]) = 1 .. Spt
  BY <1>1 DEF FileOK, Complete
<1>3. PICK S : S = UNION {{M40Sector(file[t], k) : k \in 1 .. Spt} : t \in 1 .. n}
  OBVIOUS
<1>4. PICK seqs : seqs = [t \in 1 .. n |-> [k \in 1 .. Spt |-> M40Sector(file[t], k)]]
  OBVIOUS
<1>5. ASSUME NEW t \in 1 .. n
      PROVE  seqs[t] \in Seq(S) /\ Len(seqs[t]) = Spt
  <2>1. seqs[t] = [k \in 1 .. Spt |-> M40Sector(file[t], k)]
    BY <1>4
  <2>2. seqs[t] \in [1 .. Spt -> S]
    BY <1>3, <2>1
  <2> QED
    BY <1>0, <2>2, FcnIsSeq
<1>6. seqs \in [1 .. n -> Seq(S)]
  BY <1>4, <1>5
<1>7. PICK off : off = [i \in 0 .. n |-> i * Spt]
  OBVIOUS
<1>8. Ends(seqs, off, n)
  <2>1. off[0] = 0
    BY <1>0, <1>2, <1>7
  <2>2. ASSUME NEW i \in 1 .. n
        PROVE  off[i] = off[i - 1] + Len(seqs[i])
    <3>1. i \in 0 .. n /\ i - 1 \in 0 .. n
      BY <1>2
    <3>2. off[i] = i * Spt /\ off[i - 1] = (i - 1) * Spt
      BY <1>7, <3>1
    <3>3. i * Spt = (i - 1) * Spt + Spt
      BY <1>0
    <3> QED
      BY <1>5, <3>2, <3>3
  <2> QED
    BY <2>1, <2>2 DEF Ends
<1>9. LogicalSectors(file) = FlattenSeq(seqs)
  <2>1. ASSUME NEW t \in 1 .. n
        PROVE  LET ids == Sorted(Ids(file[t]))
               IN  [k \in DOMAIN ids |-> M40Sector(file[t], ids[k])]
                     = [k \in 1 .. Spt |-> M40Sector(file[t], k)]
    <3>1. Sorted(Ids(file[t])) = [k \in 1 .. Spt |-> k]
      BY <1>0, <1>2, SortedRange
    <3> QED
      BY <3>1
  <2>2. [t \in DOMAIN file |->
            LET ids == Sorted(Ids(file[t]))
            IN  [k \in DOMAIN ids |-> M40Sector(file[t], ids[k])]] = seqs
    BY <1>2, <1>4, <2>1
  <2> QED
    BY <2>2 DEF LogicalSectors, Concat
<1>10. Laid(S, seqs, off, FlattenSeq(seqs), n)
  BY <1>2, <1>6, <1>8, FlattenAt
<1>11. PICK secs : secs = FlattenSeq(seqs)
  OBVIOUS
<1>12. /\ secs \in Seq(S) /\ Len(secs) = n * Spt
       /\ \A t \in 1 .. n : \A k \in 1 .. Spt : secs[(t - 1) * Spt + k] = M40Sector(file[t], k)
  <2>1. secs \in Seq(S) /\ Len(secs) = off[n]
    BY <1>10, <1>11 DEF Laid
  <2>2. off[n] = n * Spt
    BY <1>2, <1>7
  <2>3. ASSUME NEW t \in 1 .. n, NEW k \in 1 .. Spt
        PROVE  secs[(t - 1) * Spt + k] = M40Sector(file[t], k)
    <3>1. secs[off[t - 1] + k] = seqs[t][k]
      BY <1>5, <1>10, <1>11 DEF Laid
    <3>2. off[t - 1] = (t - 1) * Spt
      <4>1. t - 1 \in 0 .. n
        BY <1>2
      <4> QED
        BY <1>7, <4>1
    <3> QED
      BY <1>4, <3>1, <3>2
  <2> QED
    BY <2>1, <2>2, <2>3
<1> QED
  BY <1>1, <1>9, <1>11, <1>12, LenProperties

LEMMA M40Is ==
  ASSUME NEW rec, RecordOK(rec), NEW id \in Ids(rec)
  PROVE  LET sec == M40Sector(rec, id)
         IN  /\ sec.cyl = rec.cyl /\ sec.head = rec.head /\ sec.id = id
             /\ sec.cells = Payload(rec, Position(rec, id))
<1>1. PICK k : k = Position(rec, id)
  OBVIOUS
<1>2. k \in DOMAIN rec.map
  BY <1>1, PositionIs
<1>3. rec.cmap = <<>> \/ rec.cmap[k] = rec.cyl
  BY <1>2 DEF RecordOK
<1>4. rec.hmap = <<>> \/ rec.hmap[k] = rec.head
  BY <1>2 DEF RecordOK
<1> QED
  BY <1>1, <1>3, <1>4 DEF M40Sector

\* The cylinder and the head tell a track from the others.
LEMMA Halves ==
  ASSUME NEW t \in Nat \ {0}, NEW u \in Nat \ {0}
  PROVE  (t - 1) \div 2 = (u - 1) \div 2 /\ (t - 1) % 2 = (u - 1) % 2 <=> t = u
<1>1. PICK p, q : p = t - 1 /\ q = u - 1
  OBVIOUS
<1>2. p \in Nat /\ q \in Nat /\ (p = q <=> t = u)
  BY <1>1
<1>3. p = (p \div 2) * 2 + (p % 2) /\ q = (q \div 2) * 2 + (q % 2)
  BY <1>2
<1>4. (p \div 2 = q \div 2 /\ p % 2 = q % 2) <=> p = q
  BY <1>3
<1> QED
  BY <1>1, <1>2, <1>4

LEMMA ChsOne ==
  ASSUME NEW m \in Nat, NEW p \in Nat, ChsAt(m) = ChsAt(p)
  PROVE  m = p
<1>1. PICK t, u, k, l : /\ t = RecordOf(m) /\ u = RecordOf(p)
                        /\ k = NumberOf(m) /\ l = NumberOf(p)
  OBVIOUS
<1>2. /\ t \in Nat \ {0} /\ u \in Nat \ {0}
      /\ m + 1 = (t - 1) * Spt + k /\ p + 1 = (u - 1) * Spt + l
      /\ ChsAt(m) = <<(t - 1) \div 2, (t - 1) % 2, k>>
      /\ ChsAt(p) = <<(u - 1) \div 2, (u - 1) % 2, l>>
  BY <1>1, PlaceOf
<1>3. PICK a, b, c, d : /\ a = (t - 1) \div 2 /\ b = (t - 1) % 2
                        /\ c = (u - 1) \div 2 /\ d = (u - 1) % 2
  OBVIOUS
<1>4. <<a, b, k>> = <<c, d, l>>
  BY <1>2, <1>3
<1>5. a = c /\ b = d /\ k = l
  BY <1>4
<1>6. t = u
  BY <1>2, <1>3, <1>5, Halves
<1> QED
  BY <1>2, <1>5, <1>6

\* What extract_bcos_extent has of a complete file.
LEMMA ByChsIs ==
  ASSUME NEW file, FileOK(file), Complete(file), NEW m \in Rounds
  PROVE  ByChs(file)[m] = IF RecordOf(m) <= Len(file)
                          THEN CellsAt(file, RecordOf(m), NumberOf(m)) ELSE Nothing
<1>0. Spt \in Nat \ {0} /\ m \in Nat
  BY SptIsEven DEF Rounds
<1>1. PICK n, secs, x : n = Len(file) /\ secs = LogicalSectors(file) /\ x = ChsAt(m)
  OBVIOUS
<1>2. PICK N : N = n * Spt
  OBVIOUS
<1>3. /\ n \in Nat /\ DOMAIN file = 1 .. n /\ N \in Nat /\ DOMAIN secs = 1 .. N
      /\ \A t \in 1 .. n : \A k \in 1 .. Spt : secs[(t - 1) * Spt + k] = M40Sector(file[t], k)
  BY <1>0, <1>1, <1>2, SectorsInOrder DEF FileOK
<1>4. ASSUME NEW p \in Nat, p + 1 <= N
      PROVE  /\ <<secs[p + 1].cyl, secs[p + 1].head, secs[p + 1].id>> = ChsAt(p)
             /\ secs[p + 1].cells = CellsAt(file, RecordOf(p), NumberOf(p))
  <2>1. PICK t, k : t = RecordOf(p) /\ k = NumberOf(p)
    OBVIOUS
  <2>2. /\ t \in Nat \ {0} /\ k \in 1 .. Spt /\ p + 1 = (t - 1) * Spt + k /\ t <= n
        /\ ChsAt(p) = <<(t - 1) \div 2, (t - 1) % 2, k>>
    BY <1>2, <1>3, <1>4, <2>1, PlaceOf
  <2>3. t \in 1 .. n
    BY <1>3, <2>2
  <2>4. PICK rec : rec = file[t]
    OBVIOUS
  <2>5. /\ RecordOK(rec) /\ Ids(rec) = 1 .. Spt
        /\ rec.cyl = (t - 1) \div 2 /\ rec.head = (t - 1) % 2
    BY <1>3, <2>3, <2>4 DEF FileOK, Complete, Heads
  <2>6. PICK sec : sec = M40Sector(rec, k)
    OBVIOUS
  <2>7. /\ sec.cyl = rec.cyl /\ sec.head = rec.head /\ sec.id = k
        /\ sec.cells = Payload(rec, Position(rec, k))
    BY <2>2, <2>5, <2>6, M40Is
  <2>8. secs[p + 1] = sec
    BY <1>3, <2>2, <2>3, <2>4, <2>6
  <2>9. sec.cells = CellsAt(file, t, k)
    BY <2>4, <2>7 DEF CellsAt
  <2> QED
    BY <2>1, <2>2, <2>5, <2>7, <2>8, <2>9
<1>5. PICK at : at = {i \in 1 .. N : <<secs[i].cyl, secs[i].head, secs[i].id>> = x}
  OBVIOUS
<1>6. ASSUME NEW i \in at
      PROVE  i = m + 1
  <2>1. PICK p \in Nat : i = p + 1 /\ p + 1 <= N
    <3>1. i - 1 \in Nat /\ i = (i - 1) + 1 /\ (i - 1) + 1 <= N
      BY <1>3, <1>5
    <3> QED
      BY <3>1
  <2>2. ChsAt(p) = ChsAt(m)
    BY <1>1, <1>4, <1>5, <2>1
  <2> QED
    BY <1>0, <2>1, <2>2, ChsOne
<1>7. ByChs(file)[m] = IF at = {} THEN Nothing ELSE secs[Max(at)].cells
  BY <1>1, <1>3, <1>5 DEF ByChs
<1>8. RecordOf(m) <= n <=> m + 1 <= N
  BY <1>0, <1>2, <1>3, PlaceOf
<1>9. CASE m + 1 <= N
  <2>1. m + 1 \in at
    BY <1>0, <1>1, <1>3, <1>4, <1>5, <1>9
  <2>2. at = {m + 1}
    BY <1>6, <2>1
  <2>3. Max(at) = m + 1
    BY <1>0, <2>2, MaxOne
  <2>4. secs[m + 1].cells = CellsAt(file, RecordOf(m), NumberOf(m))
    BY <1>0, <1>4, <1>9
  <2> QED
    BY <1>1, <1>7, <1>8, <1>9, <2>1, <2>3, <2>4
<1>10. CASE ~(m + 1 <= N)
  <2>1. at = {}
    BY <1>5, <1>6, <1>10
  <2> QED
    BY <1>1, <1>7, <1>8, <1>10, <2>1
<1> QED
  BY <1>9, <1>10

\* The same sector, counted from cylinder 1 and from cylinder 0.
LEMMA Shifted ==
  ASSUME NEW index \in Nat
  PROVE  /\ PerCyl \in Nat /\ PerCyl + index \in Nat
         /\ Chs(index) = ChsAt(PerCyl + index)
<1>0. Spt \in Nat \ {0}
  BY SptIsEven
<1>1. PICK d : d = PerCyl
  OBVIOUS
<1>2. d \in Nat \ {0} /\ d = 2 * Spt
  BY <1>0, <1>1 DEF PerCyl, Heads
<1>3. PICK c, r : c = index \div d /\ r = index % d
  OBVIOUS
<1>4. c \in Nat /\ r \in 0 .. d - 1 /\ index = c * d + r
  BY <1>2, <1>3, DivMod
<1>5. PICK m : m = d + index
  OBVIOUS
<1>6. m = (c + 1) * d + r
  <2>1. (c + 1) * d = c * d + d /\ c * d \in Nat
    BY <1>2, <1>4
  <2> QED
    BY <1>2, <1>4, <1>5, <2>1
<1>7. m \in Nat /\ m \div d = c + 1 /\ m % d = r
  <2>1. PICK e \in Nat : e = c + 1
    BY <1>4
  <2>2. m = e * d + r
    BY <1>6, <2>1
  <2>3. d \in Nat \ {0} /\ r \in 0 .. d - 1
    BY <1>2, <1>4
  <2>4. m \in Nat /\ m \div d = e /\ m % d = r
    BY <2>1, <2>2, <2>3, DivIs
  <2> QED
    BY <2>1, <2>4
<1>8. m % Spt = index % Spt
  <2>1. PICK q, s : q = index \div Spt /\ s = index % Spt
    OBVIOUS
  <2>2. q \in Nat /\ s \in 0 .. Spt - 1 /\ index = q * Spt + s
    BY <1>0, <2>1, DivMod
  <2>3. m = (q + 2) * Spt + s
    <3>1. (q + 2) * Spt = q * Spt + 2 * Spt /\ q * Spt \in Nat
      BY <1>0, <2>2
    <3> QED
      BY <1>0, <1>2, <1>5, <2>2, <3>1
  <2>4. m % Spt = s
    BY <1>0, <2>2, <2>3, DivIs
  <2> QED
    BY <2>1, <2>4
<1> QED
  BY <1>1, <1>2, <1>3, <1>4, <1>5, <1>7, <1>8 DEF Chs, ChsAt

\* What l1disk.py has of a complete file.
LEMMA AreaIs ==
  ASSUME NEW file, FileOK(file), Complete(file), NEW index \in Indices
  PROVE  View(ReadImd(file)).area[index] =
           IF RecordOf(PerCyl + index) <= Len(file)
           THEN CellsAt(file, RecordOf(PerCyl + index), NumberOf(PerCyl + index)) ELSE Nothing
<1>0. Spt \in Nat \ {0} /\ index \in Nat
  BY SptIsEven DEF Indices
<1>1. PICK n, tracks, m : n = Len(file) /\ tracks = ReadImd(file) /\ m = PerCyl + index
  OBVIOUS
<1>2. PICK u, k, ch : u = RecordOf(m) /\ k = NumberOf(m) /\ ch = Chs(index)
  OBVIOUS
<1>3. m \in Nat /\ ch = ChsAt(m)
  BY <1>0, <1>1, <1>2, Shifted
<1>4. u \in Nat \ {0} /\ k \in 1 .. Spt /\ ch = <<(u - 1) \div 2, (u - 1) % 2, k>>
  BY <1>2, <1>3, PlaceOf
<1>5. /\ (u - 1) \div 2 = 1 + index \div PerCyl
      /\ (u - 1) % 2 = (index % PerCyl) \div Spt
      /\ k = 1 + (index % Spt)
  BY <1>2, <1>4 DEF Chs
<1>6. /\ n \in Nat /\ DOMAIN file = 1 .. n /\ DOMAIN tracks = 1 .. n
      /\ \A t \in 1 .. n : /\ tracks[t].cyl = file[t].cyl /\ tracks[t].head = file[t].head
                           /\ tracks[t].map = file[t].map /\ tracks[t].secs = Contents(file[t])
  BY <1>1 DEF FileOK, ReadImd
<1>7. \A t \in 1 .. n : /\ file[t].cyl = (t - 1) \div 2 /\ file[t].head = (t - 1) % 2
                        /\ Ids(file[t]) = 1 .. Spt /\ RecordOK(file[t])
  BY <1>6 DEF FileOK, Complete, Heads
<1>8. PICK loc : loc = LocTracks(tracks, index)
  OBVIOUS
<1>9. loc = {t \in 1 .. n : tracks[t].cyl = (u - 1) \div 2 /\ tracks[t].head = (u - 1) % 2}
  BY <1>5, <1>6, <1>8 DEF LocTracks, TracksAt
<1>10. loc = {t \in 1 .. n : t = u}
  <2>1. ASSUME NEW t \in 1 .. n
        PROVE  (tracks[t].cyl = (u - 1) \div 2 /\ tracks[t].head = (u - 1) % 2) <=> t = u
    <3>1. t \in Nat \ {0}
      BY <1>6
    <3>2. tracks[t].cyl = (t - 1) \div 2 /\ tracks[t].head = (t - 1) % 2
      BY <1>6, <1>7
    <3> QED
      BY <1>4, <3>1, <3>2, Halves
  <2> QED
    BY <1>9, <2>1
<1>11. View(tracks).area[index] = IF Exists(tracks, index) THEN ReadSector(tracks, index)
                                  ELSE Nothing
  BY DEF View
<1>12. CASE u <= n
  <2>1. u \in 1 .. n /\ loc = {u}
    BY <1>4, <1>6, <1>10, <1>12
  <2>2. Max(loc) = u
    BY <2>1, MaxOne
  <2>3. PICK map, ids : map = tracks[u].map /\ ids = Range(map)
    OBVIOUS
  <2>4. ids = 1 .. Spt
    <3>1. PICK rec : rec = file[u]
      OBVIOUS
    <3>2. map = rec.map /\ Ids(rec) = 1 .. Spt
      BY <1>6, <1>7, <2>1, <2>3, <3>1
    <3>3. Range(rec.map) = Ids(rec)
      BY DEF Range, Ids
    <3> QED
      BY <2>3, <3>2, <3>3
  <2>5. Min(ids) = 1
    <3>1. 1 \in ids /\ ids \in SUBSET Nat
      BY <1>0, <2>4
    <3>2. Min(ids) \in ids /\ Min(ids) <= 1
      BY <3>1, MinOf
    <3> QED
      BY <2>4, <3>2
  <2>6. Loc(tracks, index) = [track |-> u, id |-> k]
    BY <1>0, <1>5, <1>8, <2>2, <2>3, <2>5 DEF Loc
  <2>7. tracks[u].secs = Contents(file[u]) /\ DOMAIN Contents(file[u]) = 1 .. Spt
    BY <1>6, <1>7, <2>1 DEF Contents
  <2>8. Exists(tracks, index) /\ ReadSector(tracks, index) = Contents(file[u])[k]
    <3>1. PICK at : at = Loc(tracks, index)
      OBVIOUS
    <3>2. at.track = u /\ at.id = k
      BY <2>6, <3>1
    <3>3. LocTracks(tracks, index) # {}
      BY <1>8, <2>1
    <3>4. Exists(tracks, index) <=> at.id \in DOMAIN tracks[at.track].secs
      BY <3>1, <3>3 DEF Exists
    <3>5. ReadSector(tracks, index) = tracks[at.track].secs[at.id]
      BY <3>1 DEF ReadSector
    <3> QED
      BY <1>4, <2>7, <3>2, <3>4, <3>5
  <2>9. Contents(file[u])[k] = CellsAt(file, u, k)
    BY <1>4, <1>7, <2>1 DEF Contents, CellsAt
  <2> QED
    BY <1>1, <1>2, <1>11, <1>12, <2>8, <2>9
<1>13. CASE ~(u <= n)
  <2>1. loc = {}
    BY <1>10, <1>13
  <2> QED
    BY <1>1, <1>2, <1>8, <1>11, <1>13, <2>1 DEF Exists
<1> QED
  BY <1>12, <1>13
------------------------------------------------------------------------------
(* The extent of a BCOS label.                                              *)

LEMMA RoundIs ==
  ASSUME NEW index \in Indices
  PROVE  /\ index \in Nat /\ PerCyl \in Nat /\ PerCyl + index \in Rounds
         /\ RoundsOf(Chs(index)) = {PerCyl + index}
<1>0. Spt \in Nat \ {0} /\ Cylinders \in Nat \ {0}
  BY SptIsEven, CylindersNat
<1>1. PICK d, m, chs : d = PerCyl /\ m = PerCyl + index /\ chs = Chs(index)
  OBVIOUS
<1>2. d \in Nat \ {0} /\ d = 2 * Spt
  BY <1>0, <1>1 DEF PerCyl, Heads
<1>3. m \in Rounds /\ index \in Nat /\ m \in Nat
  <2>1. (Cylinders + 1) * d = (Cylinders - 1) * d + 2 * d /\ (Cylinders - 1) * d \in Nat
    BY <1>0, <1>2
  <2>2. index \in 0 .. (Cylinders - 1) * d
    BY <1>1 DEF Indices
  <2>3. m \in 0 .. (Cylinders + 1) * d - 1
    BY <1>1, <1>2, <2>1, <2>2
  <2> QED
    BY <1>1, <2>2, <2>3 DEF Rounds
<1>4. chs = ChsAt(m)
  BY <1>1, <1>3, Shifted
<1>5. PICK p, k : p = RecordOf(m) - 1 /\ k = NumberOf(m)
  OBVIOUS
<1>6. /\ p \in Nat /\ k \in 1 .. Spt /\ m + 1 = p * Spt + k
      /\ chs = <<p \div 2, p % 2, k>>
  <2>1. PICK u : u = RecordOf(m)
    OBVIOUS
  <2>2. /\ u \in Nat \ {0} /\ k \in 1 .. Spt /\ m + 1 = (u - 1) * Spt + k
        /\ ChsAt(m) = <<(u - 1) \div 2, (u - 1) % 2, k>>
    BY <1>3, <1>5, <2>1, PlaceOf
  <2>3. u - 1 = p /\ p \in Nat
    BY <1>5, <2>1, <2>2
  <2> QED
    BY <1>4, <2>2, <2>3
<1>7. chs[1] * PerCyl + chs[2] * Spt + chs[3] - 1 = m
  <2>1. PICK c, h : c = p \div 2 /\ h = p % 2
    OBVIOUS
  <2>2. c \in Nat /\ h \in Nat /\ p = c * 2 + h
    BY <1>6, <2>1
  <2>3. chs[1] = c /\ chs[2] = h /\ chs[3] = k
    BY <1>6, <2>1
  <2>4. p * Spt = c * 2 * Spt + h * Spt /\ c * 2 * Spt = c * d
    BY <1>0, <1>2, <2>2
  <2>5. c * d \in Nat /\ h * Spt \in Nat
    BY <1>0, <1>2, <2>2
  <2>6. c * d + h * Spt + k - 1 = m
    BY <1>0, <1>3, <1>6, <2>4, <2>5
  <2> QED
    BY <1>1, <2>3, <2>6
<1>8. RoundsOf(chs) = {m}
  BY <1>3, <1>4, <1>7 DEF RoundsOf
<1> QED
  BY <1>1, <1>2, <1>3, <1>8

\* The two programs have the same cells at the same place.
LEMMA SameCells ==
  ASSUME NEW file, FileOK(file), Complete(file), NEW index \in Indices
  PROVE  ByChs(file)[PerCyl + index] = View(ReadImd(file)).area[index]
BY RoundIs, ByChsIs, AreaIs

LEMMA ExtentOf ==
  ASSUME NEW file, FileOK(file), Complete(file), NEW a \in Indices, NEW b \in Indices,
         NEW area, area = View(ReadImd(file)).area
  PROVE  Extent(ByChs(file), Chs(a), Chs(b)) =
           IF a <= b /\ \A i \in a .. b : area[i] # Nothing
           THEN Concat([i \in 1 .. b - a + 1 |-> area[a + i - 1]])
           ELSE Nothing
<1>1. PICK d, byChs, active :
        /\ d = PerCyl /\ byChs = ByChs(file)
        /\ active = {k \in Rounds : /\ \E i \in RoundsOf(Chs(a)) : i <= k
                                   /\ \E j \in RoundsOf(Chs(b)) : k <= j}
  OBVIOUS
<1>2. a \in Nat /\ b \in Nat /\ d \in Nat
  BY <1>1, RoundIs
<1>3. active = d + a .. d + b
  <2>1. /\ RoundsOf(Chs(a)) = {d + a} /\ RoundsOf(Chs(b)) = {d + b}
        /\ d + b \in Rounds
    BY <1>1, RoundIs
  <2>2. PICK m : m = (Cylinders + 1) * PerCyl - 1
    OBVIOUS
  <2>3. Rounds = 0 .. m /\ m \in Int
    <3>1. PerCyl \in Nat
      BY <1>1, <1>2
    <3> QED
      BY <2>2, <3>1, CylindersNat DEF Rounds
  <2>4. d + b <= m
    BY <2>1, <2>3
  <2>5. \A k : k \in d + a .. d + b <=> k \in 0 .. m /\ d + a <= k /\ k <= d + b
    BY <1>2, <2>3, <2>4
  <2>6. active = {k \in Rounds : d + a <= k /\ k <= d + b}
    BY <1>1, <2>1
  <2> QED
    BY <2>3, <2>5, <2>6
<1>4. ASSUME NEW i \in a .. b
      PROVE  i \in Indices /\ byChs[d + i] = area[i]
  <2>1. i \in Indices
    <3>1. PICK m : m = (Cylinders - 1) * PerCyl
      OBVIOUS
    <3>2. m \in Nat
      BY <1>1, <1>2, <3>1, CylindersNat
    <3>3. b \in 0 .. m /\ Indices = 0 .. m
      BY <3>1 DEF Indices
    <3> QED
      BY <1>2, <3>2, <3>3
  <2> QED
    BY <1>1, <2>1, SameCells
<1>5. active = {} <=> ~(a <= b)
  <2>1. a <= b => d + a \in active
    BY <1>2, <1>3
  <2> QED
    BY <1>2, <1>3, <2>1
<1>6. (\E k \in active : byChs[k] = Nothing) <=> (\E i \in a .. b : area[i] = Nothing)
  <2>1. ASSUME NEW k \in active
        PROVE  \E i \in a .. b : k = d + i
    <3>1. k - d \in a .. b /\ k = d + (k - d)
      BY <1>2, <1>3
    <3> QED
      BY <3>1
  <2>2. \A i \in a .. b : d + i \in active
    BY <1>2, <1>3
  <2> QED
    BY <1>4, <2>1, <2>2
<1>7. CASE a <= b /\ \A i \in a .. b : area[i] # Nothing
  <2>1. active # {} /\ ~(\E k \in active : byChs[k] = Nothing)
    BY <1>5, <1>6, <1>7
  <2>2. PICK first, n : first = Min(active) /\ n = Cardinality(active)
    OBVIOUS
  <2>3. first = d + a
    <3>1. active \in SUBSET Nat /\ d + a \in active
      BY <1>2, <1>3, <1>7
    <3>2. first \in active /\ first <= d + a
      BY <2>2, <3>1, MinOf
    <3> QED
      BY <1>2, <1>3, <3>2
  <2>4. n = b - a + 1
    <3>1. Cardinality(d + a .. d + b) = (d + b) - (d + a) + 1
      BY <1>2, <1>7, FS_Interval
    <3> QED
      BY <1>2, <1>3, <2>2, <3>1
  <2>5. [i \in 1 .. n |-> byChs[first + i - 1]] = [i \in 1 .. b - a + 1 |-> area[a + i - 1]]
    <3>1. ASSUME NEW i \in 1 .. n
          PROVE  byChs[first + i - 1] = area[a + i - 1]
      <4>1. PICK j : j = a + i - 1
        OBVIOUS
      <4>2. j \in a .. b /\ first + i - 1 = d + j
        BY <1>2, <2>3, <2>4, <4>1
      <4> QED
        BY <1>4, <4>1, <4>2
    <3> QED
      BY <2>4, <3>1
  <2>6. Extent(byChs, Chs(a), Chs(b)) = Concat([i \in 1 .. n |-> byChs[first + i - 1]])
    BY <1>1, <2>1, <2>2 DEF Extent
  <2> QED
    BY <1>1, <1>7, <2>5, <2>6
<1>8. CASE ~(a <= b /\ \A i \in a .. b : area[i] # Nothing)
  <2>1. active = {} \/ \E k \in active : byChs[k] = Nothing
    BY <1>5, <1>6, <1>8
  <2>2. Extent(byChs, Chs(a), Chs(b)) = Nothing
    BY <1>1, <2>1 DEF Extent
  <2> QED
    BY <1>1, <1>8, <2>2
<1> QED
  BY <1>7, <1>8
------------------------------------------------------------------------------
(* The flat image.                                                          *)

\* A sector of a complete file: its record's size is that of its place.
LEMMA CellsType ==
  ASSUME NEW file, FileOK(file), Complete(file), NEW m \in Nat, RecordOf(m) <= Len(file)
  PROVE  CellsAt(file, RecordOf(m), NumberOf(m)) \in
           [1 .. (IF m + 1 <= Spt THEN 1 ELSE Size) -> Values]
<1>1. PICK n, t, k, rec : n = Len(file) /\ t = RecordOf(m) /\ k = NumberOf(m) /\ rec = file[t]
  <2>1. PICK t : t = RecordOf(m)
    OBVIOUS
  <2> QED
    BY <2>1
<1>2. t \in Nat \ {0} /\ k \in 1 .. Spt /\ (t <= 1 <=> m + 1 <= 1 * Spt)
  BY <1>1, PlaceOf
<1>3. n \in Nat /\ t \in DOMAIN file
  BY <1>1, <1>2 DEF FileOK
<1>4. RecordOK(rec) /\ k \in Ids(rec) /\ rec.size = IF t = 1 THEN 1 ELSE Size
  BY <1>1, <1>2, <1>3 DEF FileOK, Complete
<1>5. t = 1 <=> m + 1 <= Spt
  BY <1>2, SptIsEven
<1>6. PICK p : p = Position(rec, k)
  OBVIOUS
<1>7. p \in DOMAIN rec.map
  BY <1>4, <1>6, PositionIs
<1>8. Payload(rec, p) \in [1 .. rec.size -> Values]
  BY <1>4, <1>7, PayloadType
<1>9. CellsAt(file, t, k) = Payload(rec, p)
  BY <1>1, <1>6 DEF CellsAt
<1> QED
  BY <1>1, <1>4, <1>5, <1>8, <1>9

\* Where the cells of each sector end.
FlatEnd(i) == IF i <= Spt THEN i ELSE 2 * i - Spt

LEMMA FlatOf ==
  ASSUME NEW file, FileOK(file), Complete(file), NEW N, N = Len(file) * Spt
  PROVE  /\ N \in Nat /\ FlatImage(file) \in Seq(Values) /\ Len(FlatImage(file)) = FlatEnd(N)
         /\ \A m \in Nat : m + 1 <= N =>
              \A k \in 1 .. (IF m + 1 <= Spt THEN 1 ELSE Size) :
                FlatImage(file)[FlatEnd(m) + k] = CellsAt(file, RecordOf(m), NumberOf(m))[k]
<1>0. Spt \in Nat \ {0}
  BY SptIsEven
<1>1. PICK n, secs : n = Len(file) /\ secs = LogicalSectors(file)
  OBVIOUS
<1>2. /\ n \in Nat /\ DOMAIN file = 1 .. n /\ N \in Nat /\ N = n * Spt /\ DOMAIN secs = 1 .. N
      /\ \A t \in 1 .. n : \A k \in 1 .. Spt : secs[(t - 1) * Spt + k] = M40Sector(file[t], k)
  <2>1. n \in Nat /\ DOMAIN file = 1 .. n /\ N = n * Spt
    BY <1>1 DEF FileOK
  <2>2. N \in Nat
    BY <1>0, <2>1
  <2>3. /\ DOMAIN secs = 1 .. n * Spt
        /\ \A t \in 1 .. n : \A k \in 1 .. Spt : secs[(t - 1) * Spt + k] = M40Sector(file[t], k)
    BY <1>1, SectorsInOrder
  <2> QED
    BY <2>1, <2>2, <2>3
<1>3. ASSUME NEW m \in Nat, m + 1 <= N
      PROVE  /\ RecordOf(m) <= n
             /\ secs[m + 1].cells = CellsAt(file, RecordOf(m), NumberOf(m))
             /\ secs[m + 1].cells \in [1 .. (IF m + 1 <= Spt THEN 1 ELSE Size) -> Values]
  <2>1. PICK t, k : t = RecordOf(m) /\ k = NumberOf(m)
    OBVIOUS
  <2>2. t \in Nat \ {0} /\ k \in 1 .. Spt /\ m + 1 = (t - 1) * Spt + k /\ t <= n
    BY <1>2, <1>3, <2>1, PlaceOf
  <2>3. PICK rec : rec = file[t]
    OBVIOUS
  <2>a. t \in 1 .. n
    BY <1>2, <2>2
  <2>4. RecordOK(rec) /\ k \in Ids(rec)
    BY <1>2, <2>2, <2>3, <2>a DEF FileOK, Complete
  <2>5. PICK sec : sec = M40Sector(rec, k)
    OBVIOUS
  <2>6. sec.cells = Payload(rec, Position(rec, k))
    BY <2>4, <2>5, M40Is
  <2>7. secs[m + 1] = sec
    BY <1>2, <2>2, <2>3, <2>a, <2>5
  <2>8. sec.cells = CellsAt(file, t, k)
    BY <2>3, <2>6 DEF CellsAt
  <2>9. CellsAt(file, t, k) \in [1 .. (IF m + 1 <= Spt THEN 1 ELSE Size) -> Values]
    BY <1>1, <2>1, <2>2, CellsType
  <2> QED
    BY <2>1, <2>2, <2>7, <2>8, <2>9
<1>4. PICK seqs : seqs = [i \in 1 .. N |-> secs[i].cells]
  OBVIOUS
<1>5. ASSUME NEW i \in 1 .. N
      PROVE  seqs[i] \in Seq(Values) /\ Len(seqs[i]) = IF i <= Spt THEN 1 ELSE 2
  <2>1. PICK m \in Nat : i = m + 1 /\ m + 1 <= N
    <3>1. i - 1 \in Nat /\ i = (i - 1) + 1
      BY <1>2
    <3> QED
      BY <1>2, <3>1
  <2>2. PICK l \in Nat : l = IF i <= Spt THEN 1 ELSE Size
    BY DEF Size
  <2>3. seqs[i] \in [1 .. l -> Values]
    BY <1>3, <1>4, <2>1, <2>2
  <2> QED
    BY <2>2, <2>3, FcnIsSeq DEF Size
<1>6. seqs \in [1 .. N -> Seq(Values)]
  BY <1>4, <1>5
<1>7. PICK off : off = [i \in 0 .. N |-> FlatEnd(i)]
  OBVIOUS
<1>8. Ends(seqs, off, N)
  <2>1. off[0] = 0
    BY <1>0, <1>2, <1>7 DEF FlatEnd
  <2>2. ASSUME NEW i \in 1 .. N
        PROVE  off[i] = off[i - 1] + Len(seqs[i])
    <3>1. PICK j : j = i - 1
      OBVIOUS
    <3>2. j \in 0 .. N /\ i \in 0 .. N /\ i = j + 1 /\ j \in Nat
      BY <1>2, <3>1
    <3>3. off[i] = FlatEnd(i) /\ off[j] = FlatEnd(j)
      BY <1>7, <3>2
    <3>4. FlatEnd(i) = FlatEnd(j) + (IF i <= Spt THEN 1 ELSE 2)
      BY <1>0, <3>2 DEF FlatEnd
    <3> QED
      BY <1>5, <3>1, <3>3, <3>4
  <2> QED
    BY <2>1, <2>2 DEF Ends
<1>9. PICK flat : flat = FlattenSeq(seqs)
  OBVIOUS
<1>10. Laid(Values, seqs, off, flat, N)
  BY <1>2, <1>6, <1>8, <1>9, FlattenAt
<1>11. FlatImage(file) = flat
  <2>1. FlatImage(file) = FlattenSeq([k \in DOMAIN secs |-> secs[k].cells])
    BY <1>1 DEF FlatImage, Concat
  <2> QED
    BY <1>2, <1>4, <1>9, <2>1
<1>12. flat \in Seq(Values) /\ Len(flat) = FlatEnd(N)
  <2>1. off[N] = FlatEnd(N)
    BY <1>2, <1>7
  <2> QED
    BY <1>10, <2>1 DEF Laid
<1>13. ASSUME NEW m \in Nat, m + 1 <= N, NEW k \in 1 .. (IF m + 1 <= Spt THEN 1 ELSE Size)
       PROVE  flat[FlatEnd(m) + k] = CellsAt(file, RecordOf(m), NumberOf(m))[k]
  <2>1. PICK i : i = m + 1
    OBVIOUS
  <2>2. i \in 1 .. N /\ i - 1 = m /\ m \in 0 .. N
    BY <1>2, <1>13, <2>1
  <2>3. k \in 1 .. Len(seqs[i])
    BY <1>5, <2>1, <2>2 DEF Size
  <2>4. flat[off[i - 1] + k] = seqs[i][k]
    BY <1>10, <2>2, <2>3 DEF Laid
  <2>5. off[i - 1] = FlatEnd(m)
    BY <1>7, <2>2
  <2>6. seqs[i] = CellsAt(file, RecordOf(m), NumberOf(m))
    BY <1>3, <1>4, <1>13, <2>1, <2>2
  <2> QED
    BY <2>4, <2>5, <2>6
<1> QED
  BY <1>2, <1>11, <1>12, <1>13

LEMMA FlatHas ==
  ASSUME NEW file, FileOK(file), Complete(file), NEW index \in Indices,
         NEW cells, cells = View(ReadImd(file)).area[index]
  PROVE  FlatCells(FlatImage(file), LogicalSector(1 + index \div PerCyl, index % PerCyl)) =
           IF cells = Nothing THEN <<>> ELSE cells
<1>0. Spt \in Nat \ {0} /\ Spt % 2 = 0
  BY SptIsEven
<1>1. PICK m, N, flat, d : /\ m = PerCyl + index /\ N = Len(file) * Spt /\ flat = FlatImage(file)
                           /\ d = PerCyl
  OBVIOUS
<1>2. index \in Nat /\ d \in Nat \ {0} /\ d = 2 * Spt /\ m \in Nat /\ m = d + index
  BY <1>0, <1>1, RoundIs DEF PerCyl, Heads
<1>3. LogicalSector(1 + index \div PerCyl, index % PerCyl) = m
  <2>1. PICK c, r : c = index \div d /\ r = index % d
    OBVIOUS
  <2>2. c \in Nat /\ r \in 0 .. d - 1 /\ index = c * d + r
    BY <1>2, <2>1, DivMod
  <2>3. (1 + c) * d = d + c * d /\ c * d \in Nat
    BY <1>2, <2>2
  <2>4. (1 + c) * d + r = m
    BY <1>2, <2>2, <2>3
  <2> QED
    BY <1>1, <2>1, <2>4 DEF LogicalSector
<1>4. PICK f : f = FlatSector(m) * Size
  OBVIOUS
<1>5. f \in Nat /\ f = 2 * m - Spt /\ f = FlatEnd(m) /\ ~(m + 1 <= Spt) /\ f >= 3 * Spt
  <2>1. PICK h : h = Spt \div 2
    OBVIOUS
  <2>2. h \in Nat /\ Spt = h * 2
    BY <1>0, <2>1
  <2>3. f = (m - h) * 2
    BY <1>4, <2>1 DEF FlatSector, Size
  <2>4. FlatEnd(m) = 2 * m - Spt
    BY <1>0, <1>2 DEF FlatEnd
  <2> QED
    BY <1>0, <1>2, <2>2, <2>3, <2>4
<1>6. /\ N \in Nat /\ flat \in Seq(Values) /\ Len(flat) = FlatEnd(N)
      /\ m + 1 <= N => \A k \in 1 .. 2 :
           flat[f + k] = CellsAt(file, RecordOf(m), NumberOf(m))[k]
  <2>1. PICK w : w = IF m + 1 <= Spt THEN 1 ELSE Size
    OBVIOUS
  <2>2. w = 2
    BY <1>5, <2>1 DEF Size
  <2>3. N \in Nat /\ flat \in Seq(Values) /\ Len(flat) = FlatEnd(N)
    BY <1>1, FlatOf
  <2>4. ASSUME m + 1 <= N, NEW k \in 1 .. w
        PROVE  flat[FlatEnd(m) + k] = CellsAt(file, RecordOf(m), NumberOf(m))[k]
    BY <1>1, <1>2, <2>1, <2>4, FlatOf
  <2> QED
    BY <1>5, <2>2, <2>3, <2>4
<1>7. PICK len : len = Len(flat)
  OBVIOUS
<1>8. len \in Nat /\ (m + 1 <= N => f + 2 <= len) /\ (~(m + 1 <= N) => len <= f)
  <2>1. len = IF N <= Spt THEN N ELSE 2 * N - Spt
    BY <1>6, <1>7 DEF FlatEnd
  <2>2. N \in Nat /\ m \in Nat /\ Spt \in Nat \ {0} /\ f = 2 * m - Spt /\ ~(m + 1 <= Spt) /\ f >= 3 * Spt
    BY <1>0, <1>2, <1>5, <1>6
  <2> QED
    BY <2>1, <2>2
<1>9. FlatCells(flat, m) = SubSeq(flat, f + 1, IF f + 2 < len THEN f + 2 ELSE len)
  BY <1>4, <1>7 DEF FlatCells, Slice, Size
<1>10. cells = IF m + 1 <= N THEN CellsAt(file, RecordOf(m), NumberOf(m)) ELSE Nothing
  <2>1. RecordOf(m) <= Len(file) <=> m + 1 <= N
    BY <1>1, <1>2, PlaceOf DEF FileOK
  <2> QED
    BY <1>1, <2>1, AreaIs
<1>11. CASE m + 1 <= N
  <2>1. cells \in [1 .. 2 -> Values]
    <3>1. RecordOf(m) <= Len(file)
      BY <1>1, <1>2, <1>11, PlaceOf DEF FileOK
    <3>2. PICK w : w = IF m + 1 <= Spt THEN 1 ELSE Size
      OBVIOUS
    <3>3. w = 2
      BY <1>5, <3>2 DEF Size
    <3>4. CellsAt(file, RecordOf(m), NumberOf(m)) \in [1 .. w -> Values]
      BY <1>2, <3>1, <3>2, CellsType
    <3> QED
      BY <1>10, <1>11, <3>3, <3>4
  <2>2. cells # Nothing
    BY <2>1, ValuesAssumption DEF Size
  <2>3. FlatCells(flat, m) = SubSeq(flat, f + 1, f + 2)
    BY <1>5, <1>8, <1>9, <1>11
  <2>4. PICK s : s = SubSeq(flat, f + 1, f + 2)
    OBVIOUS
  <2>5. Len(s) = 2 /\ s \in Seq(Values) /\ \A k \in 1 .. 2 : s[k] = flat[f + k]
    <3>1. \A k \in 1 .. 2 : f + 1 + k - 1 = f + k
      BY <1>5
    <3>2. flat \in [1 .. len -> Values]
      BY <1>6, <1>7, LenProperties
    <3>3. \A i \in f + 1 .. f + 2 : flat[i] \in Values
      BY <1>5, <1>8, <1>11, <3>2
    <3>4. PICK x, y : x = f + 1 /\ y = f + 2
      OBVIOUS
    <3>5. x \in Int /\ y \in Int /\ x <= y /\ y - x + 1 = 2
      BY <1>5, <3>4
    <3>a. s = SubSeq(flat, x, y) /\ \A i \in x .. y : flat[i] \in Values
      BY <2>4, <3>3, <3>4
    <3>b. /\ SubSeq(flat, x, y) \in Seq(Values)
          /\ Len(SubSeq(flat, x, y)) = IF x <= y THEN y - x + 1 ELSE 0
          /\ \A k \in 1 .. y - x + 1 : SubSeq(flat, x, y)[k] = flat[x + k - 1]
      BY <3>5, <3>a, SubSeqProperties
    <3>6. /\ s \in Seq(Values) /\ Len(s) = y - x + 1
          /\ \A k \in 1 .. y - x + 1 : s[k] = flat[x + k - 1]
      BY <3>5, <3>a, <3>b
    <3>7. s \in Seq(Values) /\ Len(s) = 2 /\ \A k \in 1 .. 2 : s[k] = flat[x + k - 1]
      BY <3>5, <3>6
    <3> QED
      BY <3>1, <3>4, <3>7
  <2>6. s = cells
    BY <1>6, <1>10, <1>11, <2>1, <2>5, LenProperties
  <2> QED
    BY <1>1, <1>3, <2>2, <2>3, <2>4, <2>6
<1>12. CASE ~(m + 1 <= N)
  <2>1. FlatCells(flat, m) = SubSeq(flat, f + 1, len)
    BY <1>5, <1>8, <1>9, <1>12
  <2>2. SubSeq(flat, f + 1, len) = <<>>
    BY <1>5, <1>6, <1>8, <1>12
  <2> QED
    BY <1>1, <1>3, <1>10, <1>12, <2>1, <2>2
<1> QED
  BY <1>11, <1>12
------------------------------------------------------------------------------
(* What stays true of an image in memory: every sector of the map is there, *)
(* as large as the track says.                                              *)

TrackOK(track) ==
  /\ DOMAIN track = {"mode", "cyl", "head", "size", "map", "secs"}
  /\ track.map \in Seq(Nat) /\ track.size \in Nat \ {0}
  /\ DOMAIN track.secs = {track.map[k] : k \in DOMAIN track.map}
  /\ \A id \in DOMAIN track.secs : track.secs[id] \in [1 .. track.size -> Values]

DiskOK(tracks) ==
  /\ Len(tracks) \in Nat /\ DOMAIN tracks = 1 .. Len(tracks)
  /\ \A t \in DOMAIN tracks : TrackOK(tracks[t])

\* Nothing but the cells of sectors differs.
SameShape(tracks, others) ==
  /\ DOMAIN tracks = DOMAIN others
  /\ \A t \in DOMAIN tracks : /\ tracks[t].size = others[t].size
                              /\ DOMAIN tracks[t].secs = DOMAIN others[t].secs

LEMMA ReadOK ==
  ASSUME NEW file, FileOK(file)
  PROVE  DiskOK(ReadImd(file))
<1>1. PICK n, tracks : n = Len(file) /\ tracks = ReadImd(file)
  OBVIOUS
<1>2. n \in Nat /\ DOMAIN file = 1 .. n
  BY <1>1 DEF FileOK
<1>3. ASSUME NEW t \in 1 .. n
      PROVE  TrackOK(tracks[t])
  <2>1. PICK rec, track : rec = file[t] /\ track = tracks[t]
    OBVIOUS
  <2>2. RecordOK(rec)
    BY <1>2, <2>1 DEF FileOK
  <2>3. track = [mode |-> rec.mode, cyl |-> rec.cyl, head |-> rec.head,
                 size |-> rec.size, map |-> rec.map, secs |-> Contents(rec)]
    BY <1>1, <1>2, <2>1 DEF ReadImd
  <2>4. rec.map \in Seq(Nat) /\ rec.size \in Nat \ {0}
    BY <2>2 DEF RecordOK
  <2>5. DOMAIN Contents(rec) = {rec.map[k] : k \in DOMAIN rec.map}
    BY DEF Contents, Ids
  <2>6. ASSUME NEW id \in Ids(rec)
        PROVE  Contents(rec)[id] \in [1 .. rec.size -> Values]
    <3>1. PICK p : p = Position(rec, id)
      OBVIOUS
    <3>2. p \in DOMAIN rec.map
      BY <2>2, <3>1, PositionIs
    <3> QED
      BY <2>2, <3>1, <3>2, PayloadType DEF Contents
  <2>7. \A id \in DOMAIN Contents(rec) : Contents(rec)[id] \in [1 .. rec.size -> Values]
    BY <2>6 DEF Contents
  <2>8. TrackOK(track)
    BY <2>3, <2>4, <2>5, <2>7 DEF TrackOK
  <2> QED
    BY <2>1, <2>8
<1>4. Len(tracks) = n /\ DOMAIN tracks = 1 .. n
  <2>1. PICK S : S = {tracks[t] : t \in 1 .. n}
    OBVIOUS
  <2>2. tracks \in [1 .. n -> S]
    BY <1>1, <1>2, <2>1 DEF ReadImd
  <2> QED
    BY <1>2, <2>2, FcnIsSeq
<1> QED
  BY <1>1, <1>2, <1>3, <1>4 DEF DiskOK

\* The new contents of one sector.
With(tracks, t, id, cells) == [tracks EXCEPT ![t].secs[id] = cells]

LEMMA WithOK ==
  ASSUME NEW tracks, DiskOK(tracks), NEW t \in DOMAIN tracks, NEW id \in DOMAIN tracks[t].secs,
         NEW cells \in [1 .. tracks[t].size -> Values]
  PROVE  DiskOK(With(tracks, t, id, cells)) /\ SameShape(With(tracks, t, id, cells), tracks)
<1>1. PICK n, new, old : n = Len(tracks) /\ new = With(tracks, t, id, cells) /\ old = tracks[t]
  OBVIOUS
<1>2. n \in Nat /\ DOMAIN tracks = 1 .. n /\ TrackOK(old)
  BY <1>1 DEF DiskOK
<1>3. DOMAIN new = 1 .. n /\ \A u \in 1 .. n : u # t => new[u] = tracks[u]
  BY <1>1, <1>2 DEF With
<1>4. PICK track : track = new[t]
  OBVIOUS
<1>5. track = [old EXCEPT !.secs[id] = cells]
  BY <1>1, <1>2, <1>4 DEF With
<1>6. /\ DOMAIN track = DOMAIN old /\ track.map = old.map /\ track.size = old.size
      /\ track.secs = [old.secs EXCEPT ![id] = cells]
  BY <1>2, <1>5 DEF TrackOK
<1>7. TrackOK(track)
  <2>1. \A i \in DOMAIN track.secs : track.secs[i] \in [1 .. track.size -> Values]
    <3>1. ASSUME NEW i \in DOMAIN track.secs
          PROVE  track.secs[i] \in [1 .. track.size -> Values]
      BY <1>1, <1>2, <1>6 DEF TrackOK
    <3> QED
      BY <3>1
  <2>2. DOMAIN track.secs = DOMAIN old.secs
    BY <1>6
  <2> QED
    BY <1>2, <1>6, <2>1, <2>2 DEF TrackOK
<1>8. \A u \in 1 .. n : TrackOK(new[u])
  BY <1>2, <1>3, <1>4, <1>7 DEF DiskOK
<1>9. Len(new) = n
  <2>1. PICK S : S = {new[u] : u \in 1 .. n}
    OBVIOUS
  <2>2. new = [u \in 1 .. n |-> new[u]]
    BY <1>1, <1>2 DEF With
  <2>3. new \in [1 .. n -> S]
    BY <2>1, <2>2
  <2> QED
    BY <1>2, <2>3, FcnIsSeq
<1>10. DiskOK(new)
  BY <1>2, <1>3, <1>8, <1>9 DEF DiskOK
<1>11. ASSUME NEW u \in 1 .. n
       PROVE  new[u].size = tracks[u].size /\ DOMAIN new[u].secs = DOMAIN tracks[u].secs
  BY <1>1, <1>3, <1>4, <1>6
<1>12. SameShape(new, tracks)
  BY <1>2, <1>3, <1>11 DEF SameShape
<1> QED
  BY <1>1, <1>10, <1>12

\* A slice that ends inside the data.
LEMMA SliceIs ==
  ASSUME NEW data \in Seq(Values), NEW from \in Nat, NEW n \in Nat
  PROVE  /\ Slice(data, from, n) \in Seq(Values) /\ Len(Slice(data, from, n)) \in 0 .. n
         /\ from + n <= Len(data) => Slice(data, from, n) \in [1 .. n -> Values]
<1>1. PICK len, s : len = Len(data) /\ s = Slice(data, from, n)
  OBVIOUS
<1>2. len \in Nat /\ data \in [1 .. len -> Values]
  BY <1>1, LenProperties
<1>3. PICK x, y : x = from + 1 /\ y = IF from + n < len THEN from + n ELSE len
  OBVIOUS
<1>4. x \in Int /\ y \in Int /\ y <= len /\ y <= from + n /\ x >= 1
  BY <1>2, <1>3
<1>5. s = SubSeq(data, x, y) /\ \A i \in x .. y : data[i] \in Values
  <2>1. \A i \in x .. y : i \in 1 .. len
    BY <1>2, <1>4
  <2> QED
    BY <1>1, <1>2, <1>3, <2>1 DEF Slice
<1>6. /\ SubSeq(data, x, y) \in Seq(Values)
      /\ Len(SubSeq(data, x, y)) = IF x <= y THEN y - x + 1 ELSE 0
  BY <1>4, <1>5, SubSeqProperties
<1>7. s \in Seq(Values) /\ Len(s) = IF x <= y THEN y - x + 1 ELSE 0
  BY <1>5, <1>6
<1>8. Len(s) \in 0 .. n
  <2>1. PICK l : l = Len(s)
    OBVIOUS
  <2>2. x = from + 1 /\ x \in Int /\ y \in Int /\ y <= from + n
    BY <1>3, <1>4
  <2>3. l = IF x <= y THEN y - x + 1 ELSE 0
    BY <1>7, <2>1
  <2>4. l \in 0 .. n
    BY <2>2, <2>3
  <2> QED
    BY <2>1, <2>4
<1>9. ASSUME from + n <= len
      PROVE  s \in [1 .. n -> Values]
  <2>1. Len(s) = n
    BY <1>2, <1>3, <1>4, <1>7, <1>9
  <2> QED
    BY <1>7, <2>1, LenProperties
<1> QED
  BY <1>1, <1>7, <1>8, <1>9

\* Where _loc finds a sector.
LEMMA LocIs ==
  ASSUME NEW tracks, DiskOK(tracks), NEW index, Exists(tracks, index)
  PROVE  LET at == Loc(tracks, index)
         IN  at.track \in DOMAIN tracks /\ at.id \in DOMAIN tracks[at.track].secs
<1>1. PICK n, loc, at : n = Len(tracks) /\ loc = LocTracks(tracks, index) /\ at = Loc(tracks, index)
  OBVIOUS
<1>2. n \in Nat /\ DOMAIN tracks = 1 .. n
  BY <1>1 DEF DiskOK
<1>3. loc # {} /\ at.id \in DOMAIN tracks[at.track].secs
  BY <1>1 DEF Exists
<1>4. loc \in SUBSET (1 .. n)
  BY <1>1, <1>2 DEF LocTracks, TracksAt
<1>5. Max(loc) \in loc
  BY <1>2, <1>3, <1>4, MaxOf
<1>6. at.track = Max(loc)
  BY <1>1 DEF Loc
<1> QED
  BY <1>1, <1>2, <1>3, <1>4, <1>5, <1>6
------------------------------------------------------------------------------
(* write                                                                    *)

\* The place in the data and the tracks, after some rounds of the loop.
WritingOK(acc) ==
  /\ DOMAIN acc = {"pos", "index", "tracks"} /\ acc.pos \in Nat
  /\ acc.tracks = Nothing \/ DiskOK(acc.tracks)

LEMMA OverlayIs ==
  ASSUME NEW n \in Nat, NEW old \in [1 .. n -> Values], NEW chunk \in Seq(Values),
         Len(chunk) \in 0 .. n
  PROVE  Overlay(old, chunk) \in [1 .. n -> Values]
<1>1. PICK l, rest : l = Len(chunk) /\ rest = SubSeq(old, Len(chunk) + 1, Len(old))
  OBVIOUS
<1>2. l \in 0 .. n /\ Len(old) = n
  BY <1>1, FcnIsSeq
<1>3. PICK x : x = l + 1
  OBVIOUS
<1>4. x \in Int /\ n \in Int /\ \A i \in x .. n : old[i] \in Values
  BY <1>2, <1>3
<1>5. rest = SubSeq(old, x, n)
  BY <1>1, <1>2, <1>3
<1>6. rest \in Seq(Values) /\ Len(rest) = IF x <= n THEN n - x + 1 ELSE 0
  BY <1>4, <1>5, SubSeqProperties
<1>7. l + Len(rest) = n
  BY <1>2, <1>3, <1>6
<1>8. chunk \o rest \in Seq(Values) /\ Len(chunk \o rest) = n
  BY <1>1, <1>6, <1>7, ConcatProperties
<1>9. PICK s : s = chunk \o rest
  OBVIOUS
<1>10. s \in [1 .. n -> Values]
  BY <1>8, <1>9, LenProperties
<1> QED
  BY <1>1, <1>9, <1>10 DEF Overlay

LEMMA PutSectorOK ==
  ASSUME NEW acc, WritingOK(acc), NEW data \in Seq(Values)
  PROVE  WritingOK(PutSector(acc, data))
<1>1. PICK new : new = PutSector(acc, data)
  OBVIOUS
<1>2. CASE acc.tracks = Nothing \/ acc.pos >= Len(data)
  BY <1>2 DEF PutSector
<1>3. CASE ~(acc.tracks = Nothing \/ acc.pos >= Len(data)) /\ ~Exists(acc.tracks, acc.index)
  <2>1. new = [acc EXCEPT !.tracks = Nothing]
    BY <1>1, <1>3 DEF PutSector
  <2>2. DOMAIN new = {"pos", "index", "tracks"} /\ new.tracks = Nothing /\ new.pos = acc.pos
    BY <2>1 DEF WritingOK
  <2> QED
    BY <1>1, <2>2 DEF WritingOK
<1>4. CASE ~(acc.tracks = Nothing \/ acc.pos >= Len(data)) /\ Exists(acc.tracks, acc.index)
  <2>1. PICK tracks, at, old : /\ tracks = acc.tracks /\ at = Loc(acc.tracks, acc.index)
                               /\ old = ReadSector(acc.tracks, acc.index)
    OBVIOUS
  <2>2. PICK chunk : chunk = Slice(data, acc.pos, Len(old))
    OBVIOUS
  <2>3. DiskOK(tracks) /\ acc.pos \in Nat
    BY <1>4, <2>1 DEF WritingOK
  <2>4. PICK t, id : t = at.track /\ id = at.id
    OBVIOUS
  <2>5. t \in DOMAIN tracks /\ id \in DOMAIN tracks[t].secs
    BY <1>4, <2>1, <2>3, <2>4, LocIs
  <2>6. PICK n : n = tracks[t].size
    OBVIOUS
  <2>7. n \in Nat /\ old \in [1 .. n -> Values]
    BY <2>1, <2>3, <2>4, <2>5, <2>6 DEF ReadSector, DiskOK, TrackOK
  <2>8. Len(old) = n
    BY <2>7, FcnIsSeq
  <2>9. chunk \in Seq(Values) /\ Len(chunk) \in 0 .. n
    BY <2>2, <2>3, <2>7, <2>8, SliceIs
  <2>10. PICK cells : cells = Overlay(old, chunk)
    OBVIOUS
  <2>11. cells \in [1 .. n -> Values]
    BY <2>7, <2>9, <2>10, OverlayIs
  <2>12. DiskOK(With(tracks, t, id, cells))
    BY <2>3, <2>5, <2>6, <2>11, WithOK
  <2>13. new = [pos |-> acc.pos + Len(old), index |-> acc.index + 1,
                tracks |-> With(tracks, t, id, cells)]
    BY <1>1, <1>4, <2>1, <2>2, <2>4, <2>10 DEF PutSector, With
  <2>14. acc.pos + Len(old) \in Nat
    BY <2>3, <2>7, <2>8
  <2> QED
    BY <1>1, <2>12, <2>13, <2>14 DEF WritingOK
<1> QED
  BY <1>2, <1>3, <1>4

\* The function that Written is defined with exists.
LEMMA WrittenIs ==
  ASSUME NEW tracks, NEW index, NEW data, Len(data) \in Nat
  PROVE  \E f : /\ f[0] = [pos |-> 0, index |-> index, tracks |-> tracks]
                /\ \A k \in 1 .. Len(data) : f[k] = PutSector(f[k - 1], data)
                /\ Written(tracks, index, data) = f[Len(data)].tracks
<1> DEFINE Is(f, m) == f = [k \in 0 .. m |->
                              IF k = 0 THEN [pos |-> 0, index |-> index, tracks |-> tracks]
                              ELSE PutSector(f[k - 1], data)]
<1>1. \A m \in Nat : \E f : Is(f, m)
  <2> DEFINE Missing == {m \in Nat : ~\E f : Is(f, m)}
  <2> SUFFICES ASSUME Missing # {}
               PROVE  FALSE
    OBVIOUS
  <2>1. PICK m \in Nat : m \in Missing /\ \A k \in Missing : m <= k
    <3>1. Missing \in SUBSET Nat
      OBVIOUS
    <3> HIDE DEF Missing
    <3> QED
      BY <3>1, Least
  <2>2. CASE m = 0
    <3> DEFINE f == [k \in 0 .. 0 |-> [pos |-> 0, index |-> index, tracks |-> tracks]]
    <3>1. Is(f, 0)
      OBVIOUS
    <3> QED
      BY <2>1, <2>2, <3>1
  <2>3. CASE m # 0
    <3>0. PICK k : k = m - 1
      OBVIOUS
    <3>1. k \in Nat /\ ~(m <= k)
      BY <2>1, <2>3, <3>0
    <3>2. PICK f : Is(f, k)
      <4> HIDE DEF Is
      <4> QED
        BY <2>1, <3>1
    <3> DEFINE more == [i \in 0 .. m |-> IF i = m THEN PutSector(f[m - 1], data) ELSE f[i]]
    <3>3. ASSUME NEW i \in 0 .. m
          PROVE  more[i] = IF i = 0 THEN [pos |-> 0, index |-> index, tracks |-> tracks]
                           ELSE PutSector(more[i - 1], data)
      <4>1. CASE i = m
        <5>1. more[k] = f[k]
          BY <2>1, <2>3, <3>0, <3>1
        <5> QED
          BY <2>3, <3>0, <4>1, <5>1
      <4>2. CASE i # m
        <5>1. i \in 0 .. k
          BY <2>1, <3>0, <4>2
        <5>2. f[i] = IF i = 0 THEN [pos |-> 0, index |-> index, tracks |-> tracks]
                     ELSE PutSector(f[i - 1], data)
          BY <3>2, <5>1
        <5>3. i # 0 => i - 1 \in 0 .. m /\ i - 1 # m
          BY <2>1
        <5>4. more[i] = f[i] /\ (i # 0 => more[i - 1] = f[i - 1])
          BY <4>2, <5>3
        <5> QED
          BY <5>2, <5>4
      <4> QED
        BY <4>1, <4>2
    <3>4. Is(more, m)
      BY <3>3
    <3> QED
      BY <2>1, <3>4
  <2> QED
    BY <2>2, <2>3
<1>2. PICK f : f = CHOOSE g : Is(g, Len(data))
  OBVIOUS
<1>3. Is(f, Len(data))
  BY <1>1, <1>2
<1>4. Written(tracks, index, data) = f[Len(data)].tracks
  BY <1>2 DEF Written
<1>5. /\ f[0] = [pos |-> 0, index |-> index, tracks |-> tracks]
      /\ \A k \in 1 .. Len(data) : f[k] = PutSector(f[k - 1], data)
  BY <1>3
<1> QED
  BY <1>4, <1>5

LEMMA WrittenOK ==
  ASSUME NEW tracks, DiskOK(tracks), NEW index, NEW data \in Seq(Values)
  PROVE  Written(tracks, index, data) = Nothing \/ DiskOK(Written(tracks, index, data))
<1>1. PICK n : n = Len(data)
  OBVIOUS
<1>2. n \in Nat
  BY <1>1, LenProperties
<1>3. PICK f : /\ f[0] = [pos |-> 0, index |-> index, tracks |-> tracks]
               /\ \A k \in 1 .. n : f[k] = PutSector(f[k - 1], data)
               /\ Written(tracks, index, data) = f[n].tracks
  BY <1>1, <1>2, WrittenIs
<1>4. PICK Bad : Bad = {k \in 0 .. n : ~WritingOK(f[k])}
  OBVIOUS
<1>5. ASSUME Bad # {}
      PROVE  FALSE
  <2>1. PICK k \in Bad : \A j \in Bad : k <= j
    <3>1. Bad \in SUBSET Nat
      BY <1>2, <1>4
    <3> QED
      BY <1>5, <3>1, Least
  <2>2. k \in 0 .. n /\ ~WritingOK(f[k])
    BY <1>4
  <2>3. CASE k = 0
    BY <1>3, <2>2, <2>3 DEF WritingOK
  <2>4. CASE k # 0
    <3>1. PICK j : j = k - 1
      OBVIOUS
    <3>2. j \in 0 .. n /\ ~(k <= j) /\ k \in 1 .. n
      BY <1>2, <2>2, <2>4, <3>1
    <3>3. WritingOK(f[j])
      BY <1>4, <2>1, <3>2
    <3>4. f[k] = PutSector(f[j], data)
      BY <1>3, <3>1, <3>2
    <3> QED
      BY <2>2, <3>3, <3>4, PutSectorOK
  <2> QED
    BY <2>3, <2>4
<1>6. WritingOK(f[n])
  BY <1>2, <1>4, <1>5
<1> QED
  BY <1>3, <1>6 DEF WritingOK
------------------------------------------------------------------------------
(* track0 and set_track0                                                    *)

\* sorted has every element at some place, and nothing else: the k-th one has
\* k - 1 before it.
LEMMA Ranked ==
  ASSUME NEW ids \in SUBSET Nat, IsFiniteSet(ids), NEW k \in 1 .. Cardinality(ids)
  PROVE  /\ Sorted(ids)[k] \in ids
         /\ Cardinality({x \in ids : x < Sorted(ids)[k]}) = k - 1
<1>1. PICK n : n = Cardinality(ids)
  OBVIOUS
<1>2. n \in Nat
  BY <1>1, FS_CardinalityType
<1>3. PICK Bad : Bad = {j \in 1 .. n : ~\E id \in ids : Cardinality({x \in ids : x < id}) = j - 1}
  OBVIOUS
<1>4. ASSUME Bad # {}
      PROVE  FALSE
  <2>1. PICK j \in Bad : \A i \in Bad : j <= i
    <3>1. Bad \in SUBSET Nat
      BY <1>2, <1>3
    <3> QED
      BY <1>4, <3>1, Least
  <2>2. j \in 1 .. n /\ ~\E id \in ids : Cardinality({x \in ids : x < id}) = j - 1
    BY <1>3
  <2>3. CASE j = 1
    <3>1. ids # {}
      BY <1>1, <2>2, FS_EmptySet
    <3>2. PICK id \in ids : \A x \in ids : id <= x
      BY <3>1, Least
    <3>3. {x \in ids : x < id} = {}
      <4>1. ASSUME NEW x \in ids
            PROVE  ~(x < id)
        <5>1. x \in Nat /\ id \in Nat /\ id <= x
          BY <3>2
        <5> QED
          BY <5>1
      <4> QED
        BY <4>1
    <3>4. Cardinality({x \in ids : x < id}) = j - 1
      BY <2>3, <3>3, FS_EmptySet
    <3> QED
      BY <2>2, <3>4
  <2>4. CASE j # 1
    <3>1. PICK i : i = j - 1
      OBVIOUS
    <3>2. i \in 1 .. n /\ ~(j <= i) /\ i < n
      BY <1>2, <2>2, <2>4, <3>1
    <3>3. PICK id \in ids : Cardinality({x \in ids : x < id}) = i - 1
      BY <1>3, <2>1, <3>2
    <3>4. PICK below, upto, above : /\ below = {x \in ids : x < id} /\ upto = below \cup {id}
                                    /\ above = {x \in ids : id < x}
      <4>1. PICK below : below = {x \in ids : x < id}
        OBVIOUS
      <4> QED
        BY <4>1
    <3>5. IsFiniteSet(below) /\ id \notin below /\ Cardinality(below) = i - 1
      BY <3>3, <3>4, FS_Subset
    <3>6. Cardinality(upto) = i
      <4>1. Cardinality(below \cup {id}) = Cardinality(below) + 1
        BY <3>5, FS_AddElement
      <4> QED
        BY <3>2, <3>4, <3>5, <4>1
    <3>7. above # {}
      <4>1. ASSUME above = {}
            PROVE  FALSE
        <5>1. ASSUME NEW x \in ids
              PROVE  x \in upto
          <6>1. x \in Nat /\ id \in Nat /\ ~(id < x)
            BY <3>4, <4>1
          <6>2. x = id \/ x < id
            BY <6>1
          <6> QED
            BY <3>4, <6>2
        <5>2. ids = upto
          BY <3>4, <5>1
        <5> QED
          BY <1>1, <3>2, <3>6, <5>2
      <4> QED
        BY <4>1
    <3>8. PICK next \in above : \A x \in above : next <= x
      <4>1. above \in SUBSET Nat
        BY <3>4
      <4> QED
        BY <3>7, <4>1, Least
    <3>9. {x \in ids : x < next} = upto
      <4>1. next \in ids /\ next \in Nat /\ id \in Nat /\ id < next
        BY <3>4, <3>8
      <4>2. ASSUME NEW x \in ids
            PROVE  x < next <=> x < id \/ x = id
        <5>1. x \in Nat
          OBVIOUS
        <5>2. id < x => next <= x
          BY <3>4, <3>8
        <5> QED
          BY <4>1, <5>1, <5>2
      <4> QED
        BY <3>4, <4>2
    <3>10. next \in ids /\ Cardinality({x \in ids : x < next}) = j - 1
      BY <3>1, <3>4, <3>6, <3>8, <3>9
    <3> QED
      BY <2>2, <3>10
  <2> QED
    BY <2>3, <2>4
<1>5. k \in 1 .. n /\ k \notin Bad
  BY <1>1, <1>4
<1>6. \E id \in ids : Cardinality({x \in ids : x < id}) = k - 1
  BY <1>3, <1>5
<1>7. Sorted(ids)[k] = CHOOSE id \in ids : Cardinality({x \in ids : x < id}) = k - 1
  BY DEF Sorted
<1> QED
  BY <1>6, <1>7

LEMMA SecsFinite ==
  ASSUME NEW track, TrackOK(track)
  PROVE  DOMAIN track.secs \in SUBSET Nat /\ IsFiniteSet(DOMAIN track.secs)
<1>1. PICK n, map : n = Len(track.map) /\ map = track.map
  OBVIOUS
<1>2. n \in Nat /\ map \in [1 .. n -> Nat]
  BY <1>1, LenProperties DEF TrackOK
<1>3. DOMAIN track.secs = {map[k] : k \in 1 .. n}
  BY <1>1, <1>2 DEF TrackOK
<1>4. IsFiniteSet(1 .. n)
  BY <1>2, FS_Interval
<1>5. IsFiniteSet({map[k] : k \in 1 .. n})
  <2>1. PICK S : S = {map[k] : k \in 1 .. n}
    OBVIOUS
  <2>2. map \in Surjection(1 .. n, S)
    BY <1>2, <2>1 DEF Surjection
  <2>3. IsFiniteSet(S)
    BY <1>4, <2>2, FS_Surjection
  <2> QED
    BY <2>1, <2>3
<1> QED
  BY <1>2, <1>3, <1>5

\* The sectors of one side of track 0.
Side(tracks, head) ==
  IF TracksAt(tracks, 0, head) = {} THEN <<>>
  ELSE LET t == Max(TracksAt(tracks, 0, head))
           ids == Sorted(DOMAIN tracks[t].secs)
       IN  [k \in DOMAIN ids |-> [track |-> t, id |-> ids[k]]]

Places(tracks) ==
  UNION {{[track |-> t, id |-> id] : id \in DOMAIN tracks[t].secs} : t \in DOMAIN tracks}

LEMMA SideIs ==
  ASSUME NEW tracks, DiskOK(tracks), NEW head
  PROVE  Side(tracks, head) \in Seq(Places(tracks))
<1>1. CASE TracksAt(tracks, 0, head) = {}
  <2>1. Side(tracks, head) = <<>>
    BY <1>1 DEF Side
  <2> QED
    BY <2>1, EmptySeq
<1>2. CASE TracksAt(tracks, 0, head) # {}
  <2>1. PICK n, found : n = Len(tracks) /\ found = TracksAt(tracks, 0, head)
    OBVIOUS
  <2>2. n \in Nat /\ DOMAIN tracks = 1 .. n /\ found \in SUBSET (1 .. n) /\ found # {}
    BY <1>2, <2>1 DEF DiskOK, TracksAt
  <2>3. PICK t : t = Max(found)
    OBVIOUS
  <2>4. t \in DOMAIN tracks
    BY <2>2, <2>3, MaxOf
  <2>5. PICK secs, ids, m : /\ secs = DOMAIN tracks[t].secs /\ ids = Sorted(DOMAIN tracks[t].secs)
                            /\ m = Cardinality(DOMAIN tracks[t].secs)
    OBVIOUS
  <2>6. secs \in SUBSET Nat /\ IsFiniteSet(secs) /\ m \in Nat
    BY <2>4, <2>5, SecsFinite, FS_CardinalityType DEF DiskOK
  <2>7. DOMAIN ids = 1 .. m
    BY <2>5 DEF Sorted
  <2>8. \A k \in 1 .. m : ids[k] \in secs
    BY <2>5, <2>6, Ranked
  <2>9. PICK side : side = [k \in 1 .. m |-> [track |-> t, id |-> ids[k]]]
    OBVIOUS
  <2>10. Side(tracks, head) = side
    BY <1>2, <2>1, <2>3, <2>5, <2>7, <2>9 DEF Side
  <2>11. \A k \in 1 .. m : side[k] \in Places(tracks)
    BY <2>4, <2>5, <2>8, <2>9 DEF Places
  <2>12. side \in [1 .. m -> Places(tracks)]
    BY <2>9, <2>11
  <2> QED
    BY <2>6, <2>10, <2>12, FcnIsSeq
<1> QED
  BY <1>1, <1>2

LEMMA Track0At ==
  ASSUME NEW tracks, DiskOK(tracks)
  PROVE  /\ Track0Sectors(tracks) \in Seq(Places(tracks))
         /\ \A at \in Places(tracks) : /\ at.track \in DOMAIN tracks
                                       /\ at.id \in DOMAIN tracks[at.track].secs
<1>1. Track0Sectors(tracks) = Side(tracks, 0) \o Side(tracks, 1)
  BY DEF Track0Sectors, Side
<1>2. Track0Sectors(tracks) \in Seq(Places(tracks))
  BY <1>1, SideIs, ConcatProperties
<1>3. ASSUME NEW at \in Places(tracks)
      PROVE  at.track \in DOMAIN tracks /\ at.id \in DOMAIN tracks[at.track].secs
  <2>1. PICK t \in DOMAIN tracks : at \in {[track |-> t, id |-> id] : id \in DOMAIN tracks[t].secs}
    BY DEF Places
  <2>2. PICK id \in DOMAIN tracks[t].secs : at = [track |-> t, id |-> id]
    BY <2>1
  <2> QED
    BY <2>1, <2>2
<1> QED
  BY <1>2, <1>3

\* Lengths add up.
LEMMA Sums ==
  ASSUME NEW n \in Nat, NEW len \in [1 .. n -> Nat]
  PROVE  \E off \in [0 .. n -> Nat] : off[0] = 0 /\ \A i \in 1 .. n : off[i] = off[i - 1] + len[i]
<1> DEFINE Is(off, m) == /\ off \in [0 .. m -> Nat] /\ off[0] = 0
                         /\ \A i \in 1 .. m : off[i] = off[i - 1] + len[i]
<1>1. PICK Bad : Bad = {m \in 0 .. n : ~\E off : Is(off, m)}
  OBVIOUS
<1>2. ASSUME Bad # {}
      PROVE  FALSE
  <2>1. PICK m \in Bad : \A k \in Bad : m <= k
    <3>1. Bad \in SUBSET Nat
      BY <1>1
    <3> QED
      BY <1>2, <3>1, Least
  <2>2. m \in 0 .. n /\ ~\E off : Is(off, m)
    BY <1>1
  <2>3. CASE m = 0
    <3> DEFINE off == [i \in 0 .. 0 |-> 0]
    <3>1. Is(off, 0)
      OBVIOUS
    <3> HIDE DEF Is, off
    <3> QED
      BY <2>2, <2>3, <3>1
  <2>4. CASE m # 0
    <3>1. PICK k : k = m - 1
      OBVIOUS
    <3>2. k \in 0 .. n /\ ~(m <= k) /\ m = k + 1 /\ k \in Nat
      BY <2>2, <2>4, <3>1
    <3>3. PICK off : Is(off, k)
      <4> HIDE DEF Is
      <4> QED
        BY <1>1, <2>1, <3>2
    <3> DEFINE more == [i \in 0 .. m |-> IF i = m THEN off[k] + len[m] ELSE off[i]]
    <3>4. off \in [0 .. k -> Nat] /\ off[0] = 0 /\ \A i \in 1 .. k : off[i] = off[i - 1] + len[i]
      BY <3>3
    <3>5. len[m] \in Nat /\ off[k] \in Nat
      BY <2>2, <2>4, <3>2, <3>4
    <3>6. more \in [0 .. m -> Nat]
      BY <3>2, <3>4, <3>5
    <3>7. more[0] = 0
      BY <3>2, <3>4
    <3>8. ASSUME NEW i \in 1 .. m
          PROVE  more[i] = more[i - 1] + len[i]
      <4>1. CASE i = m
        <5>1. i - 1 = k /\ k # m /\ k \in 0 .. m /\ m \in 0 .. m
          BY <3>2, <4>1
        <5>2. more[m] = off[k] + len[m] /\ more[k] = off[k]
          BY <5>1
        <5> QED
          BY <4>1, <5>1, <5>2
      <4>2. CASE i # m
        <5>1. i \in 1 .. k /\ i \in 0 .. m /\ i - 1 \in 0 .. m /\ i - 1 # m
          BY <3>2, <4>2
        <5>2. more[i] = off[i] /\ more[i - 1] = off[i - 1]
          BY <4>2, <5>1
        <5> QED
          BY <3>4, <5>1, <5>2
      <4> QED
        BY <4>1, <4>2
    <3>9. Is(more, m)
      BY <3>6, <3>7, <3>8
    <3> HIDE DEF Is, more
    <3> QED
      BY <2>2, <3>9
  <2> QED
    BY <2>3, <2>4
<1>3. \E off : Is(off, n)
  <2>1. n \in 0 .. n
    OBVIOUS
  <2> HIDE DEF Is
  <2>2. n \notin Bad
    BY <1>2
  <2> QED
    BY <1>1, <2>1, <2>2
<1> QED
  BY <1>3

\* The rounds of the loop of set_track0.
Rounds0(f, n, tracks, secs, data) ==
  /\ f[0] = [pos |-> 0, tracks |-> tracks]
  /\ \A k \in 1 .. n : f[k] = PutTrack0(f[k - 1], secs[k], data)

\* The function that WithTrack0 is defined with exists.
LEMMA WithTrack0Is ==
  ASSUME NEW tracks, NEW data, NEW secs, secs = Track0Sectors(tracks), NEW n \in Nat, n = Len(secs)
  PROVE  \E f : Rounds0(f, n, tracks, secs, data) /\ WithTrack0(tracks, data) = f[n].tracks
<1> DEFINE Is(f, m) == f = [k \in 0 .. m |-> IF k = 0 THEN [pos |-> 0, tracks |-> tracks]
                                            ELSE PutTrack0(f[k - 1], secs[k], data)]
<1>2. \A m \in Nat : \E f : Is(f, m)
  <2> DEFINE Missing == {m \in Nat : ~\E f : Is(f, m)}
  <2> SUFFICES ASSUME Missing # {}
               PROVE  FALSE
    OBVIOUS
  <2>1. PICK m \in Nat : m \in Missing /\ \A k \in Missing : m <= k
    <3>1. Missing \in SUBSET Nat
      OBVIOUS
    <3> HIDE DEF Missing
    <3> QED
      BY <3>1, Least
  <2>2. CASE m = 0
    <3> DEFINE f == [k \in 0 .. 0 |-> [pos |-> 0, tracks |-> tracks]]
    <3>1. Is(f, 0)
      OBVIOUS
    <3> QED
      BY <2>1, <2>2, <3>1
  <2>3. CASE m # 0
    <3>0. PICK k : k = m - 1
      OBVIOUS
    <3>1. k \in Nat /\ ~(m <= k)
      BY <2>1, <2>3, <3>0
    <3>2. PICK f : Is(f, k)
      <4> HIDE DEF Is
      <4> QED
        BY <2>1, <3>1
    <3> DEFINE more == [i \in 0 .. m |-> IF i = m THEN PutTrack0(f[m - 1], secs[m], data) ELSE f[i]]
    <3>3. ASSUME NEW i \in 0 .. m
          PROVE  more[i] = IF i = 0 THEN [pos |-> 0, tracks |-> tracks]
                           ELSE PutTrack0(more[i - 1], secs[i], data)
      <4>1. CASE i = m
        <5>1. more[k] = f[k]
          BY <2>1, <2>3, <3>0, <3>1
        <5> QED
          BY <2>3, <3>0, <4>1, <5>1
      <4>2. CASE i # m
        <5>1. i \in 0 .. k
          BY <2>1, <3>0, <4>2
        <5>2. f[i] = IF i = 0 THEN [pos |-> 0, tracks |-> tracks]
                     ELSE PutTrack0(f[i - 1], secs[i], data)
          BY <3>2, <5>1
        <5>3. i # 0 => i - 1 \in 0 .. m /\ i - 1 # m
          BY <2>1
        <5>4. more[i] = f[i] /\ (i # 0 => more[i - 1] = f[i - 1])
          BY <4>2, <5>3
        <5> QED
          BY <5>2, <5>4
      <4> QED
        BY <4>1, <4>2
    <3>4. Is(more, m)
      BY <3>3
    <3> QED
      BY <2>1, <3>4
  <2> QED
    BY <2>2, <2>3
<1>3. PICK f : f = CHOOSE g : Is(g, n)
  OBVIOUS
<1>4. Is(f, n)
  BY <1>2, <1>3
<1>5. WithTrack0(tracks, data) = f[n].tracks
  BY <1>3 DEF WithTrack0
<1>6. Rounds0(f, n, tracks, secs, data)
  BY <1>4 DEF Rounds0
<1> QED
  BY <1>5, <1>6

\* One round: at is a sector of the tracks, and the data reach over it.
LEMMA PutTrack0OK ==
  ASSUME NEW tracks, DiskOK(tracks), NEW at \in Places(tracks), NEW data \in Seq(Values),
         NEW pos \in Nat, NEW acc, acc.pos = pos,
         DiskOK(acc.tracks), SameShape(acc.tracks, tracks),
         pos + Len(tracks[at.track].secs[at.id]) <= Len(data)
  PROVE  LET new == PutTrack0(acc, at, data)
         IN  /\ new.pos = pos + Len(tracks[at.track].secs[at.id])
             /\ DiskOK(new.tracks) /\ SameShape(new.tracks, tracks)
<1>1. PICK t, id, now, new : /\ t = at.track /\ id = at.id /\ now = acc.tracks
                             /\ new = PutTrack0(acc, at, data)
  OBVIOUS
<1>2. t \in DOMAIN tracks /\ id \in DOMAIN tracks[t].secs
  BY <1>1, Track0At
<1>3. t \in DOMAIN now /\ now[t].size = tracks[t].size /\ id \in DOMAIN now[t].secs
  BY <1>1, <1>2 DEF SameShape
<1>4. PICK n : n = tracks[t].size
  OBVIOUS
<1>5. n \in Nat /\ tracks[t].secs[id] \in [1 .. n -> Values]
  BY <1>2, <1>4 DEF DiskOK, TrackOK
<1>6. now[t].secs[id] \in [1 .. n -> Values]
  BY <1>1, <1>3, <1>4 DEF DiskOK, TrackOK
<1>7. Len(tracks[t].secs[id]) = n /\ Len(now[t].secs[id]) = n
  BY <1>5, <1>6, FcnIsSeq
<1>8. PICK cells : cells = Slice(data, pos, n)
  OBVIOUS
<1>9. cells \in [1 .. n -> Values]
  BY <1>1, <1>5, <1>7, <1>8, SliceIs
<1>10. new = [pos |-> pos + n, tracks |-> With(now, t, id, cells)]
  BY <1>1, <1>7, <1>8 DEF PutTrack0, With
<1>11. DiskOK(With(now, t, id, cells)) /\ SameShape(With(now, t, id, cells), now)
  BY <1>1, <1>3, <1>4, <1>9, WithOK
<1>12. SameShape(With(now, t, id, cells), tracks)
  BY <1>1, <1>11 DEF SameShape
<1> QED
  BY <1>1, <1>7, <1>10, <1>11, <1>12

LEMMA WithTrack0OK ==
  ASSUME NEW tracks, DiskOK(tracks), NEW data \in Seq(Values), Len(data) = Len(Track0(tracks))
  PROVE  DiskOK(WithTrack0(tracks, data))
<1>1. PICK all, n : all = Track0Sectors(tracks) /\ n = Len(Track0Sectors(tracks))
  OBVIOUS
<1>2. /\ n \in Nat /\ DOMAIN all = 1 .. n
      /\ \A k \in 1 .. n : all[k] \in Places(tracks)
  BY <1>1, Track0At, LenProperties
<1>3. PICK seqs : seqs = [k \in 1 .. n |-> tracks[all[k].track].secs[all[k].id]]
  OBVIOUS
<1>4. ASSUME NEW k \in 1 .. n
      PROVE  seqs[k] \in Seq(Values) /\ Len(seqs[k]) \in Nat
  <2>1. PICK t, id : t = all[k].track /\ id = all[k].id
    OBVIOUS
  <2>2. t \in DOMAIN tracks /\ id \in DOMAIN tracks[t].secs
    BY <1>2, <2>1, Track0At
  <2>3. PICK m : m = tracks[t].size
    OBVIOUS
  <2>4. m \in Nat /\ tracks[t].secs[id] \in [1 .. m -> Values]
    BY <2>2, <2>3 DEF DiskOK, TrackOK
  <2> QED
    BY <1>3, <2>1, <2>4, FcnIsSeq
<1>5. PICK len : len = [k \in 1 .. n |-> Len(seqs[k])]
  OBVIOUS
<1>6. len \in [1 .. n -> Nat]
  BY <1>4, <1>5
<1>7. PICK off \in [0 .. n -> Nat] : off[0] = 0 /\ \A i \in 1 .. n : off[i] = off[i - 1] + len[i]
  BY <1>2, <1>6, Sums
<1>8. Ends(seqs, off, n)
  BY <1>5, <1>7 DEF Ends
<1>9. seqs \in [1 .. n -> Seq(Values)]
  BY <1>3, <1>4
<1>10. Laid(Values, seqs, off, FlattenSeq(seqs), n)
  BY <1>2, <1>8, <1>9, FlattenAt
<1>11. Track0(tracks) = FlattenSeq(seqs)
  BY <1>1, <1>2, <1>3 DEF Track0, Concat
<1>12. Len(data) = off[n] /\ off[n] \in Nat /\ \A i \in 1 .. n : off[i] <= off[n]
  BY <1>10, <1>11 DEF Laid
<1>13. PICK f : Rounds0(f, n, tracks, all, data) /\ WithTrack0(tracks, data) = f[n].tracks
  <2>1. all = Track0Sectors(tracks) /\ n \in Nat /\ n = Len(all)
    BY <1>1, <1>2
  <2> QED
    BY <2>1, WithTrack0Is
<1>14. PICK Good : Good = {k \in 0 .. n : /\ f[k].pos = off[k]
                                          /\ DiskOK(f[k].tracks) /\ SameShape(f[k].tracks, tracks)}
  OBVIOUS
<1>15. 0 \in Good
  BY <1>2, <1>7, <1>13, <1>14 DEF SameShape, Rounds0
<1>16. ASSUME NEW j \in Good, j < n
       PROVE  j + 1 \in Good
  <2>1. PICK k : k = j + 1
    OBVIOUS
  <2>2. k \in 1 .. n /\ k - 1 = j /\ j \in 0 .. n /\ k \in 0 .. n
    BY <1>2, <1>14, <1>16, <2>1
  <2>3. PICK at, acc, pos, m : at = all[k] /\ acc = f[j] /\ pos = off[j] /\ m = len[k]
    OBVIOUS
  <2>4. at \in Places(tracks) /\ pos \in Nat /\ m \in Nat
    BY <1>2, <1>6, <1>7, <2>2, <2>3
  <2>5. acc.pos = pos /\ DiskOK(acc.tracks) /\ SameShape(acc.tracks, tracks)
    BY <1>14, <2>3
  <2>6. m = Len(tracks[at.track].secs[at.id])
    BY <1>3, <1>5, <2>2, <2>3
  <2>7. off[k] = pos + m /\ off[k] <= Len(data)
    BY <1>7, <1>12, <2>2, <2>3
  <2>8. f[k] = PutTrack0(acc, at, data)
    BY <1>13, <2>2, <2>3 DEF Rounds0
  <2>9. f[k].pos = pos + m /\ DiskOK(f[k].tracks) /\ SameShape(f[k].tracks, tracks)
    BY <2>4, <2>5, <2>6, <2>7, <2>8, PutTrack0OK
  <2> QED
    BY <1>14, <2>1, <2>2, <2>7, <2>9
<1>17. n \in Good
  <2>1. PICK Bad : Bad = (0 .. n) \ Good
    OBVIOUS
  <2>2. ASSUME Bad # {}
        PROVE  FALSE
    <3>1. PICK k \in Bad : \A i \in Bad : k <= i
      <4>1. Bad \in SUBSET Nat
        BY <1>2, <2>1
      <4> QED
        BY <2>2, <4>1, Least
    <3>2. k \in 0 .. n /\ k # 0 /\ k \notin Good
      BY <1>15, <2>1
    <3>3. PICK j : j = k - 1
      OBVIOUS
    <3>4. j \in 0 .. n /\ ~(k <= j) /\ j < n /\ j + 1 = k
      BY <1>2, <3>2, <3>3
    <3>5. j \in Good
      BY <2>1, <3>1, <3>4
    <3> QED
      BY <1>16, <3>2, <3>4, <3>5
  <2> QED
    BY <1>2, <2>1, <2>2
<1> QED
  BY <1>13, <1>14, <1>17
------------------------------------------------------------------------------
(* The files that the tools make.                                           *)

LEMMA SavedOK ==
  ASSUME NEW track, TrackOK(track)
  PROVE  RecordOK(SavedTrack(track))
<1>1. PICK rec, n, map : rec = SavedTrack(track) /\ n = track.size /\ map = track.map
  OBVIOUS
<1>2. /\ n \in Nat \ {0} /\ map \in Seq(Nat)
      /\ \A k \in DOMAIN map : track.secs[map[k]] \in [1 .. n -> Values]
  BY <1>1 DEF TrackOK
<1>3. PICK secs : secs = [k \in DOMAIN map |->
                            IF Uniform(track.secs[map[k]])
                            THEN [type |-> 2, cells |-> <<track.secs[map[k]][1]>>]
                            ELSE [type |-> 1, cells |-> track.secs[map[k]]]]
  OBVIOUS
<1>4. rec = [mode |-> track.mode, cyl |-> track.cyl, head |-> track.head,
             cmap |-> <<>>, hmap |-> <<>>, size |-> n, map |-> map, secs |-> secs]
  BY <1>1, <1>3 DEF SavedTrack
<1>5. ASSUME NEW k \in DOMAIN map
      PROVE  /\ secs[k].type \in {1, 3, 5, 7} => secs[k].cells \in [1 .. n -> Values]
             /\ secs[k].type \in {2, 4, 6, 8} => secs[k].cells \in [1 .. 1 -> Values]
             /\ secs[k].type \in 0 .. 8
  <2>1. PICK cells : cells = track.secs[map[k]]
    OBVIOUS
  <2>2. cells \in [1 .. n -> Values] /\ cells[1] \in Values
    BY <1>2, <2>1
  <2>3. CASE Uniform(cells)
    <3>1. secs[k] = [type |-> 2, cells |-> <<cells[1]>>]
      BY <1>3, <2>1, <2>3
    <3>2. secs[k].type = 2 /\ secs[k].cells = <<cells[1]>>
      BY <3>1
    <3>3. <<cells[1]>> \in [1 .. 1 -> Values]
      BY <2>2
    <3> QED
      BY <3>2, <3>3
  <2>4. CASE ~Uniform(cells)
    <3>1. secs[k] = [type |-> 1, cells |-> cells]
      BY <1>3, <2>1, <2>4
    <3> QED
      BY <2>2, <3>1
  <2> QED
    BY <2>3, <2>4
<1>6. rec.map = map /\ rec.secs = secs /\ rec.size = n /\ rec.cmap = <<>> /\ rec.hmap = <<>>
  BY <1>4
<1>7. DOMAIN secs = DOMAIN map
  BY <1>3
<1>8. RecordOK(rec)
  BY <1>2, <1>5, <1>6, <1>7 DEF RecordOK
<1> QED
  BY <1>1, <1>8

LEMMA BlankOK ==
  ASSUME NEW track, TrackOK(track)
  PROVE  RecordOK(BlankTrack(track))
<1>1. PICK rec, n, map, secs : /\ rec = BlankTrack(track) /\ n = track.size /\ map = track.map
                               /\ secs = [k \in DOMAIN track.map |-> [type |-> 2, cells |-> <<Fill>>]]
  OBVIOUS
<1>2. n \in Nat \ {0} /\ map \in Seq(Nat)
  BY <1>1 DEF TrackOK
<1>3. rec = [mode |-> track.mode, cyl |-> track.cyl, head |-> track.head,
             cmap |-> <<>>, hmap |-> <<>>, size |-> n, map |-> map, secs |-> secs]
  BY <1>1 DEF BlankTrack
<1>4. \A k \in DOMAIN secs : secs[k].type = 2 /\ secs[k].cells \in [1 .. 1 -> Values]
  <2>1. <<Fill>> \in [1 .. 1 -> Values]
    BY ValuesAssumption
  <2> QED
    BY <1>1, <2>1
<1>5. rec.map = map /\ rec.secs = secs /\ rec.size = n /\ rec.cmap = <<>> /\ rec.hmap = <<>>
  BY <1>3
<1>6. DOMAIN secs = DOMAIN map
  BY <1>1
<1>7. RecordOK(rec)
  BY <1>2, <1>4, <1>5, <1>6, ValuesAssumption DEF RecordOK
<1> QED
  BY <1>1, <1>7

\* A file with one record for every track.
LEMMA FileOf ==
  ASSUME NEW n \in Nat, NEW file, file = [t \in 1 .. n |-> file[t]],
         \A t \in 1 .. n : RecordOK(file[t])
  PROVE  FileOK(file)
<1>1. PICK S : S = {file[t] : t \in 1 .. n}
  OBVIOUS
<1>2. file \in [1 .. n -> S]
  BY <1>1
<1>3. Len(file) = n
  BY <1>2, FcnIsSeq
<1>4. DOMAIN file = 1 .. n
  BY <1>2
<1> QED
  BY <1>3, <1>4 DEF FileOK

LEMMA SaveOK ==
  ASSUME NEW tracks, DiskOK(tracks)
  PROVE  /\ FileOK([t \in DOMAIN tracks |-> SavedTrack(tracks[t])])
         /\ FileOK([t \in DOMAIN tracks |-> BlankTrack(tracks[t])])
<1>1. PICK n : n = Len(tracks)
  OBVIOUS
<1>2. n \in Nat /\ DOMAIN tracks = 1 .. n /\ \A t \in 1 .. n : TrackOK(tracks[t])
  BY <1>1 DEF DiskOK
<1>3. PICK saved : saved = [t \in DOMAIN tracks |-> SavedTrack(tracks[t])]
  OBVIOUS
<1>4. PICK blank : blank = [t \in DOMAIN tracks |-> BlankTrack(tracks[t])]
  OBVIOUS
<1>5. saved = [t \in 1 .. n |-> saved[t]] /\ \A t \in 1 .. n : RecordOK(saved[t])
  BY <1>2, <1>3, SavedOK
<1>6. blank = [t \in 1 .. n |-> blank[t]] /\ \A t \in 1 .. n : RecordOK(blank[t])
  BY <1>2, <1>4, BlankOK
<1>7. FileOK(saved)
  BY <1>2, <1>5, FileOf
<1>8. FileOK(blank)
  BY <1>2, <1>6, FileOf
<1> QED
  BY <1>3, <1>4, <1>7, <1>8

\* The rounds of the loop that keeps the records below the limit.
Kept(f, n, file, limit) ==
  /\ f[0] = <<>>
  /\ \A t \in 1 .. n : f[t] = IF file[t].cyl < limit THEN Append(f[t - 1], file[t]) ELSE f[t - 1]

\* The function that Below is defined with exists.
LEMMA BelowIs ==
  ASSUME NEW file, NEW limit, NEW n \in Nat, n = Len(file)
  PROVE  \E f : Kept(f, n, file, limit) /\ Below(file, limit) = f[n]
<1> DEFINE Is(f, m) == f = [t \in 0 .. m |->
                              IF t = 0 THEN <<>>
                              ELSE IF file[t].cyl < limit THEN Append(f[t - 1], file[t]) ELSE f[t - 1]]
<1>1. \A m \in Nat : \E f : Is(f, m)
  <2> DEFINE Missing == {m \in Nat : ~\E f : Is(f, m)}
  <2> SUFFICES ASSUME Missing # {}
               PROVE  FALSE
    OBVIOUS
  <2>1. PICK m \in Nat : m \in Missing /\ \A k \in Missing : m <= k
    <3>1. Missing \in SUBSET Nat
      OBVIOUS
    <3> HIDE DEF Missing
    <3> QED
      BY <3>1, Least
  <2>2. CASE m = 0
    <3> DEFINE f == [t \in 0 .. 0 |-> <<>>]
    <3>1. Is(f, 0)
      OBVIOUS
    <3> QED
      BY <2>1, <2>2, <3>1
  <2>3. CASE m # 0
    <3>0. PICK k : k = m - 1
      OBVIOUS
    <3>1. k \in Nat /\ ~(m <= k)
      BY <2>1, <2>3, <3>0
    <3>2. PICK f : Is(f, k)
      <4> HIDE DEF Is
      <4> QED
        BY <2>1, <3>1
    <3> DEFINE next == IF file[m].cyl < limit THEN Append(f[m - 1], file[m]) ELSE f[m - 1]
               more == [i \in 0 .. m |-> IF i = m THEN next ELSE f[i]]
    <3>3. ASSUME NEW i \in 0 .. m
          PROVE  more[i] = IF i = 0 THEN <<>>
                           ELSE IF file[i].cyl < limit THEN Append(more[i - 1], file[i])
                                ELSE more[i - 1]
      <4>1. CASE i = m
        <5>1. more[k] = f[k]
          BY <2>1, <2>3, <3>0, <3>1
        <5> QED
          BY <2>3, <3>0, <4>1, <5>1
      <4>2. CASE i # m
        <5>1. i \in 0 .. k
          BY <2>1, <3>0, <4>2
        <5>2. f[i] = IF i = 0 THEN <<>>
                     ELSE IF file[i].cyl < limit THEN Append(f[i - 1], file[i]) ELSE f[i - 1]
          BY <3>2, <5>1
        <5>3. i # 0 => i - 1 \in 0 .. m /\ i - 1 # m
          BY <2>1
        <5>4. more[i] = f[i] /\ (i # 0 => more[i - 1] = f[i - 1])
          BY <4>2, <5>3
        <5> QED
          BY <5>2, <5>4
      <4> QED
        BY <4>1, <4>2
    <3>4. Is(more, m)
      BY <3>3
    <3> QED
      BY <2>1, <3>4
  <2> QED
    BY <2>2, <2>3
<1>2. PICK f : f = CHOOSE g : Is(g, n)
  OBVIOUS
<1>3. Is(f, n)
  BY <1>1, <1>2
<1>4. Below(file, limit) = f[n]
  BY <1>2 DEF Below
<1>5. f[0] = <<>>
  BY <1>3
<1>6. ASSUME NEW t \in 1 .. n
      PROVE  f[t] = IF file[t].cyl < limit THEN Append(f[t - 1], file[t]) ELSE f[t - 1]
  <2>1. t \in 0 .. n /\ t # 0
    OBVIOUS
  <2>2. f[t] = IF t = 0 THEN <<>>
               ELSE IF file[t].cyl < limit THEN Append(f[t - 1], file[t]) ELSE f[t - 1]
    BY Zenon, <1>3, <2>1
  <2> QED
    BY <2>1, <2>2
<1>7. Kept(f, n, file, limit)
  BY <1>5, <1>6 DEF Kept
<1> QED
  BY <1>4, <1>7

LEMMA BelowOK ==
  ASSUME NEW file, FileOK(file), NEW limit
  PROVE  FileOK(Below(file, limit))
<1>1. PICK n, S : n = Len(file) /\ S = {file[t] : t \in DOMAIN file}
  OBVIOUS
<1>2. n \in Nat /\ DOMAIN file = 1 .. n /\ \A rec \in S : RecordOK(rec)
  BY <1>1 DEF FileOK
<1>3. PICK f : Kept(f, n, file, limit) /\ Below(file, limit) = f[n]
  BY <1>1, <1>2, BelowIs
<1>4. PICK Bad : Bad = {t \in 0 .. n : f[t] \notin Seq(S)}
  OBVIOUS
<1>5. ASSUME Bad # {}
      PROVE  FALSE
  <2>1. PICK t \in Bad : \A u \in Bad : t <= u
    <3>1. Bad \in SUBSET Nat
      BY <1>2, <1>4
    <3> QED
      BY <1>5, <3>1, Least
  <2>2. t \in 0 .. n /\ f[t] \notin Seq(S)
    BY <1>4
  <2>3. CASE t = 0
    <3>1. f[0] = <<>>
      BY <1>3 DEF Kept
    <3> QED
      BY <2>2, <2>3, <3>1, EmptySeq
  <2>4. CASE t # 0
    <3>1. PICK u : u = t - 1
      OBVIOUS
    <3>2. u \in 0 .. n /\ ~(t <= u) /\ t \in 1 .. n
      BY <1>2, <2>2, <2>4, <3>1
    <3>3. f[u] \in Seq(S)
      BY <1>4, <2>1, <3>2
    <3>4. f[t] = Append(f[u], file[t]) \/ f[t] = f[u]
      BY <1>3, <3>1, <3>2 DEF Kept
    <3>5. file[t] \in S
      BY <1>1, <1>2, <3>2
    <3>6. Append(f[u], file[t]) \in Seq(S)
      BY <3>3, <3>5, AppendProperties
    <3> QED
      BY <2>2, <3>3, <3>4, <3>6
  <2> QED
    BY <2>3, <2>4
<1>6. PICK kept, m : kept = f[n] /\ m = Len(f[n])
  OBVIOUS
<1>7. kept \in Seq(S) /\ m \in Nat /\ kept \in [1 .. m -> S]
  <2>1. f[n] \in Seq(S)
    BY <1>2, <1>4, <1>5
  <2> QED
    BY <1>6, <2>1, LenProperties
<1>8. FileOK(kept)
  BY <1>2, <1>7, FileOf
<1> QED
  BY <1>3, <1>6, <1>8
------------------------------------------------------------------------------
(* The invariant: every file and the image in memory are well formed, and    *)
(* the arrays show the files.                                               *)

FilesStand ==
  /\ DOMAIN files = Names
  /\ \A n \in Names : files[n] = Nothing \/ FileOK(files[n])
  /\ arrays = [n \in Names |-> ViewOf(files[n])]

Standing == FilesStand /\ (disk = Nothing \/ DiskOK(disk))

LEMMA Starts == Init => Standing
<1> SUFFICES ASSUME Init
             PROVE  Standing
  OBVIOUS
<1>1. PICK image \in Images : files \in {[n \in Names |-> IF n = m THEN image ELSE Nothing] :
                                           m \in Names}
  BY DEF Init
<1>2. PICK m \in Names : files = [n \in Names |-> IF n = m THEN image ELSE Nothing]
  BY <1>1
<1>3. \A n \in Names : files[n] = Nothing \/ FileOK(files[n])
  BY <1>2, ImagesAssumption
<1> QED
  BY <1>2, <1>3 DEF Init, Standing, FilesStand

\* A step that changes at most one file.
LEMMA FilesKept ==
  ASSUME FilesStand, Watch, NEW m \in Names, NEW file, FileOK(file),
         files' = files \/ files' = [files EXCEPT ![m] = file]
  PROVE  FilesStand'
<1>1. DOMAIN files' = Names
  BY DEF FilesStand
<1>2. \A n \in Names : files'[n] = Nothing \/ FileOK(files'[n])
  BY DEF FilesStand
<1>3. ASSUME NEW n \in Names
      PROVE  (IF files'[n] = files[n] THEN arrays[n] ELSE ViewOf(files'[n])) = ViewOf(files'[n])
  BY DEF FilesStand
<1>4. arrays' = [n \in Names |-> ViewOf(files'[n])]
  BY <1>3 DEF Watch
<1> QED
  BY <1>1, <1>2, <1>4 DEF FilesStand

LEMMA FilesSame ==
  ASSUME FilesStand, Watch, files' = files
  PROVE  FilesStand'
<1>1. ASSUME NEW n \in Names
      PROVE  (IF files'[n] = files[n] THEN arrays[n] ELSE ViewOf(files'[n])) = ViewOf(files'[n])
  BY DEF FilesStand
<1>2. arrays' = [n \in Names |-> ViewOf(files'[n])]
  BY <1>1 DEF Watch
<1> QED
  BY <1>2 DEF FilesStand

LEMMA StandsOn == Standing /\ [Next]_vars => Standing'
<1> SUFFICES ASSUME Standing, [Next]_vars
             PROVE  Standing'
  OBVIOUS
<1>0. FilesStand /\ (disk = Nothing \/ DiskOK(disk))
  BY DEF Standing
<1>1. ASSUME NEW n \in Names, Open(n)
      PROVE  Standing'
  <2>1. FilesStand'
    BY <1>0, <1>1, FilesSame DEF Open
  <2>2. FileOK(files[n])
    BY <1>0, <1>1 DEF Open, FilesStand
  <2>3. DiskOK(disk')
    BY <1>1, <2>2, ReadOK DEF Open
  <2> QED
    BY <2>1, <2>3 DEF Standing
<1>2. ASSUME NEW n \in Names, Save(n)
      PROVE  Standing'
  <2>1. DiskOK(disk) /\ disk' = disk
    BY <1>0, <1>2 DEF Save
  <2>2. PICK file : file = [t \in DOMAIN disk |-> SavedTrack(disk[t])]
    OBVIOUS
  <2>3. FileOK(file)
    BY <2>1, <2>2, SaveOK
  <2>4. Watch /\ files' = [files EXCEPT ![n] = file]
    BY <1>2, <2>2 DEF Save
  <2>5. FilesStand'
    BY <1>0, <2>3, <2>4, FilesKept
  <2> QED
    BY <2>1, <2>5 DEF Standing
<1>3. ASSUME NEW w \in Writes, Write(w[1], w[2])
      PROVE  Standing'
  <2>1. FilesStand'
    BY <1>0, <1>3, FilesSame DEF Write
  <2>2. PICK index, data : index = w[1] /\ data = w[2]
    OBVIOUS
  <2>3. data \in Seq(Values)
    BY <2>2, ValuesAssumption
  <2>4. DiskOK(disk) /\ disk' = Written(disk, index, data)
    BY <1>0, <1>3, <2>2 DEF Write
  <2>5. disk' = Nothing \/ DiskOK(disk')
    BY <2>3, <2>4, WrittenOK
  <2> QED
    BY <2>1, <2>5 DEF Standing
<1>4. ASSUME NEW data \in Headers, SetTrack0(data)
      PROVE  Standing'
  <2>1. FilesStand'
    BY <1>0, <1>4, FilesSame DEF SetTrack0
  <2>2. data \in Seq(Values)
    BY ValuesAssumption
  <2>3. DiskOK(disk) /\ disk' = WithTrack0(disk, data) /\ Len(data) = Len(Track0(disk))
    BY <1>0, <1>4 DEF SetTrack0
  <2>4. DiskOK(disk')
    BY <2>2, <2>3, WithTrack0OK
  <2> QED
    BY <2>1, <2>4 DEF Standing
<1>5. ASSUME Close
      PROVE  Standing'
  <2>1. FilesStand'
    BY <1>0, <1>5, FilesSame DEF Close
  <2> QED
    BY <1>5, <2>1 DEF Standing, Close
<1>6. ASSUME NEW source \in Names, NEW target \in Names, NEW limit \in Limits,
             Trim(source, target, limit)
      PROVE  Standing'
  <2>1. FileOK(files[source]) /\ disk = Nothing /\ disk' = disk
    BY <1>0, <1>6 DEF Trim, FilesStand
  <2>2. PICK file : file = Below(files[source], limit)
    OBVIOUS
  <2>3. FileOK(file)
    BY <2>1, <2>2, BelowOK
  <2>4. Watch /\ files' = [files EXCEPT ![target] = file]
    BY <1>6, <2>2 DEF Trim
  <2>5. FilesStand'
    BY <1>0, <2>3, <2>4, FilesKept
  <2> QED
    BY <2>1, <2>5 DEF Standing
<1>7. ASSUME NEW source \in Names, NEW target \in Names, Blank(source, target)
      PROVE  Standing'
  <2>1. FileOK(files[source]) /\ disk = Nothing /\ disk' = disk
    BY <1>0, <1>7 DEF Blank, FilesStand
  <2>2. PICK tracks : tracks = ReadImd(files[source])
    OBVIOUS
  <2>3. PICK file : file = [t \in DOMAIN tracks |-> BlankTrack(tracks[t])]
    OBVIOUS
  <2>4. FileOK(file)
    BY <2>1, <2>2, <2>3, ReadOK, SaveOK
  <2>5. Watch /\ files' = [files EXCEPT ![target] = file]
    BY <1>7, <2>2, <2>3 DEF Blank
  <2>6. FilesStand'
    BY <1>0, <2>4, <2>5, FilesKept
  <2> QED
    BY <2>1, <2>6 DEF Standing
<1>8. CASE UNCHANGED vars
  BY <1>0, <1>8 DEF vars, Standing, FilesStand
<1> QED
  BY <1>1, <1>2, <1>3, <1>4, <1>5, <1>6, <1>7, <1>8 DEF Next

LEMMA StandingGives == Standing => FlatIsLinear /\ ExtentIsRange
<1> SUFFICES ASSUME Standing
             PROVE  FlatIsLinear /\ ExtentIsRange
  OBVIOUS
<1>1. ASSUME NEW n \in Names, files[n] # Nothing, Complete(files[n])
      PROVE  FileOK(files[n]) /\ arrays[n] = View(ReadImd(files[n]))
  BY <1>1 DEF Standing, FilesStand, ViewOf
<1>2. ASSUME NEW n \in Names, files[n] # Nothing, Complete(files[n]), NEW index \in Indices
      PROVE  FlatCells(FlatImage(files[n]), LogicalSector(1 + index \div PerCyl, index % PerCyl)) =
               IF arrays[n].area[index] = Nothing THEN <<>> ELSE arrays[n].area[index]
  BY <1>1, <1>2, FlatHas
<1>3. FlatIsLinear
  BY <1>2 DEF FlatIsLinear
<1>4. ASSUME NEW n \in Names, files[n] # Nothing, Complete(files[n]), NEW a \in Indices, NEW b \in Indices
      PROVE  LET area == arrays[n].area
             IN  Extent(ByChs(files[n]), Chs(a), Chs(b)) =
                   IF a <= b /\ \A i \in a .. b : area[i] # Nothing
                   THEN Concat([i \in 1 .. b - a + 1 |-> area[a + i - 1]])
                   ELSE Nothing
  BY <1>1, <1>4, ExtentOf
<1>5. ExtentIsRange
  BY <1>4 DEF ExtentIsRange
<1> QED
  BY <1>3, <1>5

\* The flat image of m40disk.py and the linear index of l1disk.py mean the same
\* cells, in every complete file that any edits and any of the tools leave.
THEOREM FlatMeansLinear == Spec => []FlatIsLinear
<1>1. Spec => []Standing
  BY Starts, StandsOn, PTL DEF Spec
<1> QED
  BY <1>1, StandingGives, PTL

\* extract_bcos_extent gives the sectors of the range of linear indices that the
\* label names, or an error, in every complete file.
THEOREM LabelsNameRanges == Spec => []ExtentIsRange
<1>1. Spec => []Standing
  BY Starts, StandsOn, PTL DEF Spec
<1> QED
  BY <1>1, StandingGives, PTL
------------------------------------------------------------------------------
(* The linear index.  Two images with the same tracks have every sector at   *)
(* the same place.                                                          *)

Alike(tracks, others) ==
  /\ DOMAIN tracks = DOMAIN others
  /\ \A t \in DOMAIN tracks :
       /\ tracks[t].cyl = others[t].cyl /\ tracks[t].head = others[t].head
       /\ tracks[t].map = others[t].map /\ DOMAIN tracks[t].secs = DOMAIN others[t].secs

LEMMA TracksAlike ==
  ASSUME NEW tracks, NEW others, Alike(tracks, others), NEW cyl, NEW head
  PROVE  TracksAt(tracks, cyl, head) = TracksAt(others, cyl, head)
BY DEF Alike, TracksAt

\* The last track of a cylinder and a head is one of them.
LEMMA LastTrack ==
  ASSUME NEW tracks, DiskOK(tracks), NEW cyl, NEW head, TracksAt(tracks, cyl, head) # {}
  PROVE  LET t == Max(TracksAt(tracks, cyl, head))
         IN  t \in DOMAIN tracks /\ tracks[t].cyl = cyl /\ tracks[t].head = head
<1>1. PICK n, found : n = Len(tracks) /\ found = TracksAt(tracks, cyl, head)
  OBVIOUS
<1>2. n \in Nat /\ DOMAIN tracks = 1 .. n /\ found \in SUBSET (1 .. n) /\ found # {}
  BY <1>1 DEF DiskOK, TracksAt
<1>3. Max(found) \in found
  BY <1>2, MaxOf
<1> QED
  BY <1>1, <1>3 DEF TracksAt

LEMMA LocAlike ==
  ASSUME NEW tracks, NEW others, DiskOK(tracks), Alike(tracks, others), NEW index
  PROVE  /\ Exists(tracks, index) <=> Exists(others, index)
         /\ Exists(tracks, index) => Loc(tracks, index) = Loc(others, index)
<1>1. LocTracks(tracks, index) = LocTracks(others, index)
  BY TracksAlike DEF LocTracks
<1>2. CASE LocTracks(tracks, index) = {}
  BY <1>1, <1>2 DEF Exists
<1>3. CASE LocTracks(tracks, index) # {}
  <2>1. PICK t : t = Max(LocTracks(tracks, index))
    OBVIOUS
  <2>2. t \in DOMAIN tracks
    BY <1>3, <2>1, LastTrack DEF LocTracks
  <2>3. tracks[t].map = others[t].map /\ DOMAIN tracks[t].secs = DOMAIN others[t].secs
    BY <2>2 DEF Alike
  <2>4. PICK at : at = Loc(tracks, index)
    OBVIOUS
  <2>5. at = Loc(others, index) /\ at.track = t
    BY <1>1, <2>1, <2>3, <2>4 DEF Loc
  <2> QED
    BY <1>1, <2>3, <2>4, <2>5 DEF Exists
<1> QED
  BY <1>2, <1>3

\* Where the sector of a linear index stands.
LEMMA LocAt ==
  ASSUME NEW tracks, DiskOK(tracks), NEW index \in Nat, Exists(tracks, index),
         NEW t, NEW id, t = Loc(tracks, index).track, id = Loc(tracks, index).id
  PROVE  /\ t \in DOMAIN tracks /\ id \in DOMAIN tracks[t].secs
         /\ tracks[t].cyl = 1 + index \div PerCyl
         /\ tracks[t].head = (index % PerCyl) \div Spt
         /\ \E first \in Nat : first = Min(Range(tracks[t].map)) /\ id = first + (index % Spt)
<1>1. LocTracks(tracks, index) # {} /\ id \in DOMAIN tracks[t].secs
  BY DEF Exists
<1>2. t = Max(LocTracks(tracks, index)) /\ id = Min(Range(tracks[t].map)) + (index % Spt)
  BY DEF Loc
<1>3. /\ t \in DOMAIN tracks
      /\ tracks[t].cyl = 1 + index \div PerCyl /\ tracks[t].head = (index % PerCyl) \div Spt
  BY <1>1, <1>2, LastTrack DEF LocTracks
<1>4. PICK map : map = tracks[t].map
  OBVIOUS
<1>5. map \in Seq(Nat) /\ id \in {map[k] : k \in DOMAIN map}
  BY <1>1, <1>3, <1>4 DEF DiskOK, TrackOK
<1>6. Range(map) \in SUBSET Nat /\ Range(map) # {}
  <2>1. Range(map) = {map[k] : k \in DOMAIN map}
    BY DEF Range
  <2>2. map \in [1 .. Len(map) -> Nat]
    BY <1>5, LenProperties
  <2> QED
    BY <1>5, <2>1, <2>2
<1>7. Min(Range(map)) \in Nat
  BY <1>6, MinOf
<1> QED
  BY <1>1, <1>2, <1>3, <1>4, <1>7

\* No two linear indices are the same sector.
LEMMA LocOne ==
  ASSUME NEW tracks, DiskOK(tracks), NEW i \in Nat, NEW j \in Nat,
         Exists(tracks, i), Exists(tracks, j),
         Loc(tracks, i).track = Loc(tracks, j).track, Loc(tracks, i).id = Loc(tracks, j).id
  PROVE  i = j
<1>1. PICK t, id : t = Loc(tracks, i).track /\ id = Loc(tracks, i).id
  OBVIOUS
<1>2. PICK x \in Nat : x = Min(Range(tracks[t].map)) /\ id = x + (i % Spt)
  BY <1>1, LocAt
<1>3. PICK y \in Nat : y = Min(Range(tracks[t].map)) /\ id = y + (j % Spt)
  BY <1>1, LocAt
<1>4. /\ tracks[t].cyl = 1 + i \div PerCyl /\ tracks[t].head = (i % PerCyl) \div Spt
      /\ tracks[t].cyl = 1 + j \div PerCyl /\ tracks[t].head = (j % PerCyl) \div Spt
  BY <1>1, LocAt
<1>5. PICK a, b, c, d : /\ a = i \div PerCyl /\ b = (i % PerCyl) \div Spt
                        /\ c = j \div PerCyl /\ d = (j % PerCyl) \div Spt
  OBVIOUS
<1>6. PICK q, r, u, v : /\ q = i \div Spt /\ r = i % Spt /\ u = j \div Spt /\ v = j % Spt
  OBVIOUS
<1>7. /\ q \in Nat /\ r \in 0 .. Spt - 1 /\ i = q * Spt + r /\ a = q \div 2 /\ b = q % 2
      /\ u \in Nat /\ v \in 0 .. Spt - 1 /\ j = u * Spt + v /\ c = u \div 2 /\ d = u % 2
  BY <1>5, <1>6, Split
<1>8. b = d /\ 1 + a = 1 + c
  BY <1>4, <1>5
<1>9. a \in Nat /\ c \in Nat
  BY <1>7
<1>10. q = u
  BY <1>7, <1>8, <1>9
<1>11. r = v
  <2>1. r \in Int /\ v \in Int
    BY <1>7, SptIsEven
  <2> QED
    BY <1>2, <1>3, <1>6, <2>1
<1> QED
  BY <1>7, <1>10, <1>11

\* A sector of the disk has Size cells.
LEMMA SectorType ==
  ASSUME NEW tracks, DiskOK(tracks), Regular(tracks), NEW index \in Nat, Exists(tracks, index)
  PROVE  /\ ReadSector(tracks, index) \in [1 .. Size -> Values]
         /\ ReadSector(tracks, index) # Nothing
<1>1. PICK t, id : t = Loc(tracks, index).track /\ id = Loc(tracks, index).id
  OBVIOUS
<1>2. /\ t \in DOMAIN tracks /\ id \in DOMAIN tracks[t].secs
      /\ tracks[t].cyl = 1 + index \div PerCyl
  BY <1>1, LocAt
<1>3. PerCyl \in Nat \ {0}
  BY SptIsEven DEF PerCyl, Heads
<1>4. index \div PerCyl \in Nat
  BY <1>3, DivMod
<1>5. tracks[t].cyl # 0
  BY <1>2, <1>4
<1>6. tracks[t].size = Size
  BY <1>2, <1>5 DEF Regular
<1>7. tracks[t].secs[id] \in [1 .. Size -> Values]
  BY <1>2, <1>6 DEF DiskOK, TrackOK
<1>8. ReadSector(tracks, index) = tracks[t].secs[id]
  BY <1>1 DEF ReadSector
<1> QED
  BY <1>7, <1>8, ValuesAssumption

\* Where a sector is, the next index is one of the array.
LEMMA NextIndex ==
  ASSUME NEW tracks, DiskOK(tracks), Regular(tracks), NEW index \in Indices, Exists(tracks, index)
  PROVE  index + 1 \in Indices
<1>1. PICK t, id : t = Loc(tracks, index).track /\ id = Loc(tracks, index).id
  OBVIOUS
<1>2. PerCyl \in Nat \ {0} /\ index \in Nat
  BY SptIsEven DEF PerCyl, Heads, Indices
<1>3. t \in DOMAIN tracks /\ tracks[t].cyl = 1 + index \div PerCyl
  BY <1>1, <1>2, LocAt
<1>4. PICK q, r, c : q = index \div PerCyl /\ r = index % PerCyl /\ c = Cylinders - 1
  OBVIOUS
<1>5. q \in Nat /\ r \in 0 .. PerCyl - 1 /\ index = q * PerCyl + r
  BY <1>2, <1>4, DivMod
<1>6. 1 + q \in 0 .. c /\ c \in Nat
  BY <1>3, <1>4, CylindersNat DEF Regular
<1>7. q < c
  BY <1>5, <1>6
<1>8. q * PerCyl + PerCyl <= c * PerCyl
  BY <1>2, <1>5, <1>6, <1>7, Steps
<1>9. index + 1 <= c * PerCyl /\ c * PerCyl \in Nat
  <2>1. PICK x, y : x = q * PerCyl /\ y = c * PerCyl
    OBVIOUS
  <2>2. x \in Nat /\ y \in Nat
    BY <1>2, <1>5, <1>6, <2>1
  <2> QED
    BY <1>2, <1>5, <1>8, <2>1, <2>2
<1>10. index + 1 \in 0 .. c * PerCyl
  BY <1>2, <1>9
<1> QED
  BY <1>4, <1>10 DEF Indices

LEMMA ViewIs ==
  ASSUME NEW tracks
  PROVE  /\ View(tracks) = [track0 |-> Track0(tracks), area |-> View(tracks).area]
         /\ View(tracks).track0 = Track0(tracks)
         /\ View(tracks).area = [i \in Indices |-> View(tracks).area[i]]
         /\ \A i \in Indices : View(tracks).area[i] =
              IF Exists(tracks, i) THEN ReadSector(tracks, i) ELSE Nothing
BY DEF View

LEMMA AreaAt ==
  ASSUME NEW tracks, DiskOK(tracks), Regular(tracks), NEW i \in Indices
  PROVE  /\ View(tracks).area[i] # Nothing <=> Exists(tracks, i)
         /\ View(tracks).area[i] # Nothing => View(tracks).area[i] \in [1 .. Size -> Values]
<1>1. i \in Nat
  BY SptIsEven, CylindersNat DEF Indices
<1>2. Exists(tracks, i) => /\ ReadSector(tracks, i) \in [1 .. Size -> Values]
                           /\ ReadSector(tracks, i) # Nothing
  BY <1>1, SectorType
<1> QED
  BY <1>2, ViewIs

\* The sectors of the data area are those of other cylinders than 0.
LEMMA SameArea ==
  ASSUME NEW tracks, NEW others, DiskOK(tracks), Alike(tracks, others),
         \A t \in DOMAIN tracks : tracks[t].cyl # 0 =>
           \A id \in DOMAIN tracks[t].secs : tracks[t].secs[id] = others[t].secs[id]
  PROVE  View(tracks).area = View(others).area
<1>1. ASSUME NEW i \in Indices
      PROVE  View(tracks).area[i] = View(others).area[i]
  <2>1. CASE ~Exists(tracks, i)
    <3>1. ~Exists(others, i)
      BY <2>1, LocAlike
    <3> QED
      BY <2>1, <3>1, ViewIs
  <2>2. CASE Exists(tracks, i)
    <3>1. Exists(others, i) /\ Loc(others, i) = Loc(tracks, i)
      BY <2>2, LocAlike
    <3>2. PICK t, id : t = Loc(tracks, i).track /\ id = Loc(tracks, i).id
      OBVIOUS
    <3>3. i \in Nat /\ PerCyl \in Nat \ {0}
      BY SptIsEven, CylindersNat DEF Indices, PerCyl, Heads
    <3>4. t \in DOMAIN tracks /\ id \in DOMAIN tracks[t].secs /\ tracks[t].cyl = 1 + i \div PerCyl
      BY <2>2, <3>2, <3>3, LocAt
    <3>5. tracks[t].cyl # 0
      BY <3>3, <3>4, DivMod
    <3>6. tracks[t].secs[id] = others[t].secs[id]
      BY <3>4, <3>5
    <3>7. ReadSector(tracks, i) = tracks[t].secs[id] /\ ReadSector(others, i) = others[t].secs[id]
      BY <3>1, <3>2 DEF ReadSector
    <3> QED
      BY <2>2, <3>1, <3>6, <3>7, ViewIs
  <2> QED
    BY <2>1, <2>2
<1>2. View(tracks).area = [i \in Indices |-> View(tracks).area[i]]
  BY ViewIs
<1>3. View(others).area = [i \in Indices |-> View(others).area[i]]
  BY ViewIs
<1> QED
  BY <1>1, <1>2, <1>3

\* The sectors of track 0 are those of cylinder 0.
LEMMA SideAt ==
  ASSUME NEW tracks, DiskOK(tracks), NEW head
  PROVE  /\ Side(tracks, head) \in Seq(Places(tracks))
         /\ \A k \in 1 .. Len(Side(tracks, head)) :
              LET at == Side(tracks, head)[k]
              IN  /\ tracks[at.track].cyl = 0 /\ tracks[at.track].head = head
                  /\ at.track = Max(TracksAt(tracks, 0, head))
                  /\ at.id = Sorted(DOMAIN tracks[at.track].secs)[k]
                  /\ k \in 1 .. Cardinality(DOMAIN tracks[at.track].secs)
         /\ TracksAt(tracks, 0, head) # {} =>
              Len(Side(tracks, head)) =
                Cardinality(DOMAIN tracks[Max(TracksAt(tracks, 0, head))].secs)
<1>1. Side(tracks, head) \in Seq(Places(tracks))
  BY SideIs
<1>2. CASE TracksAt(tracks, 0, head) = {}
  <2>1. Side(tracks, head) = <<>>
    BY <1>2 DEF Side
  <2>2. Len(Side(tracks, head)) = 0
    BY <2>1, EmptySeq
  <2> QED
    BY <1>1, <1>2, <2>2
<1>3. CASE TracksAt(tracks, 0, head) # {}
  <2>1. PICK t : t = Max(TracksAt(tracks, 0, head))
    OBVIOUS
  <2>2. t \in DOMAIN tracks /\ tracks[t].cyl = 0 /\ tracks[t].head = head
    BY <1>3, <2>1, LastTrack
  <2>3. PICK secs, ids, m : /\ secs = DOMAIN tracks[t].secs /\ ids = Sorted(DOMAIN tracks[t].secs)
                            /\ m = Cardinality(DOMAIN tracks[t].secs)
    OBVIOUS
  <2>4. IsFiniteSet(secs) /\ m \in Nat
    BY <2>2, <2>3, SecsFinite, FS_CardinalityType DEF DiskOK
  <2>5. DOMAIN ids = 1 .. m
    BY <2>3 DEF Sorted
  <2>6. PICK side : side = [k \in 1 .. m |-> [track |-> t, id |-> ids[k]]]
    OBVIOUS
  <2>7. Side(tracks, head) = side
    BY <1>3, <2>1, <2>3, <2>5, <2>6 DEF Side
  <2>8. Len(side) = m
    <3>1. DOMAIN side = 1 .. m
      BY <2>6
    <3>2. side \in Seq(Places(tracks))
      BY <1>1, <2>7
    <3>3. DOMAIN side = 1 .. Len(side) /\ Len(side) \in Nat
      BY <3>2, LenProperties
    <3> QED
      BY <2>4, <3>1, <3>3
  <2>9. ASSUME NEW k \in 1 .. m
        PROVE  side[k].track = t /\ side[k].id = ids[k]
    BY <2>6
  <2>10. Len(Side(tracks, head)) = Cardinality(DOMAIN tracks[Max(TracksAt(tracks, 0, head))].secs)
    BY <2>1, <2>3, <2>7, <2>8
  <2> QED
    BY <1>1, <2>1, <2>2, <2>3, <2>7, <2>8, <2>9, <2>10
<1> QED
  BY <1>2, <1>3

LEMMA SectorsAre ==
  ASSUME NEW tracks
  PROVE  Track0Sectors(tracks) = Side(tracks, 0) \o Side(tracks, 1)
BY DEF Track0Sectors, Side

LEMMA Track0Places ==
  ASSUME NEW tracks, DiskOK(tracks), NEW all, all = Track0Sectors(tracks), NEW n, n = Len(all)
  PROVE  /\ n \in Nat /\ DOMAIN all = 1 .. n
         /\ \A k \in 1 .. n : /\ all[k] \in Places(tracks)
                              /\ all[k].track \in DOMAIN tracks
                              /\ all[k].id \in DOMAIN tracks[all[k].track].secs
                              /\ tracks[all[k].track].cyl = 0
<1>1. PICK a, b, l, m : /\ a = Side(tracks, 0) /\ b = Side(tracks, 1)
                        /\ l = Len(Side(tracks, 0)) /\ m = Len(Side(tracks, 1))
  OBVIOUS
<1>2. a \in Seq(Places(tracks)) /\ b \in Seq(Places(tracks)) /\ all = a \o b
  BY <1>1, SideAt, SectorsAre
<1>3. l \in Nat /\ m \in Nat
  BY <1>1, <1>2, LenProperties
<1>4. /\ all \in Seq(Places(tracks)) /\ n = l + m
      /\ \A k \in 1 .. l + m : all[k] = IF k <= l THEN a[k] ELSE b[k - l]
  BY <1>1, <1>2, ConcatProperties
<1>5. DOMAIN all = 1 .. n /\ \A k \in 1 .. n : all[k] \in Places(tracks)
  BY <1>4, LenProperties
<1>6. \A k \in 1 .. l : tracks[a[k].track].cyl = 0
  BY <1>1, SideAt
<1>7. \A k \in 1 .. m : tracks[b[k].track].cyl = 0
  BY <1>1, SideAt
<1>8. ASSUME NEW k \in 1 .. n
      PROVE  tracks[all[k].track].cyl = 0
  <2>1. CASE k <= l
    BY <1>3, <1>4, <1>6, <2>1
  <2>2. CASE ~(k <= l)
    <3>1. PICK j : j = k - l
      OBVIOUS
    <3>2. j \in 1 .. m /\ all[k] = b[j]
      BY <1>3, <1>4, <2>2, <3>1
    <3> QED
      BY <1>7, <3>2
  <2> QED
    BY <2>1, <2>2
<1> QED
  BY <1>3, <1>4, <1>5, <1>8, Track0At

LEMMA SectorsAlike ==
  ASSUME NEW tracks, NEW others, DiskOK(tracks), Alike(tracks, others)
  PROVE  Track0Sectors(tracks) = Track0Sectors(others)
<1>1. ASSUME NEW head
      PROVE  Side(tracks, head) = Side(others, head)
  <2>1. TracksAt(tracks, 0, head) = TracksAt(others, 0, head)
    BY TracksAlike
  <2>2. CASE TracksAt(tracks, 0, head) = {}
    BY <2>1, <2>2 DEF Side
  <2>3. CASE TracksAt(tracks, 0, head) # {}
    <3>1. PICK t : t = Max(TracksAt(tracks, 0, head))
      OBVIOUS
    <3>2. t \in DOMAIN tracks
      BY <2>3, <3>1, LastTrack
    <3>3. DOMAIN tracks[t].secs = DOMAIN others[t].secs
      BY <3>2 DEF Alike
    <3> QED
      BY <2>1, <2>3, <3>1, <3>3 DEF Side
  <2> QED
    BY <2>2, <2>3
<1>2. Side(tracks, 0) = Side(others, 0) /\ Side(tracks, 1) = Side(others, 1)
  BY <1>1
<1>3. Track0Sectors(tracks) = Side(tracks, 0) \o Side(tracks, 1)
  BY SectorsAre
<1>4. Track0Sectors(others) = Side(others, 0) \o Side(others, 1)
  BY SectorsAre
<1> QED
  BY <1>2, <1>3, <1>4

LEMMA SameTrack0 ==
  ASSUME NEW tracks, NEW others, DiskOK(tracks), Alike(tracks, others),
         \A t \in DOMAIN tracks : tracks[t].cyl = 0 =>
           \A id \in DOMAIN tracks[t].secs : tracks[t].secs[id] = others[t].secs[id]
  PROVE  Track0(tracks) = Track0(others)
<1>1. PICK all, n : all = Track0Sectors(tracks) /\ n = Len(all)
  OBVIOUS
<1>2. all = Track0Sectors(others)
  BY <1>1, SectorsAlike
<1>3. DOMAIN all = 1 .. n
  BY <1>1, Track0Places
<1>4. ASSUME NEW k \in 1 .. n
      PROVE  tracks[all[k].track].secs[all[k].id] = others[all[k].track].secs[all[k].id]
  <2>1. PICK t, id : t = all[k].track /\ id = all[k].id
    OBVIOUS
  <2>2. t \in DOMAIN tracks /\ id \in DOMAIN tracks[t].secs /\ tracks[t].cyl = 0
    BY <1>1, <2>1, Track0Places
  <2> QED
    BY <2>1, <2>2
<1>5. [k \in 1 .. n |-> tracks[all[k].track].secs[all[k].id]]
        = [k \in 1 .. n |-> others[all[k].track].secs[all[k].id]]
  BY <1>4
<1> QED
  BY <1>1, <1>2, <1>3, <1>5 DEF Track0

LEMMA SameView ==
  ASSUME NEW tracks, NEW others, DiskOK(tracks), Alike(tracks, others),
         \A t \in DOMAIN tracks : \A id \in DOMAIN tracks[t].secs :
           tracks[t].secs[id] = others[t].secs[id]
  PROVE  View(tracks) = View(others)
<1>1. View(tracks).area = View(others).area
  BY SameArea
<1>2. Track0(tracks) = Track0(others)
  BY SameTrack0
<1> QED
  BY <1>1, <1>2, ViewIs
------------------------------------------------------------------------------
(* write                                                                    *)

\* One sector of the image is changed.
LEMMA WithAlike ==
  ASSUME NEW tracks, DiskOK(tracks), Regular(tracks), NEW t \in DOMAIN tracks,
         NEW id \in DOMAIN tracks[t].secs, NEW cells \in [1 .. tracks[t].size -> Values]
  PROVE  /\ Alike(tracks, With(tracks, t, id, cells)) /\ Regular(With(tracks, t, id, cells))
         /\ With(tracks, t, id, cells)[t].secs[id] = cells
         /\ \A u \in DOMAIN tracks : \A x \in DOMAIN tracks[u].secs :
              (u # t \/ x # id) => With(tracks, t, id, cells)[u].secs[x] = tracks[u].secs[x]
<1>1. PICK new, old : new = With(tracks, t, id, cells) /\ old = tracks[t]
  OBVIOUS
<1>2. DOMAIN new = DOMAIN tracks /\ \A u \in DOMAIN tracks : u # t => new[u] = tracks[u]
  BY <1>1 DEF With
<1>3. TrackOK(old)
  BY <1>1 DEF DiskOK
<1>4. PICK track : track = new[t]
  OBVIOUS
<1>5. track = [old EXCEPT !.secs[id] = cells]
  BY <1>1, <1>4 DEF With
<1>6. /\ track.map = old.map /\ track.size = old.size /\ track.cyl = old.cyl /\ track.head = old.head
      /\ track.secs = [old.secs EXCEPT ![id] = cells]
  BY <1>3, <1>5 DEF TrackOK
<1>7. /\ DOMAIN track.secs = DOMAIN old.secs /\ track.secs[id] = cells
      /\ \A x \in DOMAIN old.secs : x # id => track.secs[x] = old.secs[x]
  BY <1>1, <1>6
<1>8. Alike(tracks, new)
  <2>1. ASSUME NEW u \in DOMAIN tracks
        PROVE  /\ tracks[u].cyl = new[u].cyl /\ tracks[u].head = new[u].head
               /\ tracks[u].map = new[u].map /\ DOMAIN tracks[u].secs = DOMAIN new[u].secs
    BY <1>1, <1>2, <1>4, <1>6, <1>7
  <2> QED
    BY <1>2, <2>1 DEF Alike
<1>9. ASSUME NEW u \in DOMAIN tracks
      PROVE  new[u].cyl = tracks[u].cyl /\ new[u].head = tracks[u].head /\ new[u].size = tracks[u].size
  BY <1>1, <1>2, <1>4, <1>6
<1>10. Regular(new)
  BY <1>2, <1>9 DEF Regular
<1>11. ASSUME NEW u \in DOMAIN tracks, NEW x \in DOMAIN tracks[u].secs, u # t \/ x # id
       PROVE  new[u].secs[x] = tracks[u].secs[x]
  BY <1>1, <1>2, <1>4, <1>7, <1>11
<1> QED
  BY <1>1, <1>4, <1>7, <1>8, <1>10, <1>11

\* The sector of a linear index is changed, and no other one.
LEMMA WithSector ==
  ASSUME NEW tracks, DiskOK(tracks), Regular(tracks), NEW index \in Indices, Exists(tracks, index),
         NEW t, NEW id, t = Loc(tracks, index).track, id = Loc(tracks, index).id,
         NEW cells \in [1 .. Size -> Values], NEW new, new = With(tracks, t, id, cells)
  PROVE  /\ DiskOK(new) /\ Regular(new)
         /\ Track0(new) = Track0(tracks)
         /\ \A i \in Indices : View(new).area[i] =
              IF i = index THEN cells ELSE View(tracks).area[i]
<1>1. \A i \in Indices : i \in Nat
  BY SptIsEven, CylindersNat DEF Indices
<1>2. PerCyl \in Nat \ {0}
  BY SptIsEven DEF PerCyl, Heads
<1>3. t \in DOMAIN tracks /\ id \in DOMAIN tracks[t].secs /\ tracks[t].cyl = 1 + index \div PerCyl
  BY <1>1, LocAt
<1>4. tracks[t].cyl # 0
  BY <1>1, <1>2, <1>3, DivMod
<1>5. tracks[t].size = Size
  BY <1>3, <1>4 DEF Regular
<1>6. DiskOK(new)
  BY <1>3, <1>5, WithOK
<1>7. /\ Alike(tracks, new) /\ Regular(new) /\ new[t].secs[id] = cells
      /\ \A u \in DOMAIN tracks : \A x \in DOMAIN tracks[u].secs :
           (u # t \/ x # id) => new[u].secs[x] = tracks[u].secs[x]
  BY <1>3, <1>5, WithAlike
<1>8. Track0(new) = Track0(tracks)
  <2>1. ASSUME NEW u \in DOMAIN tracks, tracks[u].cyl = 0, NEW x \in DOMAIN tracks[u].secs
        PROVE  tracks[u].secs[x] = new[u].secs[x]
    BY <1>4, <1>7, <2>1
  <2> QED
    BY <1>7, <2>1, SameTrack0
<1>9. ASSUME NEW i \in Indices
      PROVE  View(new).area[i] = IF i = index THEN cells ELSE View(tracks).area[i]
  <2>1. CASE ~Exists(tracks, i)
    <3>1. ~Exists(new, i) /\ i # index
      BY <1>7, <2>1, LocAlike
    <3> QED
      BY <2>1, <3>1, ViewIs
  <2>2. CASE Exists(tracks, i)
    <3>1. Exists(new, i) /\ Loc(new, i) = Loc(tracks, i)
      BY <1>7, <2>2, LocAlike
    <3>2. PICK u, x : u = Loc(tracks, i).track /\ x = Loc(tracks, i).id
      OBVIOUS
    <3>3. ReadSector(tracks, i) = tracks[u].secs[x] /\ ReadSector(new, i) = new[u].secs[x]
      BY <3>1, <3>2 DEF ReadSector
    <3>4. u \in DOMAIN tracks /\ x \in DOMAIN tracks[u].secs
      BY <1>1, <2>2, <3>2, LocAt
    <3>5. CASE i = index
      BY <1>7, <3>1, <3>2, <3>3, <3>5, ViewIs
    <3>6. CASE i # index
      <4>1. u # t \/ x # id
        BY <1>1, <2>2, <3>2, <3>6, LocOne
      <4>2. new[u].secs[x] = tracks[u].secs[x]
        BY <1>7, <3>4, <4>1
      <4> QED
        BY <2>2, <3>1, <3>3, <3>6, <4>2, ViewIs
    <3> QED
      BY <3>5, <3>6
  <2> QED
    BY <2>1, <2>2
<1> QED
  BY <1>6, <1>7, <1>8, <1>9

\* What l1disk.py and the abstract disk lay over a sector.
LEMMA OverlaysAgree ==
  ASSUME NEW old \in [1 .. Size -> Values], NEW chunk \in Seq(Values), Len(chunk) \in 0 .. Size
  PROVE  Overlay(old, chunk) = Linear!Overlay(old, chunk)
<1>1. PICK l, rest : l = Len(chunk) /\ rest = SubSeq(old, Len(chunk) + 1, Len(old))
  OBVIOUS
<1>2. l \in 0 .. Size /\ Len(old) = Size /\ old \in Seq(Values) /\ Size \in Nat
  BY <1>1, FcnIsSeq DEF Size
<1>3. rest = SubSeq(old, l + 1, Size)
  BY <1>1, <1>2
<1>4. /\ rest \in Seq(Values) /\ Len(rest) = IF l + 1 <= Size THEN Size - (l + 1) + 1 ELSE 0
      /\ \A i \in 1 .. Size - (l + 1) + 1 : rest[i] = old[l + 1 + i - 1]
  <2>1. l + 1 \in Int /\ Size \in Int /\ \A i \in l + 1 .. Size : old[i] \in Values
    BY <1>2
  <2> QED
    BY <1>3, <2>1, SubSeqProperties
<1>5. Len(rest) = Size - l
  BY <1>2, <1>4
<1>6. PICK s : s = chunk \o rest
  OBVIOUS
<1>7. /\ s \in Seq(Values) /\ Len(s) = Size
      /\ \A i \in 1 .. Size : s[i] = IF i <= l THEN chunk[i] ELSE rest[i - l]
  BY <1>1, <1>2, <1>4, <1>5, <1>6, ConcatProperties
<1>8. \A i \in 1 .. Size : s[i] = IF i <= l THEN chunk[i] ELSE old[i]
  <2>1. ASSUME NEW i \in 1 .. Size, ~(i <= l)
        PROVE  s[i] = old[i]
    <3>1. PICK j : j = i - l
      OBVIOUS
    <3>2. j \in 1 .. Size - (l + 1) + 1 /\ l + 1 + j - 1 = i
      BY <1>2, <2>1, <3>1
    <3>3. rest[j] = old[i]
      BY <1>4, <3>2
    <3> QED
      BY <1>7, <2>1, <3>1, <3>3
  <2> QED
    BY <1>7, <2>1
<1>9. s = [i \in 1 .. Size |-> s[i]]
  BY <1>7, LenProperties
<1>10. s = [i \in 1 .. Size |-> IF i <= l THEN chunk[i] ELSE old[i]]
  BY <1>8, <1>9
<1> QED
  BY <1>1, <1>2, <1>6, <1>10 DEF Overlay, Linear!Overlay

\* Nothing is neither an image nor the view of one.
NothingIsApart ==
  /\ \A n \in Nat : DOMAIN Nothing # 1 .. n
  /\ DOMAIN Nothing # {"track0", "area"}

LEMMA DiskIsSome ==
  ASSUME NothingIsApart, NEW tracks, DiskOK(tracks)
  PROVE  tracks # Nothing /\ View(tracks) # Nothing
<1>1. tracks # Nothing
  BY DEF NothingIsApart, DiskOK
<1>2. DOMAIN View(tracks) = {"track0", "area"}
  BY DEF View
<1> QED
  BY <1>1, <1>2 DEF NothingIsApart

\* The data for the m-th sector of a write.
LEMMA ChunkIs ==
  ASSUME NEW index \in Nat, NEW data \in Seq(Values), NEW m \in Nat, NEW i, i = index + m
  PROVE  /\ Linear!Chunk(index, data, i) = Slice(data, m * Size, Size)
         /\ Linear!Chunk(index, data, i) \in Seq(Values)
         /\ Len(Linear!Chunk(index, data, i)) \in 0 .. Size
         /\ Linear!Chunk(index, data, i) # <<>> <=> m * Size < Len(data)
<1>1. PICK len, from, to : /\ len = Len(data) /\ from = m * Size
                           /\ to = IF from + Size < len THEN from + Size ELSE len
  OBVIOUS
<1>2. len \in Nat /\ from = 2 * m /\ from \in Nat /\ to \in Nat /\ Size = 2
  BY <1>1, LenProperties DEF Size
<1>3. i - index = m /\ (i - index + 1) * Size = from + Size
  BY <1>2 DEF Size
<1>4. Linear!Chunk(index, data, i) = SubSeq(data, from + 1, to)
  BY <1>1, <1>3 DEF Linear!Chunk
<1>5. Slice(data, from, Size) = SubSeq(data, from + 1, to)
  BY <1>1 DEF Slice
<1>6. /\ SubSeq(data, from + 1, to) \in Seq(Values)
      /\ Len(SubSeq(data, from + 1, to)) = IF from + 1 <= to THEN to - (from + 1) + 1 ELSE 0
  <2>1. from + 1 \in Int /\ to \in Int
    BY <1>2
  <2>2. \A j \in from + 1 .. to : j \in 1 .. len
    BY <1>1, <1>2
  <2>3. \A j \in from + 1 .. to : data[j] \in Values
    BY <1>1, <2>2, LenProperties
  <2> QED
    BY <2>1, <2>3, SubSeqProperties
<1>7. PICK chunk, l : chunk = SubSeq(data, from + 1, to) /\ l = Len(chunk)
  OBVIOUS
<1>8. l = (IF from + 1 <= to THEN to - (from + 1) + 1 ELSE 0) /\ chunk \in Seq(Values)
  BY <1>6, <1>7
<1>9. l \in 0 .. 2 /\ (l # 0 <=> from < len)
  BY <1>1, <1>2, <1>8
<1>10. chunk # <<>> <=> l # 0
  BY <1>7, <1>8, EmptySeq
<1> QED
  BY <1>1, <1>2, <1>4, <1>5, <1>7, <1>8, <1>9, <1>10

\* After m rounds that wrote a sector each.
Going(acc, tracks, index, data, m) ==
  /\ acc = [pos |-> m * Size, index |-> index + m, tracks |-> acc.tracks]
  /\ DiskOK(acc.tracks) /\ Regular(acc.tracks) /\ Track0(acc.tracks) = Track0(tracks)
  /\ index + m \in Indices
  /\ \A j \in 0 .. m - 1 : /\ j * Size < Len(data) /\ index + j \in Indices
                           /\ View(tracks).area[index + j] # Nothing
  /\ \A i \in Indices : View(acc.tracks).area[i] =
       IF index <= i /\ i < index + m
       THEN Linear!Overlay(View(tracks).area[i], Linear!Chunk(index, data, i))
       ELSE View(tracks).area[i]

\* A sector of the write is missing.
Missed(acc, tracks, index, data) ==
  /\ acc.tracks = Nothing
  /\ \E j \in Nat : /\ j * Size < Len(data) /\ index + j \in Indices
                    /\ View(tracks).area[index + j] = Nothing

LEMMA OneRound ==
  ASSUME NothingIsApart, NEW tracks, DiskOK(tracks), Regular(tracks), NEW index \in Indices,
         NEW data \in Seq(Values), NEW m \in Nat, NEW acc, Going(acc, tracks, index, data, m),
         m * Size < Len(data), NEW new, new = PutSector(acc, data)
  PROVE  Missed(new, tracks, index, data) \/ Going(new, tracks, index, data, m + 1)
<1>1. PICK at, now : at = index + m /\ now = acc.tracks
  OBVIOUS
<1>2. \A i \in Indices : i \in Nat
  BY SptIsEven, CylindersNat DEF Indices
<1>3. /\ acc.pos = m * Size /\ acc.index = at /\ at \in Indices /\ at \in Nat /\ index \in Nat
      /\ DiskOK(now) /\ Regular(now) /\ now # Nothing /\ Track0(now) = Track0(tracks)
  BY <1>1, <1>2, DiskIsSome DEF Going
<1>4. acc = [pos |-> m * Size, index |-> at, tracks |-> now]
  BY <1>1 DEF Going
<1>5. View(now).area[at] = View(tracks).area[at]
  BY <1>1, <1>3 DEF Going
<1>6. Len(data) \in Nat /\ m * Size \in Nat
  BY LenProperties DEF Size
<1>7. ~(now = Nothing \/ acc.pos >= Len(data))
  BY <1>3, <1>6
<1>8. CASE ~Exists(now, at)
  <2>1. new = [acc EXCEPT !.tracks = Nothing]
    BY <1>1, <1>3, <1>7, <1>8 DEF PutSector
  <2>2. new.tracks = Nothing
    BY <1>4, <2>1
  <2>3. View(tracks).area[at] = Nothing
    BY <1>3, <1>5, <1>8, AreaAt
  <2> QED
    BY <1>1, <1>3, <2>2, <2>3 DEF Missed
<1>9. CASE Exists(now, at)
  <2>1. PICK t, id, old : t = Loc(now, at).track /\ id = Loc(now, at).id /\ old = ReadSector(now, at)
    OBVIOUS
  <2>2. old \in [1 .. Size -> Values] /\ Len(old) = Size /\ Size \in Nat
    BY <1>3, <1>9, <2>1, SectorType, FcnIsSeq DEF Size
  <2>3. PICK chunk, cells : chunk = Slice(data, m * Size, Size) /\ cells = Overlay(old, chunk)
    OBVIOUS
  <2>4. new = [pos |-> m * Size + Size, index |-> at + 1, tracks |-> With(now, t, id, cells)]
    BY <1>1, <1>3, <1>7, <1>9, <2>1, <2>2, <2>3 DEF PutSector, With
  <2>5. /\ chunk = Linear!Chunk(index, data, at) /\ chunk \in Seq(Values)
        /\ Len(chunk) \in 0 .. Size
    BY <1>1, <1>3, <2>3, ChunkIs
  <2>6. cells = Linear!Overlay(old, chunk) /\ cells \in [1 .. Size -> Values]
    BY <2>2, <2>3, <2>5, OverlaysAgree, OverlayIs
  <2>7. PICK next : next = With(now, t, id, cells)
    OBVIOUS
  <2>8. /\ DiskOK(next) /\ Regular(next) /\ Track0(next) = Track0(tracks)
        /\ \A i \in Indices : View(next).area[i] = IF i = at THEN cells ELSE View(now).area[i]
    BY <1>3, <1>9, <2>1, <2>6, <2>7, WithSector
  <2>9. at + 1 \in Indices
    BY <1>3, <1>9, NextIndex
  <2>10. old = View(tracks).area[at] /\ View(tracks).area[at] # Nothing
    <3>1. View(now).area[at] = old
      BY <1>3, <1>9, <2>1, ViewIs
    <3> QED
      BY <1>3, <1>5, <1>9, <3>1, AreaAt
  <2>11. ASSUME NEW i \in Indices
         PROVE  View(next).area[i] =
                  IF index <= i /\ i < index + (m + 1)
                  THEN Linear!Overlay(View(tracks).area[i], Linear!Chunk(index, data, i))
                  ELSE View(tracks).area[i]
    <3>1. i \in Nat
      BY <1>2
    <3>2. CASE i = at
      <4>1. index <= i /\ i < index + (m + 1)
        BY <1>1, <1>3, <3>2
      <4> QED
        BY <2>5, <2>6, <2>8, <2>10, <3>2, <4>1
    <3>3. CASE i # at
      <4>1. (index <= i /\ i < index + (m + 1)) <=> (index <= i /\ i < index + m)
        BY <1>1, <1>3, <3>1, <3>3
      <4>2. View(next).area[i] = View(now).area[i]
        BY <2>8, <3>3
      <4>3. View(now).area[i] = IF index <= i /\ i < index + m
                                THEN Linear!Overlay(View(tracks).area[i], Linear!Chunk(index, data, i))
                                ELSE View(tracks).area[i]
        BY <1>1 DEF Going
      <4> QED
        BY <4>1, <4>2, <4>3
    <3> QED
      BY <3>2, <3>3
  <2>12. ASSUME NEW j \in 0 .. (m + 1) - 1
         PROVE  /\ j * Size < Len(data) /\ index + j \in Indices
                /\ View(tracks).area[index + j] # Nothing
    <3>1. CASE j = m
      BY <1>1, <1>3, <2>10, <3>1
    <3>2. CASE j # m
      <4>1. j \in 0 .. m - 1
        BY <3>2
      <4> QED
        BY <4>1 DEF Going
    <3> QED
      BY <3>1, <3>2
  <2>13. m * Size + Size = (m + 1) * Size /\ at + 1 = index + (m + 1)
    BY <1>1, <1>3 DEF Size
  <2>14. new = [pos |-> (m + 1) * Size, index |-> index + (m + 1), tracks |-> next]
    BY <2>4, <2>7, <2>13
  <2>15. new.tracks = next
    BY <2>14
  <2>16. Going(new, tracks, index, data, m + 1)
    BY <2>8, <2>9, <2>11, <2>12, <2>13, <2>14, <2>15 DEF Going
  <2> QED
    BY <2>16
<1> QED
  BY <1>8, <1>9

\* The rounds of a write: a sector was missing, or some were written, all of them
\* if data are left.
LEMMA AllRounds ==
  ASSUME NothingIsApart, NEW tracks, DiskOK(tracks), Regular(tracks), NEW index \in Indices,
         NEW data \in Seq(Values), NEW n \in Nat, n = Len(data), NEW f,
         f[0] = [pos |-> 0, index |-> index, tracks |-> tracks],
         \A k \in 1 .. n : f[k] = PutSector(f[k - 1], data)
  PROVE  \/ Missed(f[n], tracks, index, data)
         \/ \E m \in Nat : Going(f[n], tracks, index, data, m) /\ m * Size >= n
<1> DEFINE Done(k) == \/ Missed(f[k], tracks, index, data)
                      \/ \E m \in 0 .. k : /\ Going(f[k], tracks, index, data, m)
                                           /\ m = k \/ m * Size >= n
<1>0. index \in Nat
  BY SptIsEven, CylindersNat DEF Indices
<1>1. Done(0)
  <2>1. PICK acc : acc = f[0]
    OBVIOUS
  <2>2. 0 * Size = 0 /\ index + 0 = index
    BY <1>0 DEF Size
  <2>3. acc.tracks = tracks /\ acc = [pos |-> 0 * Size, index |-> index + 0, tracks |-> acc.tracks]
    BY <2>1, <2>2
  <2>4. ASSUME NEW i \in Indices
        PROVE  ~(index <= i /\ i < index + 0)
    <3>1. i \in Nat
      BY SptIsEven, CylindersNat DEF Indices
    <3> QED
      BY <1>0, <3>1
  <2>5. Going(acc, tracks, index, data, 0)
    BY <2>2, <2>3, <2>4 DEF Going
  <2> QED
    BY <2>1, <2>5
<1>2. ASSUME NEW k \in 1 .. n, Done(k - 1)
      PROVE  Done(k)
  <2>1. PICK j, acc : j = k - 1 /\ acc = f[k - 1]
    OBVIOUS
  <2>2. f[k] = PutSector(acc, data) /\ acc = f[j] /\ j \in Nat /\ j + 1 = k
    BY <2>1
  <2>3. CASE Missed(acc, tracks, index, data)
    <3>1. PutSector(acc, data) = acc
      BY <2>3 DEF Missed, PutSector
    <3> QED
      BY <2>2, <2>3, <3>1
  <2>4. CASE \E m \in 0 .. j : Going(acc, tracks, index, data, m) /\ (m = j \/ m * Size >= n)
    <3>1. PICK m \in 0 .. j : Going(acc, tracks, index, data, m) /\ (m = j \/ m * Size >= n)
      BY <2>4
    <3>2. m \in Nat /\ m \in 0 .. k /\ m * Size \in Nat
      BY <2>2 DEF Size
    <3>3. CASE m * Size >= n
      <4>1. acc.pos = m * Size
        BY <3>1 DEF Going
      <4>2. PutSector(acc, data) = acc
        BY <3>3, <4>1 DEF PutSector
      <4> QED
        BY <2>2, <3>1, <3>2, <3>3, <4>2
    <3>4. CASE ~(m * Size >= n)
      <4>1. m = j /\ m * Size < Len(data)
        BY <3>1, <3>2, <3>4
      <4>2. Missed(f[k], tracks, index, data) \/ Going(f[k], tracks, index, data, m + 1)
        BY <2>2, <3>1, <3>2, <4>1, OneRound
      <4>3. m + 1 = k /\ k \in 0 .. k
        BY <2>2, <4>1
      <4> QED
        BY <4>2, <4>3
    <3> QED
      BY <3>3, <3>4
  <2> QED
    BY <1>2, <2>1, <2>2, <2>3, <2>4
<1>3. PICK Bad : Bad = {k \in 0 .. n : ~Done(k)}
  OBVIOUS
<1> HIDE DEF Done
<1>4. ASSUME Bad # {}
      PROVE  FALSE
  <2>1. PICK k \in Bad : \A j \in Bad : k <= j
    <3>1. Bad \in SUBSET Nat
      BY <1>3
    <3> QED
      BY <1>4, <3>1, Least
  <2>2. k \in 0 .. n /\ ~Done(k) /\ k # 0
    BY <1>1, <1>3
  <2>3. PICK j : j = k - 1
    OBVIOUS
  <2>4. j \in 0 .. n /\ ~(k <= j) /\ k \in 1 .. n
    BY <2>2, <2>3
  <2>5. Done(k - 1)
    BY <1>3, <2>1, <2>3, <2>4
  <2> QED
    BY <1>2, <2>2, <2>4, <2>5
<1>5. Done(n)
  BY <1>3, <1>4
<1>6. CASE \E m \in 0 .. n : Going(f[n], tracks, index, data, m) /\ (m = n \/ m * Size >= n)
  <2>1. PICK m \in 0 .. n : Going(f[n], tracks, index, data, m) /\ (m = n \/ m * Size >= n)
    BY <1>6
  <2>2. m \in Nat /\ m * Size >= n
    BY <2>1 DEF Size
  <2> QED
    BY <2>1, <2>2
<1> QED
  BY <1>5, <1>6 DEF Done

\* What the abstract disk makes of a write.
Hit(index, data) == {i \in Indices : i >= index /\ Linear!Chunk(index, data, i) # <<>>}

AfterWrite(image, index, data) ==
  IF \E i \in Hit(index, data) : image.area[i] = Nothing THEN Nothing
  ELSE [image EXCEPT !.area =
          [i \in Indices |-> IF i \in Hit(index, data)
                             THEN Linear!Overlay(image.area[i], Linear!Chunk(index, data, i))
                             ELSE image.area[i]]]

LEMMA WriteMeans ==
  ASSUME NothingIsApart, NEW tracks, DiskOK(tracks), Regular(tracks), NEW index \in Indices,
         NEW data \in Seq(Values), NEW new, new = Written(tracks, index, data)
  PROVE  \/ new = Nothing /\ AfterWrite(View(tracks), index, data) = Nothing
         \/ /\ new # Nothing /\ Regular(new)
            /\ View(new) = AfterWrite(View(tracks), index, data)
<1>1. PICK n, area : n = Len(data) /\ area = View(tracks).area
  OBVIOUS
<1>2. n \in Nat /\ index \in Nat /\ \A i \in Indices : i \in Nat
  BY <1>1, LenProperties, SptIsEven, CylindersNat DEF Indices
<1>3. PICK f : /\ f[0] = [pos |-> 0, index |-> index, tracks |-> tracks]
               /\ \A k \in 1 .. n : f[k] = PutSector(f[k - 1], data)
               /\ new = f[n].tracks
  BY <1>1, <1>2, WrittenIs
<1>4. PICK acc : acc = f[n]
  OBVIOUS
<1>5. \/ Missed(acc, tracks, index, data)
      \/ \E m \in Nat : Going(acc, tracks, index, data, m) /\ m * Size >= n
  BY <1>1, <1>2, <1>3, <1>4, AllRounds
<1>6. ASSUME NEW m \in Nat, index + m \in Indices
      PROVE  index + m \in Hit(index, data) <=> m * Size < n
  <2>1. PICK i : i = index + m
    OBVIOUS
  <2>2. i >= index /\ i \in Indices
    BY <1>2, <1>6, <2>1
  <2>3. index \in Nat /\ data \in Seq(Values) /\ m \in Nat
    BY <1>2
  <2>4. Linear!Chunk(index, data, i) # <<>> <=> m * Size < Len(data)
    BY ONLY <2>1, <2>3, ChunkIs
  <2> QED
    BY <1>1, <2>1, <2>2, <2>4 DEF Hit
<1>7. CASE Missed(acc, tracks, index, data)
  <2>1. PICK j \in Nat : /\ j * Size < Len(data) /\ index + j \in Indices
                         /\ View(tracks).area[index + j] = Nothing
    BY <1>7 DEF Missed
  <2>2. index + j \in Hit(index, data)
    BY <1>1, <1>6, <2>1
  <2>3. AfterWrite(View(tracks), index, data) = Nothing
    BY <2>1, <2>2 DEF AfterWrite
  <2> QED
    BY <1>3, <1>4, <1>7, <2>3 DEF Missed
<1>8. CASE \E m \in Nat : Going(acc, tracks, index, data, m) /\ m * Size >= n
  <2>1. PICK m \in Nat : Going(acc, tracks, index, data, m) /\ m * Size >= n
    BY <1>8
  <2>2. DiskOK(new) /\ Regular(new) /\ Track0(new) = Track0(tracks)
    BY <1>3, <1>4, <2>1 DEF Going
  <2>3. new # Nothing
    BY <2>2, DiskIsSome
  <2>4. ASSUME NEW i \in Indices
        PROVE  i \in Hit(index, data) <=> index <= i /\ i < index + m
    <3>1. CASE ~(index <= i)
      BY <1>2, <3>1 DEF Hit
    <3>2. CASE index <= i
      <4>1. PICK d : d = i - index
        OBVIOUS
      <4>2. d \in Nat /\ i = index + d /\ (i < index + m <=> d < m)
        BY <1>2, <3>2, <4>1
      <4>3. d < m => d * Size < n
        <5>1. d < m => d \in 0 .. m - 1
          BY <4>2
        <5> QED
          BY <1>1, <2>1, <5>1 DEF Going
      <4>4. ~(d < m) => ~(d * Size < n)
        BY <1>2, <2>1, <4>2 DEF Size
      <4> QED
        BY <1>6, <3>2, <4>2, <4>3, <4>4
    <3> QED
      BY <3>1, <3>2
  <2>5. ASSUME NEW i \in Hit(index, data)
        PROVE  area[i] # Nothing
    <3>1. i \in Indices /\ index <= i /\ i < index + m
      BY <2>4 DEF Hit
    <3>2. PICK d : d = i - index
      OBVIOUS
    <3>3. d \in 0 .. m - 1 /\ i = index + d
      BY <1>2, <3>1, <3>2
    <3> QED
      BY <1>1, <2>1, <3>3 DEF Going
  <2>6. PICK after : after = [i \in Indices |->
                                IF i \in Hit(index, data)
                                THEN Linear!Overlay(area[i], Linear!Chunk(index, data, i))
                                ELSE area[i]]
    OBVIOUS
  <2>7. ASSUME NEW i \in Indices
        PROVE  View(new).area[i] = after[i]
    <3>1. View(new).area[i] = IF index <= i /\ i < index + m
                              THEN Linear!Overlay(area[i], Linear!Chunk(index, data, i))
                              ELSE area[i]
      BY <1>1, <1>3, <1>4, <2>1 DEF Going
    <3> QED
      BY <2>4, <2>6, <3>1
  <2>8. View(new).area = after
    <3>1. View(new).area = [i \in Indices |-> View(new).area[i]]
      BY ViewIs
    <3> QED
      BY <2>6, <2>7, <3>1
  <2>9. View(new) = [track0 |-> Track0(tracks), area |-> after]
    BY <2>2, <2>8, ViewIs
  <2>10. View(tracks) = [track0 |-> Track0(tracks), area |-> area]
    BY <1>1, ViewIs
  <2>11. AfterWrite(View(tracks), index, data) = [View(tracks) EXCEPT !.area = after]
    BY <1>1, <2>5, <2>6 DEF AfterWrite
  <2>12. [View(tracks) EXCEPT !.area = after] = [track0 |-> Track0(tracks), area |-> after]
    BY <2>10
  <2> QED
    BY <2>2, <2>3, <2>9, <2>11, <2>12
<1> QED
  BY <1>5, <1>7, <1>8
------------------------------------------------------------------------------
(* save, and the tools that make images                                     *)

LEMMA ReadAt ==
  ASSUME NEW file
  PROVE  /\ DOMAIN ReadImd(file) = DOMAIN file
         /\ \A t \in DOMAIN file :
              LET track == ReadImd(file)[t]
              IN  /\ track.mode = file[t].mode /\ track.cyl = file[t].cyl
                  /\ track.head = file[t].head /\ track.size = file[t].size
                  /\ track.map = file[t].map /\ track.secs = Contents(file[t])
BY DEF ReadImd

LEMMA ReadRegular ==
  ASSUME NEW file, Regular(file)
  PROVE  Regular(ReadImd(file))
<1>1. PICK tracks : tracks = ReadImd(file)
  OBVIOUS
<1>2. /\ DOMAIN tracks = DOMAIN file
      /\ \A t \in DOMAIN file : /\ tracks[t].cyl = file[t].cyl /\ tracks[t].head = file[t].head
                                /\ tracks[t].size = file[t].size
  BY <1>1, ReadAt
<1>3. Regular(tracks)
  BY <1>2 DEF Regular
<1> QED
  BY <1>1, <1>3

\* Records with the cylinders, heads and sizes of others.
LEMMA SameRegular ==
  ASSUME NEW tracks, Regular(tracks), NEW file, DOMAIN file = DOMAIN tracks,
         \A t \in DOMAIN tracks : /\ file[t].cyl = tracks[t].cyl /\ file[t].head = tracks[t].head
                                  /\ file[t].size = tracks[t].size
  PROVE  Regular(file)
BY DEF Regular

\* What a saved sector reads as.
LEMMA SavedCells ==
  ASSUME NEW track, TrackOK(track), NEW rec, rec = SavedTrack(track)
  PROVE  /\ rec.cyl = track.cyl /\ rec.head = track.head /\ rec.size = track.size
         /\ rec.map = track.map /\ DOMAIN Contents(rec) = DOMAIN track.secs
         /\ \A id \in DOMAIN track.secs : Contents(rec)[id] = track.secs[id]
<1>1. PICK n, map, secs : /\ n = track.size /\ map = track.map
                          /\ secs = [k \in DOMAIN map |->
                                       LET cells == track.secs[map[k]]
                                       IN  IF Uniform(cells) THEN [type |-> 2, cells |-> <<cells[1]>>]
                                           ELSE [type |-> 1, cells |-> cells]]
  <2>1. PICK map : map = track.map
    OBVIOUS
  <2> QED
    BY <2>1
<1>2. rec = [mode |-> track.mode, cyl |-> track.cyl, head |-> track.head,
             cmap |-> <<>>, hmap |-> <<>>, size |-> n, map |-> map, secs |-> secs]
  BY <1>1 DEF SavedTrack
<1>3. /\ rec.cyl = track.cyl /\ rec.head = track.head /\ rec.size = n /\ rec.map = map
      /\ rec.secs = secs
  BY <1>2
<1>4. DOMAIN track.secs = {map[k] : k \in DOMAIN map} /\ Ids(rec) = {map[k] : k \in DOMAIN map}
  BY <1>1, <1>3 DEF TrackOK, Ids
<1>5. RecordOK(rec)
  BY SavedOK
<1>6. ASSUME NEW id \in DOMAIN track.secs
      PROVE  Contents(rec)[id] = track.secs[id]
  <2>1. PICK k, cells : k = Position(rec, id) /\ cells = track.secs[id]
    OBVIOUS
  <2>2. k \in DOMAIN map /\ map[k] = id
    BY <1>3, <1>4, <1>5, <2>1, PositionIs
  <2>3. Contents(rec)[id] = Payload(rec, k)
    BY <1>4, <2>1 DEF Contents
  <2>4. n \in Nat \ {0} /\ cells \in [1 .. n -> Values] /\ Len(cells) = n
    <3>1. n \in Nat \ {0} /\ cells \in [1 .. n -> Values]
      BY <1>1, <2>1 DEF TrackOK
    <3> QED
      BY <3>1, FcnIsSeq
  <2>5. CASE Uniform(cells)
    <3>1. secs[k] = [type |-> 2, cells |-> <<cells[1]>>]
      BY <1>1, <2>1, <2>2, <2>5
    <3>2. secs[k].type = 2 /\ secs[k].cells[1] = cells[1]
      BY <3>1
    <3>3. Payload(rec, k) = [c \in 1 .. n |-> cells[1]]
      BY <1>3, <3>2 DEF Payload
    <3>4. \A c \in 1 .. n : cells[c] = cells[1]
      BY <2>4, <2>5 DEF Uniform
    <3> QED
      BY <2>1, <2>3, <2>4, <3>3, <3>4
  <2>6. CASE ~Uniform(cells)
    <3>1. secs[k] = [type |-> 1, cells |-> cells]
      BY <1>1, <2>1, <2>2, <2>6
    <3>2. secs[k].type = 1 /\ secs[k].cells = cells
      BY <3>1
    <3>3. Payload(rec, k) = cells
      BY <1>3, <3>2 DEF Payload
    <3> QED
      BY <2>1, <2>3, <3>3
  <2> QED
    BY <2>5, <2>6
<1>7. DOMAIN Contents(rec) = DOMAIN track.secs
  BY <1>4 DEF Contents
<1> QED
  BY <1>1, <1>3, <1>6, <1>7

\* What is saved is what the next script opens.
LEMMA SaveMeans ==
  ASSUME NEW tracks, DiskOK(tracks), Regular(tracks),
         NEW file, file = [t \in DOMAIN tracks |-> SavedTrack(tracks[t])]
  PROVE  Regular(file) /\ View(ReadImd(file)) = View(tracks)
<1>1. DOMAIN file = DOMAIN tracks /\ \A t \in DOMAIN tracks : file[t] = SavedTrack(tracks[t])
  OBVIOUS
<1>2. PICK others : others = ReadImd(file)
  OBVIOUS
<1>3. ASSUME NEW t \in DOMAIN tracks
      PROVE  /\ file[t].cyl = tracks[t].cyl /\ file[t].head = tracks[t].head
             /\ file[t].size = tracks[t].size /\ file[t].map = tracks[t].map
             /\ DOMAIN Contents(file[t]) = DOMAIN tracks[t].secs
             /\ \A id \in DOMAIN tracks[t].secs : Contents(file[t])[id] = tracks[t].secs[id]
  <2>1. TrackOK(tracks[t])
    BY DEF DiskOK
  <2> QED
    BY <1>1, <2>1, SavedCells
<1>4. Regular(file)
  BY <1>1, <1>3, SameRegular
<1>5. ASSUME NEW t \in DOMAIN tracks
      PROVE  /\ others[t].cyl = file[t].cyl /\ others[t].head = file[t].head
             /\ others[t].map = file[t].map /\ others[t].secs = Contents(file[t])
  BY <1>1, <1>2, ReadAt
<1>6. DOMAIN others = DOMAIN tracks
  BY <1>1, <1>2, ReadAt
<1>7. Alike(tracks, others)
  BY <1>3, <1>5, <1>6 DEF Alike
<1>8. \A t \in DOMAIN tracks : \A id \in DOMAIN tracks[t].secs :
        tracks[t].secs[id] = others[t].secs[id]
  BY <1>3, <1>5
<1>9. View(tracks) = View(others)
  BY <1>7, <1>8, SameView
<1> QED
  BY <1>2, <1>4, <1>9

\* What a blank sector reads as.
LEMMA BlankCells ==
  ASSUME NEW track, TrackOK(track), NEW rec, rec = BlankTrack(track)
  PROVE  /\ rec.cyl = track.cyl /\ rec.head = track.head /\ rec.size = track.size
         /\ rec.map = track.map /\ DOMAIN Contents(rec) = DOMAIN track.secs
         /\ \A id \in DOMAIN track.secs : Contents(rec)[id] = [c \in 1 .. track.size |-> Fill]
<1>1. PICK n, map, secs : /\ n = track.size /\ map = track.map
                          /\ secs = [k \in DOMAIN track.map |-> [type |-> 2, cells |-> <<Fill>>]]
  OBVIOUS
<1>2. rec = [mode |-> track.mode, cyl |-> track.cyl, head |-> track.head,
             cmap |-> <<>>, hmap |-> <<>>, size |-> n, map |-> map, secs |-> secs]
  BY <1>1 DEF BlankTrack
<1>3. /\ rec.cyl = track.cyl /\ rec.head = track.head /\ rec.size = n /\ rec.map = map
      /\ rec.secs = secs
  BY <1>2
<1>4. DOMAIN track.secs = {map[k] : k \in DOMAIN map} /\ Ids(rec) = {map[k] : k \in DOMAIN map}
  BY <1>1, <1>3 DEF TrackOK, Ids
<1>5. RecordOK(rec)
  BY BlankOK
<1>6. ASSUME NEW id \in DOMAIN track.secs
      PROVE  Contents(rec)[id] = [c \in 1 .. n |-> Fill]
  <2>1. PICK k : k = Position(rec, id)
    OBVIOUS
  <2>2. k \in DOMAIN map
    BY <1>3, <1>4, <1>5, <2>1, PositionIs
  <2>3. Contents(rec)[id] = Payload(rec, k)
    BY <1>4, <2>1 DEF Contents
  <2>4. secs[k].type = 2 /\ secs[k].cells[1] = Fill
    BY <1>1, <2>2
  <2> QED
    BY <1>3, <2>3, <2>4 DEF Payload
<1>7. DOMAIN Contents(rec) = DOMAIN track.secs
  BY <1>4 DEF Contents
<1> QED
  BY <1>1, <1>3, <1>6, <1>7
------------------------------------------------------------------------------
(* Track 0 as one sequence                                                  *)

\* Every cell of joined sequences belongs to one of them.
Within(p, seqs, off, n) == \E i \in 1 .. n : \E c \in 1 .. Len(seqs[i]) : p = off[i - 1] + c

LEMMA Covered ==
  ASSUME NEW n \in Nat, NEW off \in [0 .. n -> Nat], NEW seqs, Ends(seqs, off, n),
         \A i \in 1 .. n : Len(seqs[i]) \in Nat, NEW p \in 1 .. off[n]
  PROVE  Within(p, seqs, off, n)
<1>1. PICK S : S = {i \in 0 .. n : p <= off[i]}
  OBVIOUS
<1>2. n \in S /\ S \in SUBSET Nat
  BY <1>1
<1>3. PICK i \in S : \A j \in S : i <= j
  BY <1>2, Least
<1>4. i \in 0 .. n /\ p <= off[i] /\ p \in Nat \ {0}
  BY <1>1
<1>5. i # 0
  <2>1. off[0] = 0
    BY DEF Ends
  <2> QED
    BY <1>4, <2>1
<1>6. PICK j, l, o : j = i - 1 /\ l = Len(seqs[i]) /\ o = off[i - 1]
  OBVIOUS
<1>7. j \in 0 .. n /\ ~(i <= j) /\ i \in 1 .. n
  BY <1>4, <1>5, <1>6
<1>8. o \in Nat /\ l \in Nat /\ off[i] = o + l
  BY <1>6, <1>7 DEF Ends
<1>9. ~(p <= o)
  BY <1>1, <1>3, <1>6, <1>7
<1>10. PICK c : c = p - o
  OBVIOUS
<1>11. c \in 1 .. l /\ p = o + c
  BY <1>4, <1>8, <1>9, <1>10
<1> QED
  BY <1>6, <1>7, <1>11 DEF Within

\* A sequence has the cells of others at their places.
Holds(whole, seqs, off, n) ==
  \A i \in 1 .. n : \A c \in 1 .. Len(seqs[i]) : whole[off[i - 1] + c] = seqs[i][c]

LEMMA JoinedIs ==
  ASSUME NEW n \in Nat, NEW off \in [0 .. n -> Nat], NEW seqs \in [1 .. n -> Seq(Values)],
         Ends(seqs, off, n), NEW joined, Laid(Values, seqs, off, joined, n),
         NEW whole \in Seq(Values), Len(whole) = off[n], Holds(whole, seqs, off, n)
  PROVE  joined = whole
<1>1. PICK m : m = off[n]
  OBVIOUS
<1>2. m \in Nat /\ joined \in Seq(Values) /\ Len(joined) = m
  BY <1>1 DEF Laid
<1>3. ASSUME NEW p \in 1 .. m
      PROVE  joined[p] = whole[p]
  <2>0. Within(p, seqs, off, n)
    <3>1. \A i \in 1 .. n : Len(seqs[i]) \in Nat
      BY LenProperties
    <3> QED
      BY <1>1, <3>1, Covered
  <2>1. PICK i \in 1 .. n : \E c \in 1 .. Len(seqs[i]) : p = off[i - 1] + c
    BY <2>0 DEF Within
  <2>2. PICK c \in 1 .. Len(seqs[i]) : p = off[i - 1] + c
    BY <2>1
  <2>3. joined[off[i - 1] + c] = seqs[i][c]
    BY DEF Laid
  <2>4. whole[off[i - 1] + c] = seqs[i][c]
    BY DEF Holds
  <2> QED
    BY <2>2, <2>3, <2>4
<1>4. joined = [p \in 1 .. m |-> joined[p]] /\ whole = [p \in 1 .. m |-> whole[p]]
  BY <1>1, <1>2, LenProperties
<1> QED
  BY <1>3, <1>4

\* The sectors of track 0.
Parts(tracks, all, n) == [k \in 1 .. n |-> tracks[all[k].track].secs[all[k].id]]

LEMMA PartsAre ==
  ASSUME NEW tracks, DiskOK(tracks), NEW all, all = Track0Sectors(tracks), NEW n, n = Len(all)
  PROVE  /\ n \in Nat /\ Parts(tracks, all, n) \in [1 .. n -> Seq(Values)]
         /\ Track0(tracks) = FlattenSeq(Parts(tracks, all, n))
         /\ \A k \in 1 .. n : /\ Parts(tracks, all, n)[k] = tracks[all[k].track].secs[all[k].id]
                              /\ Len(Parts(tracks, all, n)[k]) = tracks[all[k].track].size
                              /\ tracks[all[k].track].size \in Nat \ {0}
<1>1. PICK seqs : seqs = Parts(tracks, all, n)
  OBVIOUS
<1>2. n \in Nat /\ DOMAIN all = 1 .. n
  BY Track0Places
<1>3. seqs = [k \in 1 .. n |-> tracks[all[k].track].secs[all[k].id]]
  BY <1>1 DEF Parts
<1>4. ASSUME NEW k \in 1 .. n
      PROVE  /\ seqs[k] \in Seq(Values) /\ Len(seqs[k]) = tracks[all[k].track].size
             /\ tracks[all[k].track].size \in Nat \ {0}
             /\ seqs[k] = tracks[all[k].track].secs[all[k].id]
  <2>1. PICK t, id, m : t = all[k].track /\ id = all[k].id /\ m = tracks[t].size
    <3>1. PICK t : t = all[k].track
      OBVIOUS
    <3> QED
      BY <3>1
  <2>2. t \in DOMAIN tracks /\ id \in DOMAIN tracks[t].secs
    BY <2>1, Track0Places
  <2>3. m \in Nat \ {0} /\ tracks[t].secs[id] \in [1 .. m -> Values]
    BY <2>1, <2>2 DEF DiskOK, TrackOK
  <2>4. tracks[t].secs[id] \in Seq(Values) /\ Len(tracks[t].secs[id]) = m
    BY <2>3, FcnIsSeq
  <2> QED
    BY <1>3, <2>1, <2>3, <2>4
<1>5. seqs \in [1 .. n -> Seq(Values)]
  BY <1>3, <1>4
<1>6. Track0(tracks) = FlattenSeq(seqs)
  BY <1>2, <1>3 DEF Track0, Concat
<1> QED
  BY <1>1, <1>2, <1>4, <1>5, <1>6

\* The k-th sector of track 0 ends at off[k], and before off[n].
Measured(tracks, all, n, off) ==
  /\ off \in [0 .. n -> Nat] /\ off[0] = 0
  /\ \A k \in 1 .. n : off[k] = off[k - 1] + tracks[all[k].track].size
  /\ \A k \in 1 .. n : off[k] <= off[n]

LEMMA Track0Ends ==
  ASSUME NEW tracks, DiskOK(tracks), NEW all, all = Track0Sectors(tracks), NEW n, n = Len(all)
  PROVE  \E off : Measured(tracks, all, n, off) /\ Len(Track0(tracks)) = off[n]
<1>1. PICK seqs : seqs = Parts(tracks, all, n)
  OBVIOUS
<1>2. /\ n \in Nat /\ seqs \in [1 .. n -> Seq(Values)] /\ Track0(tracks) = FlattenSeq(seqs)
      /\ \A k \in 1 .. n : Len(seqs[k]) = tracks[all[k].track].size /\ tracks[all[k].track].size \in Nat
  BY <1>1, PartsAre
<1>3. PICK len : len = [k \in 1 .. n |-> tracks[all[k].track].size]
  OBVIOUS
<1>4. len \in [1 .. n -> Nat]
  BY <1>2, <1>3
<1>5. PICK off \in [0 .. n -> Nat] : off[0] = 0 /\ \A i \in 1 .. n : off[i] = off[i - 1] + len[i]
  BY <1>2, <1>4, Sums
<1>6. \A k \in 1 .. n : off[k] = off[k - 1] + tracks[all[k].track].size
  BY <1>3, <1>5
<1>7. Ends(seqs, off, n)
  BY <1>2, <1>5, <1>6 DEF Ends
<1>8. Laid(Values, seqs, off, FlattenSeq(seqs), n)
  BY <1>2, <1>7, FlattenAt
<1>9. Len(Track0(tracks)) = off[n] /\ \A k \in 1 .. n : off[k] <= off[n]
  BY <1>2, <1>8 DEF Laid
<1>10. Measured(tracks, all, n, off)
  BY <1>5, <1>6, <1>9 DEF Measured
<1> QED
  BY <1>9, <1>10

\* Track 0 is the sequence that has the cells of its sectors at their places.
Holds0(whole, tracks, all, n, off) ==
  \A k \in 1 .. n : \A c \in 1 .. tracks[all[k].track].size :
    whole[off[k - 1] + c] = tracks[all[k].track].secs[all[k].id][c]

LEMMA Track0Whole ==
  ASSUME NEW tracks, DiskOK(tracks), NEW all, all = Track0Sectors(tracks), NEW n, n = Len(all),
         NEW off, Measured(tracks, all, n, off),
         NEW whole \in Seq(Values), Len(whole) = off[n], Holds0(whole, tracks, all, n, off)
  PROVE  Track0(tracks) = whole
<1>1. PICK seqs : seqs = Parts(tracks, all, n)
  OBVIOUS
<1>2. /\ n \in Nat /\ seqs \in [1 .. n -> Seq(Values)] /\ Track0(tracks) = FlattenSeq(seqs)
      /\ \A k \in 1 .. n : /\ Len(seqs[k]) = tracks[all[k].track].size
                           /\ tracks[all[k].track].size \in Nat
                           /\ seqs[k] = tracks[all[k].track].secs[all[k].id]
  BY <1>1, PartsAre
<1>3. Ends(seqs, off, n)
  <2>1. ASSUME NEW k \in 1 .. n
        PROVE  off[k] = off[k - 1] + Len(seqs[k])
    <3>1. Len(seqs[k]) = tracks[all[k].track].size
      BY <1>2
    <3> QED
      BY <3>1 DEF Measured
  <2> QED
    BY <2>1 DEF Ends, Measured
<1>4. Laid(Values, seqs, off, FlattenSeq(seqs), n)
  BY <1>2, <1>3, FlattenAt
<1>5. Holds(whole, seqs, off, n)
  <2>1. ASSUME NEW k \in 1 .. n, NEW c \in 1 .. Len(seqs[k])
        PROVE  whole[off[k - 1] + c] = seqs[k][c]
    <3>1. Len(seqs[k]) = tracks[all[k].track].size /\ seqs[k] = tracks[all[k].track].secs[all[k].id]
      BY <1>2
    <3>2. c \in 1 .. tracks[all[k].track].size
      BY <3>1
    <3>3. whole[off[k - 1] + c] = tracks[all[k].track].secs[all[k].id][c]
      BY Zenon, <3>2 DEF Holds0
    <3> QED
      BY ONLY <3>1, <3>3
  <2> QED
    BY <2>1 DEF Holds
<1>6. PICK joined : joined = FlattenSeq(seqs)
  OBVIOUS
<1>7. Laid(Values, seqs, off, joined, n)
  BY <1>4, <1>6
<1>8. n \in Nat /\ seqs \in [1 .. n -> Seq(Values)]
  BY <1>2
<1>9. off \in [0 .. n -> Nat] /\ whole \in Seq(Values) /\ Len(whole) = off[n]
  BY DEF Measured
<1>10. joined = whole
  BY ONLY <1>3, <1>5, <1>7, <1>8, <1>9, JoinedIs
<1> QED
  BY <1>2, <1>6, <1>10

\* No sector stands twice in track 0.
LEMMA RanksDiffer ==
  ASSUME NEW ids \in SUBSET Nat, IsFiniteSet(ids), NEW j \in 1 .. Cardinality(ids),
         NEW k \in 1 .. Cardinality(ids), Sorted(ids)[j] = Sorted(ids)[k]
  PROVE  j = k
<1>1. PICK id : id = Sorted(ids)[j]
  OBVIOUS
<1>2. Cardinality({x \in ids : x < id}) = j - 1
  BY <1>1, Ranked
<1>3. Cardinality({x \in ids : x < id}) = k - 1
  BY <1>1, Ranked
<1>4. j \in Int /\ k \in Int
  BY FS_CardinalityType
<1> QED
  BY <1>2, <1>3, <1>4

LEMMA SideDiffers ==
  ASSUME NEW tracks, DiskOK(tracks), NEW head, NEW side, side = Side(tracks, head),
         NEW j \in 1 .. Len(side), NEW k \in 1 .. Len(side), side[j] = side[k]
  PROVE  j = k
<1>1. PICK t : t = Max(TracksAt(tracks, 0, head))
  OBVIOUS
<1>2. /\ side[j].track = t /\ side[j].id = Sorted(DOMAIN tracks[t].secs)[j]
      /\ j \in 1 .. Cardinality(DOMAIN tracks[t].secs)
  BY <1>1, SideAt
<1>3. /\ side[k].track = t /\ side[k].id = Sorted(DOMAIN tracks[t].secs)[k]
      /\ k \in 1 .. Cardinality(DOMAIN tracks[t].secs)
  BY <1>1, SideAt
<1>4. t \in DOMAIN tracks
  <2>1. side \in Seq(Places(tracks))
    BY SideAt
  <2>2. side[j] \in Places(tracks)
    BY <2>1, LenProperties
  <2> QED
    BY <1>2, <2>2, Track0At
<1>5. TrackOK(tracks[t])
  BY <1>4 DEF DiskOK
<1>6. PICK ids : ids = DOMAIN tracks[t].secs
  OBVIOUS
<1>7. ids \in SUBSET Nat /\ IsFiniteSet(ids)
  BY <1>5, <1>6, SecsFinite
<1>8. Sorted(ids)[j] = Sorted(ids)[k] /\ j \in 1 .. Cardinality(ids) /\ k \in 1 .. Cardinality(ids)
  BY <1>2, <1>3, <1>6
<1> QED
  BY ONLY <1>7, <1>8, RanksDiffer

LEMMA PlacesDiffer ==
  ASSUME NEW tracks, DiskOK(tracks), NEW all, all = Track0Sectors(tracks), NEW n, n = Len(all),
         NEW j \in 1 .. n, NEW k \in 1 .. n, all[j] = all[k]
  PROVE  j = k
<1>1. PICK a, b, l, m : /\ a = Side(tracks, 0) /\ b = Side(tracks, 1)
                        /\ l = Len(Side(tracks, 0)) /\ m = Len(Side(tracks, 1))
  OBVIOUS
<1>2. a \in Seq(Places(tracks)) /\ b \in Seq(Places(tracks)) /\ all = a \o b
  BY <1>1, SideAt, SectorsAre
<1>3. l \in Nat /\ m \in Nat
  BY <1>1, <1>2, LenProperties
<1>4. n = l + m /\ \A i \in 1 .. l + m : all[i] = IF i <= l THEN a[i] ELSE b[i - l]
  BY <1>1, <1>2, ConcatProperties
<1>5. \A i \in 1 .. l : tracks[a[i].track].head = 0
  BY <1>1, SideAt
<1>6. \A i \in 1 .. m : tracks[b[i].track].head = 1
  BY <1>1, SideAt
<1>7. ASSUME NEW i \in 1 .. n
      PROVE  /\ i <= l => i \in 1 .. l /\ all[i] = a[i] /\ tracks[all[i].track].head = 0
             /\ ~(i <= l) => /\ i - l \in 1 .. m /\ all[i] = b[i - l]
                             /\ tracks[all[i].track].head = 1
  <2>1. CASE i <= l
    BY <1>3, <1>4, <1>5, <2>1
  <2>2. CASE ~(i <= l)
    <3>1. PICK h : h = i - l
      OBVIOUS
    <3>2. h \in 1 .. m /\ all[i] = b[h]
      BY <1>3, <1>4, <2>2, <3>1
    <3> QED
      BY <1>6, <2>2, <3>1, <3>2
  <2> QED
    BY <2>1, <2>2
<1>8. PICK h : h = tracks[all[j].track].head
  OBVIOUS
<1>9. /\ h = tracks[all[k].track].head
      /\ k <= l => tracks[all[k].track].head = 0
      /\ ~(k <= l) => tracks[all[k].track].head = 1
  BY <1>7, <1>8
<1>a. (k <= l => h = 0) /\ (~(k <= l) => h = 1)
  BY ONLY <1>9
<1>b. l \in Int /\ j \in Int /\ k \in Int
  BY <1>3, <1>4
<1>10. CASE j <= l
  <2>1. h = 0
    BY <1>7, <1>8, <1>10
  <2>2. k <= l
    BY <1>a, <2>1
  <2>3. j \in 1 .. l /\ k \in 1 .. l /\ a[j] = a[k]
    BY <1>7, <1>10, <2>2
  <2>4. DiskOK(tracks) /\ a = Side(tracks, 0) /\ l = Len(a)
    BY <1>1
  <2> QED
    BY ONLY <2>3, <2>4, SideDiffers
<1>11. CASE ~(j <= l)
  <2>1. h = 1
    BY <1>7, <1>8, <1>11
  <2>2. ~(k <= l)
    BY <1>a, <2>1
  <2>3. PICK x, y : x = j - l /\ y = k - l
    OBVIOUS
  <2>4. x \in 1 .. m /\ y \in 1 .. m /\ b[x] = b[y]
    BY <1>7, <1>11, <2>2, <2>3
  <2>5. DiskOK(tracks) /\ b = Side(tracks, 1) /\ m = Len(b)
    BY <1>1
  <2>6. x = y
    BY ONLY <2>4, <2>5, SideDiffers
  <2> QED
    BY ONLY <1>b, <2>3, <2>6
<1> QED
  BY <1>10, <1>11
------------------------------------------------------------------------------
(* set_track0                                                               *)

LEMMA SliceAt ==
  ASSUME NEW data \in Seq(Values), NEW from \in Nat, NEW n \in Nat, from + n <= Len(data)
  PROVE  \A c \in 1 .. n : Slice(data, from, n)[c] = data[from + c]
<1>1. PICK len, first, last : len = Len(data) /\ first = from + 1 /\ last = from + n
  OBVIOUS
<1>2. len \in Nat /\ first \in Int /\ last \in Int /\ last <= len
  BY <1>1, LenProperties
<1>3. Slice(data, from, n) = SubSeq(data, first, last)
  BY <1>1, <1>2 DEF Slice
<1>4. \A j \in first .. last : data[j] \in Values
  <2>1. \A j \in first .. last : j \in 1 .. len
    BY <1>1, <1>2
  <2> QED
    BY <1>1, <2>1, LenProperties
<1>5. \A c \in 1 .. last - first + 1 : SubSeq(data, first, last)[c] = data[first + c - 1]
  BY ONLY <1>2, <1>4, SubSeqProperties
<1>6. ASSUME NEW c \in 1 .. n
      PROVE  SubSeq(data, first, last)[c] = data[from + c]
  <2>1. c \in 1 .. last - first + 1 /\ first + c - 1 = from + c
    BY <1>1, <1>2
  <2>2. SubSeq(data, first, last)[c] = data[first + c - 1]
    BY ONLY <1>5, <2>1
  <2> QED
    BY <2>1, <2>2
<1> QED
  BY <1>3, <1>6

\* A disk, its track 0 and new data for it.
Frame(tracks, all, n, off, data) ==
  /\ DiskOK(tracks) /\ Regular(tracks) /\ all = Track0Sectors(tracks) /\ n = Len(all)
  /\ Measured(tracks, all, n, off)
  /\ data \in Seq(Values) /\ Len(data) = off[n]

\* After k rounds: the first k sectors have their data, and the other cylinders
\* are as they were.
Setting(now, tracks, all, off, data, k) ==
  /\ DiskOK(now) /\ Regular(now) /\ Alike(tracks, now)
  /\ \A t \in DOMAIN tracks : now[t].size = tracks[t].size
  /\ \A t \in DOMAIN tracks : tracks[t].cyl # 0 =>
       \A id \in DOMAIN tracks[t].secs : tracks[t].secs[id] = now[t].secs[id]
  /\ \A j \in 1 .. k : now[all[j].track].secs[all[j].id] =
                         Slice(data, off[j - 1], tracks[all[j].track].size)

LEMMA OneSetting ==
  ASSUME NEW tracks, NEW all, NEW n, NEW off, NEW data, Frame(tracks, all, n, off, data),
         NEW k \in 1 .. n, NEW m, m = k - 1, NEW acc, acc.pos = off[m],
         Setting(acc.tracks, tracks, all, off, data, m),
         NEW new, new = PutTrack0(acc, all[k], data)
  PROVE  new.pos = off[k] /\ Setting(new.tracks, tracks, all, off, data, k)
<1>1. PICK now, t, id : now = acc.tracks /\ t = all[k].track /\ id = all[k].id
  OBVIOUS
<1>2. PICK pos, size : pos = off[k - 1] /\ size = tracks[t].size
  OBVIOUS
<1>3. /\ DiskOK(tracks) /\ all = Track0Sectors(tracks) /\ n = Len(all)
  BY DEF Frame
<1>4. /\ n \in Nat /\ t \in DOMAIN tracks /\ id \in DOMAIN tracks[t].secs /\ tracks[t].cyl = 0
      /\ all[k] \in Places(tracks)
  BY <1>1, <1>3, Track0Places
<1>5. DiskOK(now) /\ Regular(now) /\ Alike(tracks, now) /\ now[t].size = size
  BY <1>1, <1>2, <1>4 DEF Setting
<1>6. t \in DOMAIN now /\ id \in DOMAIN now[t].secs
  BY <1>4, <1>5 DEF Alike
<1>7. size \in Nat /\ now[t].secs[id] \in [1 .. size -> Values]
  BY <1>5, <1>6 DEF DiskOK, TrackOK
<1>8. Len(now[t].secs[id]) = size
  BY <1>7, FcnIsSeq
<1>9. pos \in Nat /\ off[k] = pos + size /\ pos + size <= Len(data) /\ data \in Seq(Values)
  <2>1. k - 1 \in 0 .. n
    BY <1>4
  <2> QED
    BY <1>1, <1>2, <2>1 DEF Frame, Measured
<1>10. PICK cells, next : cells = Slice(data, pos, size) /\ next = With(now, t, id, Slice(data, pos, size))
  OBVIOUS
<1>11. cells \in [1 .. size -> Values]
  BY ONLY <1>7, <1>9, <1>10, SliceIs
<1>12. new = [pos |-> pos + size, tracks |-> next]
  BY <1>1, <1>2, <1>8, <1>10 DEF PutTrack0, With
<1>13. DiskOK(next) /\ SameShape(next, now)
  BY <1>5, <1>6, <1>10, <1>11, WithOK
<1>14. /\ Alike(now, next) /\ Regular(next) /\ next[t].secs[id] = cells
       /\ \A u \in DOMAIN now : \A x \in DOMAIN now[u].secs :
            (u # t \/ x # id) => next[u].secs[x] = now[u].secs[x]
  BY <1>5, <1>6, <1>10, <1>11, WithAlike
<1>15. Alike(tracks, next)
  BY ONLY <1>5, <1>14 DEF Alike
<1>16. \A u \in DOMAIN tracks : DOMAIN tracks[u].secs = DOMAIN now[u].secs /\ u \in DOMAIN now
  BY ONLY <1>5 DEF Alike
<1>17. ASSUME NEW u \in DOMAIN tracks
       PROVE  next[u].size = tracks[u].size
  <2>1. next[u].size = now[u].size
    BY <1>13, <1>16 DEF SameShape
  <2>2. now[u].size = tracks[u].size
    BY <1>1 DEF Setting
  <2> QED
    BY <2>1, <2>2
<1>18. ASSUME NEW u \in DOMAIN tracks, tracks[u].cyl # 0, NEW x \in DOMAIN tracks[u].secs
       PROVE  tracks[u].secs[x] = next[u].secs[x]
  <2>1. u # t
    BY <1>4, <1>18
  <2>2. next[u].secs[x] = now[u].secs[x]
    BY <1>14, <1>16, <2>1
  <2>3. tracks[u].secs[x] = now[u].secs[x]
    BY <1>1, <1>18 DEF Setting
  <2> QED
    BY <2>2, <2>3
<1>19. ASSUME NEW j \in 1 .. k
       PROVE  next[all[j].track].secs[all[j].id] =
                Slice(data, off[j - 1], tracks[all[j].track].size)
  <2>1. CASE j = k
    BY <1>1, <1>2, <1>10, <1>14, <2>1
  <2>2. CASE j # k
    <3>1. PICK u, x : u = all[j].track /\ x = all[j].id
      OBVIOUS
    <3>2. j \in 1 .. k - 1 /\ j \in 1 .. n
      BY <1>4, <2>2
    <3>3. u \in DOMAIN tracks /\ x \in DOMAIN tracks[u].secs /\ all[j] \in Places(tracks)
      BY ONLY <1>3, <3>1, <3>2, Track0Places
    <3>4. all[j] # all[k]
      BY ONLY <1>3, <2>2, <3>2, k \in 1 .. n, PlacesDiffer
    <3>5. u # t \/ x # id
      BY ONLY <1>1, <1>4, <3>1, <3>3, <3>4 DEF Places
    <3>6. next[u].secs[x] = now[u].secs[x]
      BY <1>14, <1>16, <3>3, <3>5
    <3>7. now[u].secs[x] = Slice(data, off[j - 1], tracks[u].size)
      BY <1>1, <3>1, <3>2 DEF Setting
    <3> QED
      BY <3>1, <3>6, <3>7
  <2> QED
    BY <2>1, <2>2
<1>20. Setting(next, tracks, all, off, data, k)
  BY ONLY <1>13, <1>14, <1>15, <1>17, <1>18, <1>19 DEF Setting
<1> QED
  BY <1>9, <1>12, <1>20

LEMMA SetMeans ==
  ASSUME NEW tracks, DiskOK(tracks), Regular(tracks), NEW data \in Seq(Values),
         Len(data) = Len(Track0(tracks)), NEW new, new = WithTrack0(tracks, data)
  PROVE  DiskOK(new) /\ Regular(new) /\ View(new) = [View(tracks) EXCEPT !.track0 = data]
<1>1. PICK all, n : all = Track0Sectors(tracks) /\ n = Len(Track0Sectors(tracks))
  OBVIOUS
<1>2. n \in Nat /\ n = Len(all)
  BY <1>1, Track0Places
<1>3. PICK off : Measured(tracks, all, n, off) /\ Len(Track0(tracks)) = off[n]
  BY <1>1, <1>2, Track0Ends
<1>a. /\ off \in [0 .. n -> Nat] /\ off[0] = 0
      /\ \A k \in 1 .. n : off[k] = off[k - 1] + tracks[all[k].track].size
      /\ \A k \in 1 .. n : off[k] <= off[n]
  BY <1>3 DEF Measured
<1>4. Frame(tracks, all, n, off, data)
  BY <1>1, <1>2, <1>3 DEF Frame
<1>5. PICK f : Rounds0(f, n, tracks, all, data) /\ new = f[n].tracks
  BY <1>1, <1>2, WithTrack0Is
<1>6. PICK Bad : Bad = {k \in 0 .. n : ~(/\ f[k].pos = off[k]
                                         /\ Setting(f[k].tracks, tracks, all, off, data, k))}
  OBVIOUS
<1>7. ASSUME Bad # {}
      PROVE  FALSE
  <2>1. PICK k \in Bad : \A j \in Bad : k <= j
    <3>1. Bad \in SUBSET Nat
      BY <1>2, <1>6
    <3> QED
      BY <1>7, <3>1, Least
  <2>2. /\ k \in 0 .. n
        /\ ~(f[k].pos = off[k] /\ Setting(f[k].tracks, tracks, all, off, data, k))
    BY <1>6
  <2>3. CASE k = 0
    <3>1. f[0].pos = 0 /\ f[0].tracks = tracks
      BY <1>5 DEF Rounds0
    <3>2. Alike(tracks, tracks)
      BY DEF Alike
    <3>3. Setting(tracks, tracks, all, off, data, 0)
      BY <3>2 DEF Setting
    <3> QED
      BY <1>a, <2>2, <2>3, <3>1, <3>3
  <2>4. CASE k # 0
    <3>1. PICK j : j = k - 1
      OBVIOUS
    <3>2. j \in 0 .. n /\ ~(k <= j) /\ k \in 1 .. n
      BY <1>2, <2>2, <2>4, <3>1
    <3>3. f[j].pos = off[j] /\ Setting(f[j].tracks, tracks, all, off, data, j)
      BY <1>6, <2>1, <3>2
    <3>4. PICK acc, next : acc = f[j] /\ next = f[k]
      OBVIOUS
    <3>5. next = PutTrack0(acc, all[k], data)
      BY <1>5, <3>1, <3>2, <3>4 DEF Rounds0
    <3>6. acc.pos = off[j] /\ Setting(acc.tracks, tracks, all, off, data, j)
      BY <3>3, <3>4
    <3>7. next.pos = off[k] /\ Setting(next.tracks, tracks, all, off, data, k)
      BY ONLY <1>4, <3>1, <3>2, <3>5, <3>6, OneSetting
    <3> QED
      BY <2>2, <3>4, <3>7
  <2> QED
    BY <2>3, <2>4
<1>8. Setting(new, tracks, all, off, data, n)
  <2>1. n \in 0 .. n
    BY <1>2
  <2> QED
    BY <1>5, <1>6, <1>7, <2>1
<1>9. DiskOK(new) /\ Regular(new) /\ Alike(tracks, new)
  BY <1>8 DEF Setting
<1>10. View(tracks).area = View(new).area
  BY <1>8, <1>9, SameArea DEF Setting
<1>11. Track0(new) = data
  <2>1. all = Track0Sectors(new)
    BY <1>1, <1>9, SectorsAlike
  <2>2. ASSUME NEW k \in 1 .. n
        PROVE  /\ new[all[k].track].size = tracks[all[k].track].size
               /\ new[all[k].track].secs[all[k].id] =
                    Slice(data, off[k - 1], tracks[all[k].track].size)
    <3>1. all[k].track \in DOMAIN tracks
      BY <1>1, Track0Places
    <3> QED
      BY <1>8, <3>1 DEF Setting
  <2>3. Measured(new, all, n, off)
    BY <1>a, <2>2 DEF Measured
  <2>4. ASSUME NEW k \in 1 .. n, NEW c \in 1 .. new[all[k].track].size
        PROVE  data[off[k - 1] + c] = new[all[k].track].secs[all[k].id][c]
    <3>1. PICK t, size, from : t = all[k].track /\ size = new[all[k].track].size /\ from = off[k - 1]
      OBVIOUS
    <3>2. t \in DOMAIN new
      BY ONLY <1>2, <1>9, <2>1, <3>1, k \in 1 .. n, Track0Places
    <3>3. size \in Nat /\ from \in Nat
      <4>1. k - 1 \in 0 .. n
        BY <1>2
      <4> QED
        BY <1>9, <1>a, <3>1, <3>2, <4>1 DEF DiskOK, TrackOK
    <3>4. from + size <= Len(data)
      BY <1>3, <1>a, <2>3, <3>1 DEF Measured
    <3>5. Slice(data, from, size)[c] = data[from + c]
      <4>1. \A i \in 1 .. size : Slice(data, from, size)[i] = data[from + i]
        BY ONLY data \in Seq(Values), <3>3, <3>4, SliceAt
      <4>2. c \in 1 .. size
        BY <3>1
      <4> QED
        BY ONLY <4>1, <4>2
    <3> QED
      BY <2>2, <3>1, <3>5
  <2>5. Len(data) = off[n] /\ data \in Seq(Values)
    BY <1>3
  <2>6. Holds0(data, new, all, n, off)
    BY ONLY <2>4 DEF Holds0
  <2> QED
    BY ONLY <1>2, <1>9, <2>1, <2>3, <2>5, <2>6, Track0Whole
<1>12. PICK area : area = View(tracks).area
  OBVIOUS
<1>13. View(new) = [track0 |-> data, area |-> area]
  BY <1>10, <1>11, <1>12, ViewIs
<1>14. View(tracks) = [track0 |-> Track0(tracks), area |-> area]
  BY <1>12, ViewIs
<1>15. [View(tracks) EXCEPT !.track0 = data] = [track0 |-> data, area |-> area]
  BY <1>14
<1> QED
  BY <1>9, <1>13, <1>15

\* A blank has the sectors of its reference, all of them filled.
BlankOf(image) ==
  [track0 |-> Linear!Filled(image.track0),
   area   |-> [i \in Indices |-> IF image.area[i] = Nothing THEN Nothing
                                 ELSE Linear!Filled(image.area[i])]]

LEMMA BlankMeans ==
  ASSUME NEW tracks, DiskOK(tracks), Regular(tracks),
         NEW file, file = [t \in DOMAIN tracks |-> BlankTrack(tracks[t])]
  PROVE  Regular(file) /\ View(ReadImd(file)) = BlankOf(View(tracks))
<1>1. DOMAIN file = DOMAIN tracks /\ \A t \in DOMAIN tracks : file[t] = BlankTrack(tracks[t])
  OBVIOUS
<1>2. PICK others : others = ReadImd(file)
  OBVIOUS
<1>3. ASSUME NEW t \in DOMAIN tracks
      PROVE  /\ file[t].cyl = tracks[t].cyl /\ file[t].head = tracks[t].head
             /\ file[t].size = tracks[t].size /\ file[t].map = tracks[t].map
             /\ DOMAIN Contents(file[t]) = DOMAIN tracks[t].secs
             /\ \A id \in DOMAIN tracks[t].secs :
                  Contents(file[t])[id] = [c \in 1 .. tracks[t].size |-> Fill]
  <2>1. TrackOK(tracks[t])
    BY DEF DiskOK
  <2> QED
    BY <1>1, <2>1, BlankCells
<1>4. Regular(file)
  <2>1. \A t \in DOMAIN tracks : /\ file[t].cyl = tracks[t].cyl /\ file[t].head = tracks[t].head
                                 /\ file[t].size = tracks[t].size
    BY <1>3
  <2>2. DOMAIN file = DOMAIN tracks /\ Regular(tracks)
    BY <1>1
  <2> QED
    BY ONLY <2>1, <2>2, SameRegular
<1>5. ASSUME NEW t \in DOMAIN tracks
      PROVE  /\ others[t].cyl = file[t].cyl /\ others[t].head = file[t].head
             /\ others[t].map = file[t].map /\ others[t].secs = Contents(file[t])
             /\ others[t].size = file[t].size
  BY <1>1, <1>2, ReadAt
<1>6. DOMAIN others = DOMAIN tracks
  BY <1>1, <1>2, ReadAt
<1>7. Alike(tracks, others)
  <2>1. \A t \in DOMAIN tracks :
          /\ tracks[t].cyl = others[t].cyl /\ tracks[t].head = others[t].head
          /\ tracks[t].map = others[t].map /\ DOMAIN tracks[t].secs = DOMAIN others[t].secs
    <3> TAKE t \in DOMAIN tracks
    <3>1. /\ file[t].cyl = tracks[t].cyl /\ file[t].head = tracks[t].head
          /\ file[t].map = tracks[t].map /\ DOMAIN Contents(file[t]) = DOMAIN tracks[t].secs
      BY ONLY <1>3
    <3>2. /\ others[t].cyl = file[t].cyl /\ others[t].head = file[t].head
          /\ others[t].map = file[t].map /\ others[t].secs = Contents(file[t])
      BY ONLY <1>5
    <3> QED
      BY ONLY <3>1, <3>2
  <2> QED
    BY ONLY <1>6, <2>1 DEF Alike
<1>8. DiskOK(others) /\ Fill \in Values
  BY <1>1, <1>2, SaveOK, ReadOK, ValuesAssumption
<1>9. ASSUME NEW t \in DOMAIN tracks, NEW id \in DOMAIN tracks[t].secs
      PROVE  /\ others[t].secs[id] = [c \in 1 .. tracks[t].size |-> Fill]
             /\ others[t].size = tracks[t].size
  BY <1>3, <1>5
<1>10. ASSUME NEW i \in Indices
       PROVE  View(others).area[i] = IF View(tracks).area[i] = Nothing THEN Nothing
                                     ELSE Linear!Filled(View(tracks).area[i])
  <2>1. i \in Nat
    BY SptIsEven, CylindersNat DEF Indices
  <2>2. CASE ~Exists(tracks, i)
    <3>1. ~Exists(others, i)
      BY <1>7, <2>2, LocAlike
    <3> QED
      BY <2>2, <3>1, ViewIs
  <2>3. CASE Exists(tracks, i)
    <3>1. Exists(others, i) /\ Loc(others, i) = Loc(tracks, i)
      BY <1>7, <2>3, LocAlike
    <3>2. PICK t, id : t = Loc(tracks, i).track /\ id = Loc(tracks, i).id
      OBVIOUS
    <3>3. t \in DOMAIN tracks /\ id \in DOMAIN tracks[t].secs
      BY <2>1, <2>3, <3>2, LocAt
    <3>4. PICK old, m : old = tracks[t].secs[id] /\ m = tracks[t].size
      OBVIOUS
    <3>5. m \in Nat /\ old \in [1 .. m -> Values]
      BY <3>3, <3>4 DEF DiskOK, TrackOK
    <3>6. Len(old) = m
      BY <3>5, FcnIsSeq
    <3>7. ReadSector(tracks, i) = old /\ ReadSector(others, i) = [c \in 1 .. m |-> Fill]
      BY <1>9, <3>1, <3>2, <3>3, <3>4 DEF ReadSector
    <3>8. ReadSector(others, i) = Linear!Filled(old)
      BY <3>6, <3>7 DEF Linear!Filled
    <3>9. View(tracks).area[i] = old /\ View(others).area[i] = Linear!Filled(old)
      BY <2>3, <3>1, <3>7, <3>8, ViewIs
    <3>10. View(tracks).area[i] # Nothing
      BY <2>3, AreaAt
    <3> QED
      BY <3>9, <3>10
  <2> QED
    BY <2>2, <2>3
<1>11. Track0(others) = Linear!Filled(Track0(tracks))
  <2>1. PICK all, n : all = Track0Sectors(tracks) /\ n = Len(Track0Sectors(tracks))
    OBVIOUS
  <2>2. n \in Nat /\ n = Len(all)
    BY <2>1, Track0Places
  <2>3. all = Track0Sectors(others)
    BY <1>7, <2>1, SectorsAlike
  <2>4. PICK off : Measured(tracks, all, n, off) /\ Len(Track0(tracks)) = off[n]
    BY <2>1, <2>2, Track0Ends
  <2>a. /\ off \in [0 .. n -> Nat] /\ off[0] = 0
        /\ \A k \in 1 .. n : off[k] = off[k - 1] + tracks[all[k].track].size
        /\ \A k \in 1 .. n : off[k] <= off[n]
    BY <2>4 DEF Measured
  <2>5. ASSUME NEW k \in 1 .. n
        PROVE  /\ others[all[k].track].size = tracks[all[k].track].size
               /\ others[all[k].track].secs[all[k].id] = [c \in 1 .. tracks[all[k].track].size |-> Fill]
               /\ tracks[all[k].track].size \in Nat
    <3>1. PICK t, id : t = all[k].track /\ id = all[k].id
      OBVIOUS
    <3>2. t \in DOMAIN tracks /\ id \in DOMAIN tracks[t].secs
      BY <2>1, <3>1, Track0Places
    <3>3. tracks[t].size \in Nat
      BY <3>2 DEF DiskOK, TrackOK
    <3> QED
      BY <1>9, <3>1, <3>2, <3>3
  <2>6. Measured(others, all, n, off)
    BY <2>a, <2>5 DEF Measured
  <2>7. PICK m, whole : m = off[n] /\ whole = [p \in 1 .. off[n] |-> Fill]
    OBVIOUS
  <2>8. m \in Nat /\ whole \in [1 .. m -> Values]
    BY <1>8, <2>2, <2>7, <2>a
  <2>9. whole \in Seq(Values) /\ Len(whole) = off[n]
    BY <2>7, <2>8, FcnIsSeq
  <2>10. ASSUME NEW k \in 1 .. n, NEW c \in 1 .. others[all[k].track].size
         PROVE  whole[off[k - 1] + c] = others[all[k].track].secs[all[k].id][c]
    <3>1. PICK size, from, p : /\ size = tracks[all[k].track].size /\ from = off[k - 1]
                               /\ p = off[k - 1] + c
      OBVIOUS
    <3>2. k - 1 \in 0 .. n
      BY <2>2
    <3>3. c \in 1 .. size /\ size \in Nat /\ from \in Nat
      BY <2>5, <2>a, <3>1, <3>2
    <3>4. from + size <= m
      BY <2>7, <2>a, <3>1
    <3>5. p \in 1 .. m
      <4>1. m \in Nat /\ p = from + c
        BY <2>8, <3>1
      <4> QED
        BY ONLY <3>3, <3>4, <4>1
    <3>6. whole[p] = Fill
      BY <2>7, <3>5
    <3>7. others[all[k].track].secs[all[k].id][c] = Fill
      BY <2>5, <3>1, <3>3
    <3> QED
      BY <3>1, <3>6, <3>7
  <2>11. Holds0(whole, others, all, n, off)
    BY ONLY <2>10 DEF Holds0
  <2>12. Track0(others) = whole
    BY ONLY <1>8, <2>2, <2>3, <2>6, <2>9, <2>11, Track0Whole
  <2>13. Linear!Filled(Track0(tracks)) = whole
    BY <2>4, <2>7 DEF Linear!Filled
  <2> QED
    BY <2>12, <2>13
<1>12. View(others).area = [i \in Indices |-> View(others).area[i]]
  BY ViewIs
<1>13. PICK filled : filled = [i \in Indices |-> IF View(tracks).area[i] = Nothing THEN Nothing
                                                  ELSE Linear!Filled(View(tracks).area[i])]
  OBVIOUS
<1>14. View(others).area = filled
  BY <1>10, <1>12, <1>13
<1>15. View(others) = [track0 |-> Linear!Filled(Track0(tracks)), area |-> filled]
  BY <1>11, <1>14, ViewIs
<1>16. View(tracks).track0 = Track0(tracks)
  BY ViewIs
<1>17. View(others) = BlankOf(View(tracks))
  BY <1>13, <1>15, <1>16 DEF BlankOf
<1> QED
  BY <1>2, <1>4, <1>17
------------------------------------------------------------------------------
(* imd_trim_empty_tail.py                                                   *)

\* The records of a file that a loop over its first n records has kept.
RecordsOf(file) == {file[t] : t \in DOMAIN file}

KeptOf(file, limit, n, kept) ==
  /\ kept \in Seq(RecordsOf(file))
  /\ \A u \in DOMAIN kept : \E t \in 1 .. n : file[t].cyl < limit /\ kept[u] = file[t]
  /\ \A t \in 1 .. n : file[t].cyl < limit => \E u \in DOMAIN kept : kept[u] = file[t]
  /\ \A u, v \in DOMAIN kept :
       kept[u].cyl = kept[v].cyl /\ kept[u].head = kept[v].head => u = v

LEMMA KeepOne ==
  ASSUME NEW file, Regular(file), NEW limit, NEW t \in Nat \ {0}, t \in DOMAIN file,
         1 .. t - 1 \subseteq DOMAIN file,
         file[t].cyl < limit, NEW kept, KeptOf(file, limit, t - 1, kept)
  PROVE  KeptOf(file, limit, t, Append(kept, file[t]))
<1>1. PICK m, rec, new : m = Len(kept) /\ rec = file[t] /\ new = Append(kept, file[t])
  OBVIOUS
<1>2. PICK S : S = RecordsOf(file)
  OBVIOUS
<1>3. rec \in S
  BY <1>1, <1>2 DEF RecordsOf
<1>4. kept \in Seq(S) /\ m \in Nat /\ DOMAIN kept = 1 .. m
  BY <1>1, <1>2, LenProperties DEF KeptOf
<1>5. /\ Len(new) = m + 1 /\ new \in Seq(S) /\ new[m + 1] = rec
      /\ \A u \in 1 .. m : new[u] = kept[u]
  BY <1>1, <1>3, <1>4, AppendProperties
<1>6. DOMAIN new = 1 .. m + 1
  BY <1>5, LenProperties
<1>7. \A u \in 1 .. m + 1 : u \in 1 .. m \/ u = m + 1
  BY <1>4
<1>8. t \in 1 .. t /\ \A j \in 1 .. t : j \in 1 .. t - 1 \/ j = t
  OBVIOUS
<1>9. ASSUME NEW u \in 1 .. m
      PROVE  \E j \in 1 .. t - 1 : file[j].cyl < limit /\ new[u] = file[j]
  <2>1. \E j \in 1 .. t - 1 : file[j].cyl < limit /\ kept[u] = file[j]
    BY <1>4 DEF KeptOf
  <2> QED
    BY <1>5, <2>1
<1>10. ASSUME NEW u \in 1 .. m + 1
       PROVE  \E j \in 1 .. t : file[j].cyl < limit /\ new[u] = file[j]
  <2>1. CASE u \in 1 .. m
    <3>1. PICK j \in 1 .. t - 1 : file[j].cyl < limit /\ new[u] = file[j]
      BY <1>9, <2>1
    <3>2. j \in 1 .. t
      OBVIOUS
    <3> QED
      BY <3>1, <3>2
  <2>2. CASE u = m + 1
    BY <1>1, <1>5, <1>8, <2>2
  <2> QED
    BY <1>7, <2>1, <2>2
<1>11. ASSUME NEW j \in 1 .. t, file[j].cyl < limit
       PROVE  \E u \in 1 .. m + 1 : new[u] = file[j]
  <2>1. CASE j \in 1 .. t - 1
    <3>1. PICK u \in 1 .. m : kept[u] = file[j]
      BY <1>4, <1>11, <2>1 DEF KeptOf
    <3>2. u \in 1 .. m + 1 /\ new[u] = file[j]
      BY <1>4, <1>5, <3>1
    <3> QED
      BY <3>2
  <2>2. CASE j = t
    <3>1. m + 1 \in 1 .. m + 1
      BY <1>4
    <3> QED
      BY <1>1, <1>5, <2>2, <3>1
  <2> QED
    BY <1>8, <2>1, <2>2
<1>12. ASSUME NEW u \in 1 .. m, new[u].cyl = rec.cyl, new[u].head = rec.head
       PROVE  FALSE
  <2>1. PICK j \in 1 .. t - 1 : new[u] = file[j]
    BY <1>9
  <2>2. j \in DOMAIN file /\ j # t
    OBVIOUS
  <2> QED
    BY <1>1, <1>12, <2>1, <2>2 DEF Regular
<1>13. ASSUME NEW u \in 1 .. m + 1, NEW v \in 1 .. m + 1,
              new[u].cyl = new[v].cyl, new[u].head = new[v].head
       PROVE  u = v
  <2>1. CASE u \in 1 .. m /\ v \in 1 .. m
    <3>1. kept[u].cyl = kept[v].cyl /\ kept[u].head = kept[v].head
      BY <1>5, <1>13, <2>1
    <3> QED
      BY <1>4, <2>1, <3>1 DEF KeptOf
  <2>2. CASE u = m + 1 /\ v \in 1 .. m
    BY <1>5, <1>12, <1>13, <2>2
  <2>3. CASE u \in 1 .. m /\ v = m + 1
    BY <1>5, <1>12, <1>13, <2>3
  <2> QED
    BY <1>7, <2>1, <2>2, <2>3
<1>14. KeptOf(file, limit, t, new)
  BY ONLY <1>2, <1>5, <1>6, <1>10, <1>11, <1>13 DEF KeptOf
<1> QED
  BY <1>1, <1>14

LEMMA BelowKeeps ==
  ASSUME NEW file, FileOK(file), Regular(file), NEW limit
  PROVE  KeptOf(file, limit, Len(file), Below(file, limit))
<1>1. PICK n : n = Len(file)
  OBVIOUS
<1>2. n \in Nat /\ DOMAIN file = 1 .. n
  BY <1>1 DEF FileOK
<1>3. PICK f : Kept(f, n, file, limit) /\ Below(file, limit) = f[n]
  BY <1>1, <1>2, BelowIs
<1>4. PICK Bad : Bad = {t \in 0 .. n : ~KeptOf(file, limit, t, f[t])}
  OBVIOUS
<1>5. ASSUME Bad # {}
      PROVE  FALSE
  <2>1. PICK t \in Bad : \A u \in Bad : t <= u
    <3>1. Bad \in SUBSET Nat
      BY <1>2, <1>4
    <3> QED
      BY <1>5, <3>1, Least
  <2>2. t \in 0 .. n /\ ~KeptOf(file, limit, t, f[t])
    BY <1>4
  <2>3. CASE t = 0
    <3>1. PICK none : none = f[0]
      OBVIOUS
    <3>2. none = <<>>
      BY <1>3, <3>1 DEF Kept
    <3>3. none \in Seq(RecordsOf(file)) /\ DOMAIN none = 1 .. 0
      <4>1. none \in Seq(RecordsOf(file)) /\ Len(none) = 0
        BY <3>2, EmptySeq
      <4> QED
        BY <4>1, LenProperties
    <3>4. \A u \in 1 .. 0 : FALSE
      OBVIOUS
    <3>5. KeptOf(file, limit, 0, none)
      BY <3>3, <3>4 DEF KeptOf
    <3> QED
      BY <2>2, <2>3, <3>1, <3>5
  <2>4. CASE t # 0
    <3>1. PICK u : u = t - 1
      OBVIOUS
    <3>2. u \in 0 .. n /\ ~(t <= u) /\ t \in 1 .. n /\ 1 .. u \subseteq DOMAIN file
      BY <1>2, <2>2, <2>4, <3>1
    <3>3. KeptOf(file, limit, u, f[u])
      BY <1>4, <2>1, <3>2
    <3>4. CASE file[t].cyl < limit
      <4>1. f[t] = Append(f[u], file[t])
        BY <1>3, <3>1, <3>2, <3>4 DEF Kept
      <4>2. KeptOf(file, limit, t, Append(f[u], file[t]))
        BY <1>2, <3>1, <3>2, <3>3, <3>4, KeepOne
      <4> QED
        BY <2>2, <4>1, <4>2
    <3>5. CASE ~(file[t].cyl < limit)
      <4>1. f[t] = f[u]
        BY <1>3, <3>1, <3>2, <3>5 DEF Kept
      <4>2. PICK kept : kept = f[u]
        OBVIOUS
      <4>3. \A j \in 1 .. t : j \in 1 .. u \/ j = t
        BY <3>1, <3>2
      <4>4. \A j \in 1 .. u : j \in 1 .. t
        BY <3>1, <3>2
      <4>5. KeptOf(file, limit, t, kept)
        BY <3>3, <3>5, <4>2, <4>3, <4>4 DEF KeptOf
      <4> QED
        BY <2>2, <4>1, <4>2, <4>5
    <3> QED
      BY <3>4, <3>5
  <2> QED
    BY <2>3, <2>4
<1>6. n \in 0 .. n
  BY <1>2
<1> QED
  BY <1>1, <1>3, <1>4, <1>5, <1>6

\* The tracks below the limit, in any order.
Shorter(tracks, others, limit) ==
  /\ DiskOK(tracks) /\ Regular(tracks) /\ DiskOK(others) /\ Regular(others)
  /\ \A u \in DOMAIN others : \E t \in DOMAIN tracks :
       tracks[t].cyl < limit /\ others[u] = tracks[t]
  /\ \A t \in DOMAIN tracks : tracks[t].cyl < limit => \E u \in DOMAIN others : others[u] = tracks[t]

LEMMA BelowShorter ==
  ASSUME NEW file, FileOK(file), Regular(file), NEW limit,
         NEW kept, kept = Below(file, limit)
  PROVE  Regular(kept) /\ Shorter(ReadImd(file), ReadImd(kept), limit)
<1>1. PICK n, tracks, others : n = Len(file) /\ tracks = ReadImd(file) /\ others = ReadImd(kept)
  OBVIOUS
<1>2. n \in Nat /\ DOMAIN file = 1 .. n
  BY <1>1 DEF FileOK
<1>3. KeptOf(file, limit, n, kept)
  BY <1>1, BelowKeeps
<1>4. \A u \in DOMAIN kept : \E t \in 1 .. n : file[t].cyl < limit /\ kept[u] = file[t]
  BY <1>3 DEF KeptOf
<1>5. \A t \in 1 .. n : file[t].cyl < limit => \E u \in DOMAIN kept : kept[u] = file[t]
  BY <1>3 DEF KeptOf
<1>6. Regular(kept)
  <2>1. ASSUME NEW u \in DOMAIN kept
        PROVE  /\ kept[u].cyl \in 0 .. Cylinders - 1
               /\ kept[u].cyl # 0 => kept[u].size = Size
    <3>1. PICK t \in 1 .. n : kept[u] = file[t]
      BY <1>4
    <3> QED
      BY <1>2, <3>1 DEF Regular
  <2>2. \A u, v \in DOMAIN kept :
          kept[u].cyl = kept[v].cyl /\ kept[u].head = kept[v].head => u = v
    BY <1>3 DEF KeptOf
  <2> QED
    BY <2>1, <2>2 DEF Regular
<1>7. DiskOK(tracks) /\ DiskOK(others)
  BY <1>1, ReadOK, BelowOK
<1>8. Regular(tracks) /\ Regular(others)
  BY <1>1, <1>6, ReadRegular
<1>9. DOMAIN tracks = 1 .. n /\ DOMAIN others = DOMAIN kept
  BY <1>1, <1>2, ReadAt
<1>10. ASSUME NEW u \in DOMAIN kept, NEW t \in 1 .. n, kept[u] = file[t]
       PROVE  others[u] = tracks[t]
  BY <1>1, <1>2, <1>10 DEF ReadImd
<1>11. \A t \in 1 .. n : tracks[t].cyl = file[t].cyl
  BY <1>1, <1>2, ReadAt
<1>12. ASSUME NEW u \in DOMAIN others
       PROVE  \E t \in DOMAIN tracks : tracks[t].cyl < limit /\ others[u] = tracks[t]
  <2>1. PICK t \in 1 .. n : file[t].cyl < limit /\ kept[u] = file[t]
    BY <1>4, <1>9
  <2>2. others[u] = tracks[t] /\ tracks[t].cyl < limit
    BY <1>9, <1>10, <1>11, <2>1
  <2> QED
    BY <1>9, <2>2
<1>13. ASSUME NEW t \in DOMAIN tracks, tracks[t].cyl < limit
       PROVE  \E u \in DOMAIN others : others[u] = tracks[t]
  <2>1. t \in 1 .. n /\ file[t].cyl < limit
    BY <1>9, <1>11, <1>13
  <2>2. PICK u \in DOMAIN kept : kept[u] = file[t]
    BY <1>5, <2>1
  <2>3. others[u] = tracks[t]
    BY <1>10, <2>1, <2>2
  <2> QED
    BY <1>9, <2>3
<1>14. Shorter(tracks, others, limit)
  BY ONLY <1>7, <1>8, <1>12, <1>13 DEF Shorter
<1> QED
  BY <1>1, <1>6, <1>14

LEMMA OnlyTrack ==
  ASSUME NEW tracks, DiskOK(tracks), Regular(tracks), NEW t \in DOMAIN tracks,
         NEW cyl, NEW head, cyl = tracks[t].cyl, head = tracks[t].head
  PROVE  TracksAt(tracks, cyl, head) # {} /\ Max(TracksAt(tracks, cyl, head)) = t
<1>1. PICK last : last = Max(TracksAt(tracks, cyl, head))
  OBVIOUS
<1>2. TracksAt(tracks, cyl, head) # {}
  BY DEF TracksAt
<1>3. last \in DOMAIN tracks /\ tracks[last].cyl = cyl /\ tracks[last].head = head
  BY <1>1, <1>2, LastTrack
<1>4. last = t
  BY <1>3 DEF Regular
<1> QED
  BY <1>1, <1>2, <1>4

LEMMA SameTrack ==
  ASSUME NEW tracks, NEW others, NEW limit, Shorter(tracks, others, limit), NEW cyl, NEW head
  PROVE  /\ ~(cyl < limit) => TracksAt(others, cyl, head) = {}
         /\ cyl < limit /\ TracksAt(tracks, cyl, head) = {} => TracksAt(others, cyl, head) = {}
         /\ cyl < limit /\ TracksAt(tracks, cyl, head) # {} =>
              /\ TracksAt(others, cyl, head) # {}
              /\ others[Max(TracksAt(others, cyl, head))] = tracks[Max(TracksAt(tracks, cyl, head))]
<1>0. DiskOK(tracks) /\ Regular(tracks) /\ DiskOK(others) /\ Regular(others)
  BY DEF Shorter
<1>1. ASSUME NEW u \in TracksAt(others, cyl, head)
      PROVE  cyl < limit /\ TracksAt(tracks, cyl, head) # {}
  <2>1. u \in DOMAIN others /\ others[u].cyl = cyl /\ others[u].head = head
    BY DEF TracksAt
  <2>2. PICK t \in DOMAIN tracks : tracks[t].cyl < limit /\ others[u] = tracks[t]
    BY <2>1 DEF Shorter
  <2>3. t \in TracksAt(tracks, cyl, head) /\ cyl < limit
    BY <2>1, <2>2 DEF TracksAt
  <2> QED
    BY <2>3
<1>2. ASSUME cyl < limit, TracksAt(tracks, cyl, head) # {}
      PROVE  /\ TracksAt(others, cyl, head) # {}
             /\ others[Max(TracksAt(others, cyl, head))] = tracks[Max(TracksAt(tracks, cyl, head))]
  <2>1. PICK t : t = Max(TracksAt(tracks, cyl, head))
    OBVIOUS
  <2>2. t \in DOMAIN tracks /\ tracks[t].cyl = cyl /\ tracks[t].head = head
    BY <1>0, <1>2, <2>1, LastTrack
  <2>3. PICK u \in DOMAIN others : others[u] = tracks[t]
    BY <1>2, <2>2 DEF Shorter
  <2>4. cyl = others[u].cyl /\ head = others[u].head
    BY <2>2, <2>3
  <2>5. TracksAt(others, cyl, head) # {} /\ Max(TracksAt(others, cyl, head)) = u
    BY ONLY <1>0, <2>3, <2>4, OnlyTrack
  <2> QED
    BY <2>1, <2>3, <2>5
<1> QED
  BY <1>1, <1>2

LEMMA ShorterArea ==
  ASSUME NEW tracks, NEW others, NEW limit, Shorter(tracks, others, limit), NEW i \in Indices
  PROVE  View(others).area[i] = IF 1 + i \div PerCyl < limit THEN View(tracks).area[i] ELSE Nothing
<1>1. PICK cyl, head : cyl = 1 + i \div PerCyl /\ head = (i % PerCyl) \div Spt
  OBVIOUS
<1>2. LocTracks(tracks, i) = TracksAt(tracks, cyl, head) /\ LocTracks(others, i) = TracksAt(others, cyl, head)
  BY <1>1 DEF LocTracks
<1>3. CASE ~(cyl < limit)
  <2>1. ~Exists(others, i)
    BY <1>2, <1>3, SameTrack DEF Exists
  <2> QED
    BY <1>1, <1>3, <2>1, ViewIs
<1>4. CASE cyl < limit /\ TracksAt(tracks, cyl, head) = {}
  <2>1. ~Exists(others, i) /\ ~Exists(tracks, i)
    BY <1>2, <1>4, SameTrack DEF Exists
  <2>2. View(others).area[i] = Nothing
    BY <2>1, ViewIs
  <2>3. View(tracks).area[i] = Nothing
    BY <2>1, ViewIs
  <2> QED
    BY <2>2, <2>3
<1>5. CASE cyl < limit /\ TracksAt(tracks, cyl, head) # {}
  <2>1. PICK t, u : t = Max(TracksAt(tracks, cyl, head)) /\ u = Max(TracksAt(others, cyl, head))
    OBVIOUS
  <2>2. TracksAt(others, cyl, head) # {} /\ others[u] = tracks[t]
    BY <1>5, <2>1, SameTrack
  <2>3. PICK id : id = Min(Range(tracks[t].map)) + (i % Spt)
    OBVIOUS
  <2>4. Loc(tracks, i) = [track |-> t, id |-> id] /\ Loc(others, i) = [track |-> u, id |-> id]
    BY <1>2, <2>1, <2>2, <2>3 DEF Loc
  <2>5. /\ Exists(tracks, i) <=> id \in DOMAIN tracks[t].secs
        /\ Exists(others, i) <=> id \in DOMAIN tracks[t].secs
    BY <1>2, <1>5, <2>2, <2>4 DEF Exists
  <2>6. ReadSector(tracks, i) = tracks[t].secs[id] /\ ReadSector(others, i) = tracks[t].secs[id]
    BY <2>2, <2>4 DEF ReadSector
  <2>7. View(tracks).area[i] = IF Exists(tracks, i) THEN ReadSector(tracks, i) ELSE Nothing
    BY ViewIs
  <2>8. View(others).area[i] = IF Exists(others, i) THEN ReadSector(others, i) ELSE Nothing
    BY ViewIs
  <2> QED
    BY <1>1, <1>5, <2>5, <2>6, <2>7, <2>8
<1> QED
  BY <1>3, <1>4, <1>5

LEMMA ShorterSide ==
  ASSUME NEW tracks, NEW others, NEW limit, Shorter(tracks, others, limit), 0 < limit, NEW head,
         NEW a, a = Side(tracks, head), NEW b, b = Side(others, head), NEW l, l = Len(a)
  PROVE  /\ l \in Nat /\ Len(b) = l
         /\ \A k \in 1 .. l : others[b[k].track].secs[b[k].id] = tracks[a[k].track].secs[a[k].id]
<1>0. DiskOK(tracks) /\ DiskOK(others)
  BY DEF Shorter
<1>1. a \in Seq(Places(tracks)) /\ b \in Seq(Places(others))
  BY <1>0, SideAt
<1>2. l \in Nat
  BY <1>1, LenProperties
<1>3. CASE TracksAt(tracks, 0, head) = {}
  <2>1. TracksAt(others, 0, head) = {}
    BY <1>3, SameTrack
  <2>2. a = <<>> /\ b = <<>>
    BY <1>3, <2>1 DEF Side
  <2>3. l = 0 /\ Len(b) = 0
    BY <2>2, EmptySeq
  <2> QED
    BY <1>2, <2>3
<1>4. CASE TracksAt(tracks, 0, head) # {}
  <2>1. PICK t, u : t = Max(TracksAt(tracks, 0, head)) /\ u = Max(TracksAt(others, 0, head))
    OBVIOUS
  <2>2. TracksAt(others, 0, head) # {} /\ others[u] = tracks[t]
    BY <1>4, <2>1, SameTrack
  <2>3. l = Cardinality(DOMAIN tracks[t].secs)
    BY <1>0, <1>4, <2>1, SideAt
  <2>4. Len(b) = Cardinality(DOMAIN others[u].secs)
    BY <1>0, <2>1, <2>2, SideAt
  <2>5. Len(b) = l
    BY <2>2, <2>3, <2>4
  <2>6. ASSUME NEW k \in 1 .. l
        PROVE  a[k].track = t /\ a[k].id = Sorted(DOMAIN tracks[t].secs)[k]
    BY <1>0, <2>1, SideAt
  <2>7. ASSUME NEW k \in 1 .. l
        PROVE  b[k].track = u /\ b[k].id = Sorted(DOMAIN others[u].secs)[k]
    BY <1>0, <2>1, <2>5, SideAt
  <2>8. ASSUME NEW k \in 1 .. l
        PROVE  others[b[k].track].secs[b[k].id] = tracks[a[k].track].secs[a[k].id]
    BY <2>2, <2>6, <2>7
  <2> QED
    BY <1>2, <2>5, <2>8
<1> QED
  BY <1>3, <1>4

LEMMA ShorterTrack0 ==
  ASSUME NEW tracks, NEW others, NEW limit, Shorter(tracks, others, limit), 0 < limit
  PROVE  Track0(others) = Track0(tracks)
<1>0. DiskOK(tracks) /\ DiskOK(others)
  BY DEF Shorter
<1>1. PICK a, b, l, m : /\ a = Side(tracks, 0) /\ b = Side(tracks, 1)
                        /\ l = Len(Side(tracks, 0)) /\ m = Len(Side(tracks, 1))
  OBVIOUS
<1>2. PICK c, d : c = Side(others, 0) /\ d = Side(others, 1)
  OBVIOUS
<1>3. /\ l \in Nat /\ Len(c) = l
      /\ \A k \in 1 .. l : others[c[k].track].secs[c[k].id] = tracks[a[k].track].secs[a[k].id]
  BY <1>1, <1>2, ShorterSide
<1>4. /\ m \in Nat /\ Len(d) = m
      /\ \A k \in 1 .. m : others[d[k].track].secs[d[k].id] = tracks[b[k].track].secs[b[k].id]
  BY <1>1, <1>2, ShorterSide
<1>5. PICK all, more, n : all = a \o b /\ more = c \o d /\ n = l + m
  OBVIOUS
<1>6. all = Track0Sectors(tracks)
  BY <1>1, <1>5, SectorsAre
<1>7. more = Track0Sectors(others)
  BY <1>2, <1>5, SectorsAre
<1>8. a \in Seq(Places(tracks)) /\ b \in Seq(Places(tracks))
  BY <1>0, <1>1, SideAt
<1>9. c \in Seq(Places(others)) /\ d \in Seq(Places(others))
  BY <1>0, <1>2, SideAt
<1>10. /\ all \in Seq(Places(tracks)) /\ Len(all) = n
       /\ \A k \in 1 .. n : all[k] = IF k <= l THEN a[k] ELSE b[k - l]
  BY <1>1, <1>5, <1>8, ConcatProperties
<1>11. /\ more \in Seq(Places(others)) /\ Len(more) = n
       /\ \A k \in 1 .. n : more[k] = IF k <= l THEN c[k] ELSE d[k - l]
  <2>1. /\ c \o d \in Seq(Places(others)) /\ Len(c \o d) = Len(c) + Len(d)
        /\ \A k \in 1 .. Len(c) + Len(d) : (c \o d)[k] = IF k <= Len(c) THEN c[k] ELSE d[k - Len(c)]
    BY ONLY <1>9, ConcatProperties
  <2>2. Len(c) = l /\ Len(d) = m
    BY <1>3, <1>4
  <2> QED
    BY <1>5, <2>1, <2>2
<1>12. n \in Nat /\ DOMAIN all = 1 .. n /\ DOMAIN more = 1 .. n
  BY <1>10, <1>11, LenProperties
<1>13. ASSUME NEW k \in 1 .. n
       PROVE  others[more[k].track].secs[more[k].id] = tracks[all[k].track].secs[all[k].id]
  <2>1. CASE k <= l
    <3>1. k \in 1 .. l /\ all[k] = a[k] /\ more[k] = c[k]
      BY <1>3, <1>10, <1>11, <1>12, <2>1
    <3> QED
      BY <1>3, <3>1
  <2>2. CASE ~(k <= l)
    <3>1. PICK j : j = k - l
      OBVIOUS
    <3>2. j \in 1 .. m
      BY <1>3, <1>4, <1>5, <2>2, <3>1
    <3>3. all[k] = b[j] /\ more[k] = d[j]
      BY <1>10, <1>11, <2>2, <3>1
    <3> QED
      BY <1>4, <3>2, <3>3
  <2> QED
    BY <2>1, <2>2
<1>14. [k \in 1 .. n |-> others[more[k].track].secs[more[k].id]]
         = [k \in 1 .. n |-> tracks[all[k].track].secs[all[k].id]]
  BY <1>13
<1> QED
  BY <1>6, <1>7, <1>12, <1>14 DEF Track0

\* What the tool refuses to cut off is what is not zero.
Empty(rec) ==
  \A k \in DOMAIN rec.secs :
    rec.secs[k].type = 0 \/ \A c \in DOMAIN rec.secs[k].cells : rec.secs[k].cells[c] = Zero

LEMMA EmptyPayload ==
  ASSUME NEW rec, RecordOK(rec), Empty(rec), NEW k \in DOMAIN rec.map
  PROVE  Payload(rec, k) = [c \in 1 .. rec.size |-> Zero]
<1>1. PICK sec, n : sec = rec.secs[k] /\ n = rec.size
  OBVIOUS
<1>2. /\ sec.type \in {1, 3, 5, 7} => sec.cells \in [1 .. n -> Values]
      /\ sec.type \in {2, 4, 6, 8} => sec.cells \in [1 .. 1 -> Values]
      /\ sec.type \in 0 .. 8
      /\ sec.type = 0 \/ \A c \in DOMAIN sec.cells : sec.cells[c] = Zero
  BY <1>1 DEF RecordOK, Empty
<1>3. CASE sec.type = 0
  BY <1>1, <1>3 DEF Payload
<1>4. CASE sec.type \in {1, 3, 5, 7}
  <2>1. PICK cells : cells = sec.cells
    OBVIOUS
  <2>2. sec.type # 0
    BY <1>4
  <2>3. cells \in [1 .. n -> Values] /\ \A c \in DOMAIN cells : cells[c] = Zero
    BY <1>2, <1>4, <2>1, <2>2
  <2>4. cells = [c \in 1 .. n |-> Zero]
    BY ONLY <2>3
  <2> QED
    BY <1>1, <1>4, <2>1, <2>4 DEF Payload
<1>5. CASE sec.type \in {2, 4, 6, 8}
  <2>1. sec.cells[1] = Zero
    BY <1>2, <1>5
  <2> QED
    BY <1>1, <1>5, <2>1 DEF Payload
<1> QED
  BY <1>2, <1>3, <1>4, <1>5

LEMMA EmptyTail ==
  ASSUME NEW file, FileOK(file), Regular(file), NEW limit \in Nat,
         \A t \in DOMAIN file : file[t].cyl >= limit => Empty(file[t]),
         NEW area, area = View(ReadImd(file)).area, NEW i \in Indices,
         ~(1 + i \div PerCyl < limit), area[i] # Nothing
  PROVE  \A c \in 1 .. Len(area[i]) : area[i][c] = Zero
<1>1. PICK tracks : tracks = ReadImd(file)
  OBVIOUS
<1>2. DiskOK(tracks) /\ Regular(tracks)
  BY <1>1, ReadOK, ReadRegular
<1>3. i \in Nat /\ PerCyl \in Nat \ {0}
  BY SptIsEven, CylindersNat DEF Indices, PerCyl, Heads
<1>4. Exists(tracks, i) /\ area[i] = ReadSector(tracks, i)
  BY <1>1, <1>2, AreaAt, ViewIs
<1>5. PICK t, id : t = Loc(tracks, i).track /\ id = Loc(tracks, i).id
  OBVIOUS
<1>6. t \in DOMAIN tracks /\ id \in DOMAIN tracks[t].secs /\ tracks[t].cyl = 1 + i \div PerCyl
  BY <1>2, <1>3, <1>4, <1>5, LocAt
<1>7. PICK rec : rec = file[t]
  OBVIOUS
<1>8. t \in DOMAIN file /\ rec.cyl = 1 + i \div PerCyl /\ tracks[t].secs = Contents(rec)
  BY <1>1, <1>6, <1>7, ReadAt
<1>9. i \div PerCyl \in Nat
  BY <1>3, DivMod
<1>10. RecordOK(rec) /\ Empty(rec)
  <2>1. rec.cyl >= limit
    BY <1>8, <1>9
  <2> QED
    BY <1>7, <1>8, <2>1 DEF FileOK
<1>11. PICK k, n : k = Position(rec, id) /\ n = rec.size
  OBVIOUS
<1>12. id \in Ids(rec) /\ Contents(rec)[id] = Payload(rec, k)
  BY <1>6, <1>8, <1>11 DEF Contents
<1>13. k \in DOMAIN rec.map /\ n \in Nat
  BY <1>10, <1>11, <1>12, PositionIs DEF RecordOK
<1>14. Payload(rec, k) = [c \in 1 .. n |-> Zero]
  BY <1>10, <1>11, <1>13, EmptyPayload
<1>15. area[i] = [c \in 1 .. n |-> Zero]
  BY <1>4, <1>5, <1>8, <1>12, <1>14 DEF ReadSector
<1>16. Len(area[i]) = n
  <2>1. [c \in 1 .. n |-> Zero] \in [1 .. n -> {Zero}]
    OBVIOUS
  <2> QED
    BY <1>13, <1>15, <2>1, FcnIsSeq
<1> QED
  BY <1>15, <1>16

\* What the abstract disk makes of a copy without its last cylinders.
TrimOf(image, limit) ==
  [track0 |-> image.track0,
   area   |-> [i \in Indices |-> IF 1 + i \div PerCyl < limit THEN image.area[i] ELSE Nothing]]

LEMMA TrimMeans ==
  ASSUME NEW file, FileOK(file), Regular(file), NEW limit \in Nat, 0 < limit,
         NEW kept, kept = Below(file, limit)
  PROVE  Regular(kept) /\ View(ReadImd(kept)) = TrimOf(View(ReadImd(file)), limit)
<1>1. PICK tracks, others : tracks = ReadImd(file) /\ others = ReadImd(kept)
  OBVIOUS
<1>2. Regular(kept) /\ Shorter(tracks, others, limit)
  BY <1>1, BelowShorter
<1>3. Track0(others) = Track0(tracks)
  BY <1>2, ShorterTrack0
<1>4. PICK cut : cut = [i \in Indices |-> IF 1 + i \div PerCyl < limit
                                          THEN View(tracks).area[i] ELSE Nothing]
  OBVIOUS
<1>5. ASSUME NEW i \in Indices
      PROVE  View(others).area[i] = cut[i]
  <2>1. View(others).area[i] = IF 1 + i \div PerCyl < limit THEN View(tracks).area[i] ELSE Nothing
    BY <1>2, ShorterArea
  <2>2. cut[i] = IF 1 + i \div PerCyl < limit THEN View(tracks).area[i] ELSE Nothing
    BY <1>4
  <2> QED
    BY <2>1, <2>2
<1>6. View(others).area = cut
  <2>1. View(others).area = [i \in Indices |-> View(others).area[i]]
    BY ViewIs
  <2>2. cut = [i \in Indices |-> cut[i]]
    BY <1>4
  <2> QED
    BY <1>5, <2>1, <2>2
<1>7. View(others) = [track0 |-> Track0(tracks), area |-> cut]
  BY <1>3, <1>6, ViewIs
<1>8. View(tracks).track0 = Track0(tracks)
  BY ViewIs
<1>9. TrimOf(View(tracks), limit) = [track0 |-> Track0(tracks), area |-> cut]
  BY <1>4, <1>8 DEF TrimOf
<1> QED
  BY <1>1, <1>2, <1>7, <1>9
------------------------------------------------------------------------------
(* The image in memory and the files implement plain arrays of sectors.     *)

RegularOnly ==
  /\ \A n \in Names : files[n] # Nothing => Regular(files[n])
  /\ disk # Nothing => Regular(disk)

Shown == array = IF disk = Nothing THEN Nothing ELSE View(disk)

\* What the steps go from.
Linked == Standing /\ RegularOnly /\ Shown

LEMMA LinkStarts == Init => Linked /\ Linear!Init
<1> SUFFICES ASSUME Init
             PROVE  Linked /\ Linear!Init
  OBVIOUS
<1>1. PICK image \in Images : files \in {[n \in Names |-> IF n = m THEN image ELSE Nothing] :
                                           m \in Names}
  BY DEF Init
<1>2. PICK m \in Names : files = [n \in Names |-> IF n = m THEN image ELSE Nothing]
  BY <1>1
<1>3. \A n \in Names : files[n] # Nothing => Regular(files[n])
  BY <1>2, RegularImages
<1>4. disk = Nothing /\ array = Nothing
  BY DEF Init
<1>5. Standing
  BY Starts
<1> QED
  BY <1>3, <1>4, <1>5 DEF Linked, RegularOnly, Shown, Linear!Init

\* What a step shows.
LEMMA WatchShows ==
  ASSUME Linked, Watch, Standing'
  PROVE  /\ Shown'
         /\ DOMAIN files = Names
         /\ arrays = [n \in Names |-> ViewOf(files[n])]
         /\ arrays' = [n \in Names |-> ViewOf(files'[n])]
<1>1. array' = IF disk' = Nothing THEN Nothing ELSE IF disk' = disk THEN array ELSE View(disk')
  BY DEF Watch
<1>2. Shown
  BY DEF Linked
<1>3. Shown'
  BY <1>1, <1>2 DEF Shown
<1> QED
  BY <1>3 DEF Linked, Standing, FilesStand

LEMMA FileShown ==
  ASSUME NothingIsApart, NEW file, FileOK(file)
  PROVE  /\ file # Nothing /\ ViewOf(file) = View(ReadImd(file))
         /\ View(ReadImd(file)) # Nothing /\ ReadImd(file) # Nothing
<1>1. file # Nothing
  BY DEF NothingIsApart, FileOK
<1>2. DiskOK(ReadImd(file))
  BY ReadOK
<1> QED
  BY <1>1, <1>2, DiskIsSome DEF ViewOf

LEMMA OpenLinks ==
  ASSUME NothingIsApart, Linked, Standing', NEW n \in Names, Open(n)
  PROVE  Linked' /\ Linear!Open(n)
<1>1. PICK file : file = files[n]
  OBVIOUS
<1>2. /\ disk = Nothing /\ file # Nothing /\ files' = files /\ disk' = ReadImd(file) /\ Watch
  BY <1>1 DEF Open
<1>3. FileOK(file) /\ Regular(file)
  BY <1>1, <1>2 DEF Linked, Standing, FilesStand, RegularOnly
<1>4. Regular(ReadImd(file))
  BY <1>3, ReadRegular
<1>5. RegularOnly'
  BY <1>2, <1>4 DEF Linked, RegularOnly
<1>6. /\ Shown' /\ arrays = [m \in Names |-> ViewOf(files[m])]
      /\ arrays' = [m \in Names |-> ViewOf(files'[m])]
  BY <1>2, WatchShows
<1>7. arrays' = arrays
  BY <1>2, <1>6
<1>8. arrays[n] = View(ReadImd(file)) /\ arrays[n] # Nothing /\ disk' # Nothing
  BY <1>1, <1>2, <1>3, <1>6, FileShown
<1>9. array = Nothing /\ array' = View(ReadImd(file))
  BY <1>2, <1>6, <1>8 DEF Linked, Shown
<1>10. Linear!Open(n)
  BY <1>7, <1>8, <1>9 DEF Linear!Open
<1> QED
  BY <1>5, <1>6, <1>10 DEF Linked

LEMMA WriteLinks ==
  ASSUME NothingIsApart, Linked, Standing', NEW w \in Writes, Write(w[1], w[2])
  PROVE  Linked' /\ Linear!Write(w[1], w[2])
<1>1. PICK index, data : index = w[1] /\ data = w[2]
  OBVIOUS
<1>2. /\ disk # Nothing /\ files' = files /\ disk' = Written(disk, index, data) /\ Watch
  BY <1>1 DEF Write
<1>3. index \in Indices /\ data \in Seq(Values)
  BY <1>1, ValuesAssumption
<1>4. DiskOK(disk) /\ Regular(disk)
  BY <1>2 DEF Linked, Standing, RegularOnly
<1>5. PICK new : new = disk'
  OBVIOUS
<1>6. \/ new = Nothing /\ AfterWrite(View(disk), index, data) = Nothing
      \/ /\ new # Nothing /\ Regular(new)
         /\ View(new) = AfterWrite(View(disk), index, data)
  BY <1>2, <1>3, <1>4, <1>5, WriteMeans
<1>7. RegularOnly'
  BY <1>2, <1>5, <1>6 DEF Linked, RegularOnly
<1>8. /\ Shown' /\ arrays = [m \in Names |-> ViewOf(files[m])]
      /\ arrays' = [m \in Names |-> ViewOf(files'[m])]
  BY <1>2, WatchShows
<1>9. arrays' = arrays
  BY <1>2, <1>8
<1>10. array = View(disk) /\ array # Nothing
  BY <1>2, <1>4, DiskIsSome DEF Linked, Shown
<1>11. array' = AfterWrite(array, index, data)
  BY <1>5, <1>6, <1>8, <1>10 DEF Shown
<1>12. Linear!Write(index, data)
  BY <1>9, <1>10, <1>11 DEF Linear!Write, AfterWrite, Hit
<1> QED
  BY <1>1, <1>7, <1>8, <1>12 DEF Linked

LEMMA SetLinks ==
  ASSUME NothingIsApart, Linked, Standing', NEW data \in Headers, SetTrack0(data)
  PROVE  Linked' /\ Linear!SetTrack0(data)
<1>1. /\ disk # Nothing /\ files' = files /\ disk' = WithTrack0(disk, data) /\ Watch
      /\ Len(data) = Len(Track0(disk)) /\ data \in Seq(Values)
  BY ValuesAssumption DEF SetTrack0
<1>2. DiskOK(disk) /\ Regular(disk)
  BY <1>1 DEF Linked, Standing, RegularOnly
<1>3. PICK new : new = disk'
  OBVIOUS
<1>4. DiskOK(new) /\ Regular(new) /\ View(new) = [View(disk) EXCEPT !.track0 = data]
  BY <1>1, <1>2, <1>3, SetMeans
<1>5. new # Nothing
  BY <1>4, DiskIsSome
<1>6. RegularOnly'
  BY <1>1, <1>3, <1>4 DEF Linked, RegularOnly
<1>7. /\ Shown' /\ arrays = [m \in Names |-> ViewOf(files[m])]
      /\ arrays' = [m \in Names |-> ViewOf(files'[m])]
  BY <1>1, WatchShows
<1>8. arrays' = arrays
  BY <1>1, <1>7
<1>9. array = View(disk) /\ array # Nothing
  BY <1>1, <1>2, DiskIsSome DEF Linked, Shown
<1>10. array' = [array EXCEPT !.track0 = data]
  BY <1>3, <1>4, <1>5, <1>7, <1>9 DEF Shown
<1>11. Len(data) = Len(array.track0)
  BY <1>1, <1>9, ViewIs
<1>12. Linear!SetTrack0(data)
  BY <1>8, <1>9, <1>10, <1>11 DEF Linear!SetTrack0
<1> QED
  BY <1>6, <1>7, <1>12 DEF Linked

\* A step that makes one file and leaves the image alone.
LEMMA NewFile ==
  ASSUME NothingIsApart, Linked, Standing', Watch, disk' = disk, NEW m \in Names,
         NEW file, FileOK(file), Regular(file), files' = [files EXCEPT ![m] = file]
  PROVE  Linked' /\ array' = array /\ arrays' = [arrays EXCEPT ![m] = View(ReadImd(file))]
<1>1. /\ Shown' /\ DOMAIN files = Names /\ arrays = [n \in Names |-> ViewOf(files[n])]
      /\ arrays' = [n \in Names |-> ViewOf(files'[n])]
  BY WatchShows
<1>2. Shown
  BY DEF Linked
<1>3. array' = array
  BY <1>1, <1>2 DEF Shown
<1>4. ViewOf(file) = View(ReadImd(file))
  BY FileShown
<1>5. RegularOnly'
  BY <1>1 DEF Linked, RegularOnly
<1>6. PICK next : next = [arrays EXCEPT ![m] = View(ReadImd(file))]
  OBVIOUS
<1>7. ASSUME NEW n \in Names
      PROVE  ViewOf(files'[n]) = next[n]
  <2>1. CASE n = m
    <3>1. files'[n] = file
      BY <1>1, <2>1
    <3> QED
      BY <1>1, <1>4, <1>6, <2>1, <3>1
  <2>2. CASE n # m
    <3>1. files'[n] = files[n]
      BY <1>1, <2>2
    <3> QED
      BY <1>1, <1>6, <2>2, <3>1
  <2> QED
    BY <2>1, <2>2
<1>8. next = [n \in Names |-> next[n]]
  BY <1>1, <1>6
<1>9. arrays' = next
  BY <1>1, <1>7, <1>8
<1> QED
  BY <1>1, <1>3, <1>5, <1>6, <1>9 DEF Linked

LEMMA SaveLinks ==
  ASSUME NothingIsApart, Linked, Standing', NEW n \in Names, Save(n)
  PROVE  Linked' /\ Linear!Save(n)
<1>1. PICK file : file = [t \in DOMAIN disk |-> SavedTrack(disk[t])]
  OBVIOUS
<1>2. disk # Nothing /\ disk' = disk /\ files' = [files EXCEPT ![n] = file] /\ Watch
  BY <1>1 DEF Save
<1>3. DiskOK(disk) /\ Regular(disk)
  BY <1>2 DEF Linked, Standing, RegularOnly
<1>4. FileOK(file) /\ Regular(file) /\ View(ReadImd(file)) = View(disk)
  BY <1>1, <1>3, SaveOK, SaveMeans
<1>5. Linked' /\ array' = array /\ arrays' = [arrays EXCEPT ![n] = View(ReadImd(file))]
  BY <1>2, <1>4, NewFile
<1>6. array = View(disk) /\ array # Nothing
  BY <1>2, <1>3, DiskIsSome DEF Linked, Shown
<1> QED
  BY <1>4, <1>5, <1>6 DEF Linear!Save

LEMMA CloseLinks ==
  ASSUME Linked, Standing', Close
  PROVE  Linked' /\ Linear!Close
<1>1. disk' = Nothing /\ files' = files /\ Watch
  BY DEF Close
<1>2. RegularOnly'
  BY <1>1 DEF Linked, RegularOnly
<1>3. /\ Shown' /\ arrays = [m \in Names |-> ViewOf(files[m])]
      /\ arrays' = [m \in Names |-> ViewOf(files'[m])]
  BY <1>1, WatchShows
<1>4. arrays' = arrays /\ array' = Nothing
  BY <1>1, <1>3 DEF Shown
<1> QED
  BY <1>2, <1>3, <1>4 DEF Linked, Linear!Close

LEMMA SourceShown ==
  ASSUME NothingIsApart, Linked, NEW source \in Names, files[source] # Nothing,
         NEW target \in Names, files[target] = Nothing,
         NEW file, file = files[source]
  PROVE  /\ FileOK(file) /\ Regular(file)
         /\ arrays[source] = View(ReadImd(file)) /\ arrays[source] # Nothing
         /\ arrays[target] = Nothing
<1>1. FileOK(file) /\ Regular(file)
  BY DEF Linked, Standing, FilesStand, RegularOnly
<1>2. arrays = [n \in Names |-> ViewOf(files[n])]
  BY DEF Linked, Standing, FilesStand
<1>3. arrays[target] = Nothing
  BY <1>2 DEF ViewOf
<1>4. arrays[source] = ViewOf(file)
  BY <1>2
<1> QED
  BY <1>1, <1>3, <1>4, FileShown

LEMMA TrimLinks ==
  ASSUME NothingIsApart, Linked, Standing', NEW source \in Names, NEW target \in Names,
         NEW limit \in Limits, Trim(source, target, limit)
  PROVE  Linked' /\ Linear!Trim(source, target, limit)
<1>1. PICK file, kept : file = files[source] /\ kept = Below(files[source], limit)
  OBVIOUS
<1>2. /\ files[source] # Nothing /\ files[target] = Nothing /\ disk' = disk /\ Watch
      /\ files' = [files EXCEPT ![target] = kept]
      /\ \A t \in DOMAIN file : file[t].cyl >= limit => Empty(file[t])
  BY <1>1 DEF Trim, Empty
<1>3. limit \in Nat /\ 0 < limit
  BY CylindersNat DEF Limits
<1>4. /\ FileOK(file) /\ Regular(file)
      /\ arrays[source] = View(ReadImd(file)) /\ arrays[source] # Nothing
      /\ arrays[target] = Nothing
  BY <1>1, <1>2, SourceShown
<1>5. FileOK(kept) /\ Regular(kept) /\ View(ReadImd(kept)) = TrimOf(arrays[source], limit)
  BY <1>1, <1>3, <1>4, BelowOK, TrimMeans
<1>6. Linked' /\ array' = array /\ arrays' = [arrays EXCEPT ![target] = TrimOf(arrays[source], limit)]
  BY <1>2, <1>5, NewFile
<1>7. PICK area : area = arrays[source].area
  OBVIOUS
<1>8. ASSUME NEW i \in Indices
      PROVE  \/ 1 + i \div PerCyl < limit \/ area[i] = Nothing
             \/ \A c \in 1 .. Len(area[i]) : area[i][c] = Zero
  BY <1>2, <1>3, <1>4, <1>7, EmptyTail
<1> QED
  BY <1>4, <1>6, <1>7, <1>8 DEF Linear!Trim, TrimOf

LEMMA BlankLinks ==
  ASSUME NothingIsApart, Linked, Standing', NEW source \in Names, NEW target \in Names,
         Blank(source, target)
  PROVE  Linked' /\ Linear!Blank(source, target)
<1>1. PICK file, tracks : file = files[source] /\ tracks = ReadImd(files[source])
  OBVIOUS
<1>2. PICK blank : blank = [t \in DOMAIN tracks |-> BlankTrack(tracks[t])]
  OBVIOUS
<1>3. /\ files[source] # Nothing /\ files[target] = Nothing /\ disk' = disk /\ Watch
      /\ files' = [files EXCEPT ![target] = blank]
  BY <1>1, <1>2 DEF Blank
<1>4. /\ FileOK(file) /\ Regular(file)
      /\ arrays[source] = View(tracks) /\ arrays[source] # Nothing
      /\ arrays[target] = Nothing
  BY <1>1, <1>3, SourceShown
<1>5. DiskOK(tracks) /\ Regular(tracks)
  BY <1>1, <1>4, ReadOK, ReadRegular
<1>6. FileOK(blank) /\ Regular(blank) /\ View(ReadImd(blank)) = BlankOf(arrays[source])
  BY <1>2, <1>4, <1>5, SaveOK, BlankMeans
<1>7. Linked' /\ array' = array /\ arrays' = [arrays EXCEPT ![target] = BlankOf(arrays[source])]
  BY <1>3, <1>6, NewFile
<1> QED
  BY <1>4, <1>7 DEF Linear!Blank, BlankOf

LEMMA StepsLink ==
  ASSUME NothingIsApart, Linked, [Next]_vars
  PROVE  Linked' /\ [Linear!Next]_(Linear!vars)
<1>1. Standing'
  BY StandsOn DEF Linked
<1>2. ASSUME NEW n \in Names, Open(n)
      PROVE  Linked' /\ Linear!Next
  BY <1>1, <1>2, OpenLinks DEF Linear!Next
<1>3. ASSUME NEW n \in Names, Save(n)
      PROVE  Linked' /\ Linear!Next
  BY <1>1, <1>3, SaveLinks DEF Linear!Next
<1>4. ASSUME NEW w \in Writes, Write(w[1], w[2])
      PROVE  Linked' /\ Linear!Next
  BY <1>1, <1>4, WriteLinks DEF Linear!Next
<1>5. ASSUME NEW data \in Headers, SetTrack0(data)
      PROVE  Linked' /\ Linear!Next
  BY <1>1, <1>5, SetLinks DEF Linear!Next
<1>6. ASSUME Close
      PROVE  Linked' /\ Linear!Next
  BY <1>1, <1>6, CloseLinks DEF Linear!Next
<1>7. ASSUME NEW source \in Names, NEW target \in Names, NEW limit \in Limits,
             Trim(source, target, limit)
      PROVE  Linked' /\ Linear!Next
  BY <1>1, <1>7, TrimLinks DEF Linear!Next
<1>8. ASSUME NEW source \in Names, NEW target \in Names, Blank(source, target)
      PROVE  Linked' /\ Linear!Next
  BY <1>1, <1>8, BlankLinks DEF Linear!Next
<1>9. CASE UNCHANGED vars
  BY <1>1, <1>9 DEF vars, Linked, RegularOnly, Shown, Linear!vars
<1> QED
  BY <1>2, <1>3, <1>4, <1>5, <1>6, <1>7, <1>8, <1>9 DEF Next

\* Opening, writing, saving, trimming and blanking do to the images what they do
\* to plain arrays of sectors, for every set of images that hold each track once
\* with data sectors of one size, if Nothing is told from an image.
THEOREM ImplementsLinearDisk == NothingIsApart => (Spec => LinearSpec)
<1> SUFFICES ASSUME NothingIsApart
             PROVE  Spec => LinearSpec
  OBVIOUS
<1>1. Init => Linked /\ Linear!Init
  BY LinkStarts
<1>2. Linked /\ [Next]_vars => Linked' /\ [Linear!Next]_(Linear!vars)
  BY StepsLink
<1>3. Spec => Linear!Spec
  BY <1>1, <1>2, PTL DEF Spec, Linear!Spec
<1> QED
  BY <1>3 DEF LinearSpec
==============================================================================
