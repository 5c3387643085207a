---------------------------- MODULE LibraryProofs ----------------------------
(***************************************************************************)
(* Lemmas about the images of system disks, and about what the scripts of   *)
(* Surgery make of them: a directory and modules that fit together (Laid)   *)
(* are read as what they are, and still fit together when modules were      *)
(* copied over others (Swap), sub-modules exchanged (Exchange), or modules  *)
(* added and listed (Filed).  They hold for any originals that are as       *)
(* OriginalsAssumption says, any sizes, any modules to copy and any lists   *)
(* of sub-modules.                                                          *)
(***************************************************************************)
EXTENDS Surgery, FiniteSetTheorems, SequenceTheorems, WellFoundedInduction, NaturalsInduction,
        TLAPS

(* Numbers.                                                                 *)

Less == {p \in Nat \X Nat : p[1] < p[2]}

LEMMA LessWellFounded == IsWellFoundedOn(Less, Nat)
<1>1. Less = OpToRel(<, Nat)
  BY Zenon DEF Less, OpToRel
<1> QED
  BY <1>1, NatLessThanWellFounded

LEMMA Least ==
  ASSUME NEW S \in SUBSET Nat, S # {}
  PROVE  \E n \in S : \A m \in S : n <= m
<1>1. PICK n \in S : \A m \in S : <<m, n>> \notin Less
  BY LessWellFounded, WFMin
<1>2. ASSUME NEW m \in S
      PROVE  n <= m
  <2>1. <<m, n>> \in Nat \X Nat
    OBVIOUS
  <2>2. ~(m < n)
    BY <1>1, <2>1 DEF Less
  <2> QED
    BY <2>2
<1> QED
  BY <1>2

LEMMA MinOf ==
  ASSUME NEW S \in SUBSET Nat, S # {}
  PROVE  Min(S) \in S /\ \A m \in S : Min(S) <= m
  BY Least DEF Min

LEMMA MaxOf ==
  ASSUME NEW n \in Nat, NEW S \in SUBSET (0 .. n), S # {}
  PROVE  Max(S) \in S /\ \A m \in S : m <= Max(S)
<1>1. PICK T : T = {m \in Nat : \A j \in S : j <= m}
  OBVIOUS
<1>2. n \in T /\ T \in SUBSET Nat
  BY <1>1
<1>3. PICK m \in T : \A k \in T : m <= k
  BY <1>2, Least
<1>4. m \in Nat /\ \A j \in S : j <= m
  BY <1>1
<1>5. ASSUME m \notin S
      PROVE  FALSE
  <2>1. PICK s \in S : TRUE
    OBVIOUS
  <2>2. m - 1 \in Nat
    BY <1>4, <1>5, <2>1
  <2>3. \A j \in S : j <= m - 1
    BY <1>4, <1>5
  <2>4. m <= m - 1
    BY <1>1, <1>3, <2>2, <2>3
  <2> QED
    BY <1>4, <2>4
<1>6. \A j \in S : m >= j
  BY <1>4
<1>7. \E x \in S : \A y \in S : x >= y
  BY <1>5, <1>6
<1>8. Max(S) \in S /\ \A y \in S : Max(S) >= y
  BY <1>7 DEF Max
<1> QED
  BY <1>8

LEMMA MaxOne ==
  ASSUME NEW n \in Nat
  PROVE  Max({n}) = n
<1>1. \E x \in {n} : \A y \in {n} : x >= y
  OBVIOUS
<1>2. Max({n}) \in {n}
  BY <1>1 DEF Max
<1> QED
  BY <1>2

LEMMA DivMod ==
  ASSUME NEW n \in Nat, NEW d \in Nat \ {0}
  PROVE  /\ n \div d \in Nat /\ n % d \in 0 .. d - 1
         /\ n = (n \div d) * d + (n % d)
OBVIOUS

LEMMA Steps ==
  ASSUME NEW d \in Nat, NEW p \in Nat, NEW q \in Nat, p < q
  PROVE  p * d + d <= q * d
<1>1. PICK e \in Nat : q = p + 1 + e
  <2>1. q - p - 1 \in Nat /\ q = p + 1 + (q - p - 1)
    OBVIOUS
  <2> QED BY <2>1
<1>2. q * d = p * d + d + e * d
  BY <1>1
<1>3. e * d \in Nat /\ p * d \in Nat
  OBVIOUS
<1> QED BY <1>2, <1>3

LEMMA OneWay ==
  ASSUME NEW d \in Nat \ {0}, NEW p \in Nat, NEW q \in Nat,
         NEW r \in 0 .. d - 1, NEW s \in 0 .. d - 1, p * d + r = q * d + s
  PROVE  p = q /\ r = s
<1>0. p * d \in Nat /\ q * d \in Nat
  OBVIOUS
<1>1. CASE p < q
  <2>1. p * d + d <= q * d
    BY <1>1, Steps
  <2> QED BY <1>0, <2>1
<1>2. CASE q < p
  <2>1. q * d + d <= p * d
    BY <1>2, Steps
  <2> QED BY <1>0, <2>1
<1> QED BY <1>0, <1>1, <1>2

LEMMA DivIs ==
  ASSUME NEW d \in Nat \ {0}, NEW q \in Nat, NEW r \in 0 .. d - 1,
         NEW n, n = q * d + r
  PROVE  n \in Nat /\ n \div d = q /\ n % d = r
<1>1. n \in Nat
  OBVIOUS
<1>2. n \div d \in Nat /\ n % d \in 0 .. d - 1 /\ n = (n \div d) * d + (n % d)
  BY <1>1, DivMod
<1>3. q * d + r = (n \div d) * d + (n % d)
  BY <1>2
<1>4. q = n \div d /\ r = n % d
  BY <1>2, <1>3, OneWay
<1> QED BY <1>1, <1>4

LEMMA FcnIsSeq ==
  ASSUME NEW S, NEW n \in Nat, NEW s \in [1 .. n -> S]
  PROVE  s \in Seq(S) /\ Len(s) = n
<1>1. s \in Seq(S)
  BY SeqDef
<1>2. PICK m : m = Len(s)
  OBVIOUS
<1>3. m \in Nat /\ DOMAIN s = 1 .. m
  BY <1>1, <1>2, LenProperties
<1>4. \A i \in Nat : i \in 1 .. m <=> i \in 1 .. n
  BY <1>3
<1>5. m <= n /\ n <= m
  BY <1>3, <1>4
<1> QED
  BY <1>1, <1>2, <1>3, <1>5

LEMMA Between ==
  ASSUME NEW n \in Counts
  PROVE  n \in Nat /\ n >= 4 /\ n <= 1024
BY DEF Counts

LEMMA IsCount ==
  ASSUME NEW n \in Nat, n >= 4, n <= 1024
  PROVE  n \in Counts
BY DEF Counts

(* Sectors.                                                                 *)

LEMMA Product ==
  ASSUME NEW p \in Nat, NEW q \in Nat
  PROVE  /\ p * Sector \in Nat
         /\ p < q => p * Sector + Sector <= q * Sector
         /\ p <= q => p * Sector <= q * Sector
         /\ p * Sector < q * Sector <=> p < q
         /\ p * Sector = q * Sector <=> p = q
         /\ (p + q) * Sector = p * Sector + q * Sector
<1>0. Sector \in Nat \ {0}
  BY GeometryAssumption
<1>1. p * Sector \in Nat /\ q * Sector \in Nat
  BY <1>0
<1>2. p < q => p * Sector + Sector <= q * Sector
  BY <1>0, Steps
<1>3. q < p => q * Sector + Sector <= p * Sector
  BY <1>0, Steps
<1>4. (p + q) * Sector = p * Sector + q * Sector
  BY <1>0
<1> QED
  BY <1>0, <1>1, <1>2, <1>3, <1>4

LEMMA SectorsOfIs ==
  ASSUME NEW n \in Nat
  PROVE  /\ SectorsOf(n) \in Nat \ {0}
         /\ n < SectorsOf(n) * Sector
         /\ \A m \in Nat : m <= n => SectorsOf(m) <= SectorsOf(n)
<1>0. Sector \in Nat \ {0}
  BY GeometryAssumption
<1> DEFINE Q(m) == (m + Sector - 1) \div Sector
<1>1. ASSUME NEW m \in Nat
      PROVE  /\ Q(m) \in Nat /\ m <= Q(m) * Sector /\ Q(m) * Sector < m + Sector
             /\ Q(m) * Sector \in Nat
  <2>1. PICK k : k = m + Sector - 1
    OBVIOUS
  <2>2. k \in Nat
    BY <1>0, <2>1
  <2>3. /\ k \div Sector \in Nat /\ k % Sector \in 0 .. Sector - 1
        /\ k = (k \div Sector) * Sector + (k % Sector)
    BY <1>0, <2>2, DivMod
  <2>4. (k \div Sector) * Sector \in Nat
    BY <1>0, <2>3
  <2>5. m <= (k \div Sector) * Sector /\ (k \div Sector) * Sector < m + Sector
    BY <1>0, <2>1, <2>3, <2>4
  <2> QED
    BY <2>1, <2>3, <2>4, <2>5
<1>2. \A m \in Nat : SectorsOf(m) = 1 + Q(m)
  BY DEF SectorsOf
<1>3. SectorsOf(n) \in Nat \ {0}
  BY <1>1, <1>2
<1>4. SectorsOf(n) * Sector = Sector + Q(n) * Sector
  <2>1. Q(n) \in Nat /\ SectorsOf(n) = 1 + Q(n)
    BY <1>1, <1>2
  <2> HIDE DEF Q
  <2> QED
    BY <1>0, <2>1
<1>5. n < SectorsOf(n) * Sector
  <2>1. n <= Q(n) * Sector /\ Q(n) * Sector \in Nat
    BY <1>1
  <2> HIDE DEF Q
  <2> QED
    BY <1>0, <1>4, <2>1
<1>6. ASSUME NEW m \in Nat, m <= n
      PROVE  SectorsOf(m) <= SectorsOf(n)
  <2>1. /\ Q(m) \in Nat /\ Q(m) * Sector < m + Sector /\ Q(m) * Sector \in Nat
        /\ Q(n) \in Nat /\ n <= Q(n) * Sector /\ Q(n) * Sector \in Nat
    BY <1>1
  <2>2. SectorsOf(m) = 1 + Q(m) /\ SectorsOf(n) = 1 + Q(n)
    BY <1>2
  <2> HIDE DEF Q
  <2>3. Q(n) < Q(m) => Q(n) * Sector + Sector <= Q(m) * Sector
    BY <2>1, Product
  <2> QED
    BY <1>0, <1>6, <2>1, <2>2, <2>3
<1> QED
  BY <1>3, <1>5, <1>6

LEMMA AreaSize ==
  ASSUME NEW n \in Nat, NEW data, DOMAIN data = 0 .. n * Sector - 1
  PROVE  nsec(data) = n /\ Cardinality(DOMAIN data) = n * Sector
<1>0. Sector \in Nat \ {0} /\ n * Sector \in Nat
  BY GeometryAssumption, Product
<1>1. PICK t : t = n * Sector
  OBVIOUS
<1>2. Cardinality(0 .. t - 1) = t
  <2>1. CASE t = 0
    <3>1. 0 .. t - 1 = {}
      BY <2>1
    <3> QED BY <2>1, <3>1, FS_EmptySet
  <2>2. CASE t # 0
    <3>1. 0 \in Int /\ t - 1 \in Int /\ ~(0 > t - 1)
      BY <1>0, <1>1, <2>2
    <3>2. Cardinality(0 .. t - 1) = (t - 1) - 0 + 1
      BY <3>1, FS_Interval
    <3> QED BY <1>0, <1>1, <3>2
  <2> QED BY <2>1, <2>2
<1>3. Cardinality(DOMAIN data) = t
  BY <1>1, <1>2
<1>4. t \div Sector = n
  <2>1. t = n * Sector + 0 /\ 0 \in 0 .. Sector - 1
    BY <1>0, <1>1
  <2> QED BY ONLY <1>0, <2>1, DivIs, n \in Nat
<1> QED
  BY <1>1, <1>3, <1>4 DEF nsec

(* Disks as they are laid out.                                              *)

\* The cells of the module at sector i.
Cells(data, i) == i * Sector .. Behind(data, i) * Sector - 1

\* A module that fits in an area.
HeaderOK(data, i) ==
  /\ i \in Nat /\ i * Sector \in DOMAIN data /\ data[i * Sector].kind = "head"
  /\ data[i * Sector].length \in Nat /\ data[i * Sector].subs \in Seq(1 .. data[i * Sector].length)
  /\ data[i * Sector] = Header(data[i * Sector].name, data[i * Sector].version,
                               data[i * Sector].length, data[i * Sector].subs)
  /\ Behind(data, i) \in Nat /\ i < Behind(data, i) /\ Behind(data, i) <= nsec(data)
  /\ i * Sector + data[i * Sector].length < Behind(data, i) * Sector
  /\ i * Sector \in Cells(data, i)
  /\ Cells(data, i) \subseteq DOMAIN data

LEMMA LaidIs ==
  ASSUME NEW data, NEW di, NEW room, Laid(data, di, room)
  PROVE  /\ nsec(data) \in Nat /\ nsec(data) * Sector \in Nat
         /\ DOMAIN data = 0 .. nsec(data) * Sector - 1
         /\ Cardinality(DOMAIN data) = nsec(data) * Sector
         /\ \A i \in Nat : i * Sector \in DOMAIN data <=> i < nsec(data)
         /\ \A c \in DOMAIN data : CellOK(data[c]) /\ c \in Nat
<1>1. /\ nsec(data) \in Nat /\ data = [c \in 0 .. nsec(data) * Sector - 1 |-> data[c]]
      /\ \A c \in DOMAIN data : CellOK(data[c])
  BY DEF Laid
<1>2. nsec(data) * Sector \in Nat
  BY <1>1, Product
<1>3. DOMAIN data = 0 .. nsec(data) * Sector - 1
  BY <1>1, Zenon
<1>4. Cardinality(DOMAIN data) = nsec(data) * Sector
  BY <1>1, <1>3, AreaSize
<1>5. ASSUME NEW i \in Nat
      PROVE  i * Sector \in DOMAIN data <=> i < nsec(data)
  <2>1. i * Sector \in Nat /\ (i * Sector < nsec(data) * Sector <=> i < nsec(data))
    BY <1>1, Product
  <2> QED
    BY <1>2, <1>3, <2>1
<1>6. \A c \in DOMAIN data : c \in Nat
  BY <1>2, <1>3
<1> QED
  BY <1>1, <1>2, <1>3, <1>4, <1>5, <1>6

LEMMA LaidFcn ==
  ASSUME NEW data, NEW di, NEW room, Laid(data, di, room)
  PROVE  data = [c \in DOMAIN data |-> data[c]]
<1>1. data = [c \in 0 .. nsec(data) * Sector - 1 |-> data[c]]
  BY DEF Laid
<1>2. DOMAIN data = 0 .. nsec(data) * Sector - 1
  BY LaidIs
<1> QED
  BY <1>1, <1>2, Zenon

\* A header of an image whose modules fit.
LEMMA LaidHeader ==
  ASSUME NEW data, NEW di, NEW room, Laid(data, di, room), NEW i \in headers(data)
  PROVE  /\ Behind(data, i) <= nsec(data) /\ (di + room <= i \/ Behind(data, i) <= di)
         /\ data[i * Sector].name \notin Specials \cup Range(Typeable)
BY ONLY Laid(data, di, room), i \in headers(data) DEF Laid

LEMMA HeaderIs ==
  ASSUME NEW data, NEW di, NEW room, Laid(data, di, room), NEW i \in headers(data)
  PROVE  HeaderOK(data, i)
<1>0. Sector \in Nat \ {0}
  BY GeometryAssumption
<1>1. /\ nsec(data) \in Nat /\ nsec(data) * Sector \in Nat
      /\ DOMAIN data = 0 .. nsec(data) * Sector - 1
      /\ \A j \in Nat : j * Sector \in DOMAIN data <=> j < nsec(data)
      /\ \A c \in DOMAIN data : CellOK(data[c])
  BY LaidIs
<1>2. i \in Nat /\ i < nsec(data) /\ data[i * Sector].kind = "head"
  BY <1>1 DEF headers
<1>3. i * Sector \in DOMAIN data
  BY <1>1, <1>2
<1>4. CellOK(data[i * Sector])
  BY <1>1, <1>3
<1>5. PICK h : h = data[i * Sector]
  OBVIOUS
<1>6. CellOK(h) /\ h.kind = "head"
  BY <1>2, <1>4, <1>5
<1>7. h.length \in Nat /\ h.subs \in Seq(1 .. h.length) /\ h = Header(h.name, h.version, h.length, h.subs)
  BY <1>6 DEF CellOK
<1>8. SectorsOf(h.length) \in Nat \ {0} /\ h.length < SectorsOf(h.length) * Sector
  BY <1>7, SectorsOfIs
<1>9. Behind(data, i) = i + SectorsOf(h.length)
  BY <1>5 DEF Behind
<1>10. Behind(data, i) <= nsec(data)
  BY DEF Laid
<1>11. Behind(data, i) \in Nat /\ i < Behind(data, i)
  BY <1>2, <1>8, <1>9
<1>12. Behind(data, i) * Sector = i * Sector + SectorsOf(h.length) * Sector
  BY <1>2, <1>8, <1>9, Product
<1>13. /\ i * Sector \in Nat /\ SectorsOf(h.length) * Sector \in Nat
       /\ Behind(data, i) * Sector <= nsec(data) * Sector
  BY <1>1, <1>2, <1>8, <1>10, <1>11, Product
<1>14. i * Sector + h.length < Behind(data, i) * Sector
  BY <1>7, <1>8, <1>12, <1>13
<1>15. Cells(data, i) \subseteq DOMAIN data /\ i * Sector \in Cells(data, i)
  BY <1>1, <1>7, <1>12, <1>13, <1>14 DEF Cells
<1> QED
  BY <1>2, <1>3, <1>5, <1>7, <1>10, <1>11, <1>14, <1>15 DEF HeaderOK

\* The cells of two modules are apart.
LEMMA Apart ==
  ASSUME NEW data, NEW di, NEW room, Laid(data, di, room),
         NEW i \in headers(data), NEW j \in headers(data), NEW c,
         c \in Cells(data, i), c \in Cells(data, j)
  PROVE  i = j
<1>0. HeaderOK(data, i) /\ HeaderOK(data, j)
  BY HeaderIs
<1>1. i \in Nat /\ j \in Nat /\ Behind(data, i) \in Nat /\ Behind(data, j) \in Nat
  BY <1>0 DEF HeaderOK
<1>2. /\ i < j => Behind(data, i) <= j
      /\ j < i => Behind(data, j) <= i
  BY DEF Laid
<1>3. /\ i < j => Behind(data, i) * Sector <= j * Sector
      /\ j < i => Behind(data, j) * Sector <= i * Sector
  BY <1>1, <1>2, Product
<1>4. /\ i * Sector \in Nat /\ j * Sector \in Nat
      /\ Behind(data, i) * Sector \in Nat /\ Behind(data, j) * Sector \in Nat
  BY <1>1, Product
<1>5. i * Sector <= c /\ c < Behind(data, i) * Sector /\ j * Sector <= c /\ c < Behind(data, j) * Sector /\ c \in Int
  BY <1>4 DEF Cells
<1> QED
  BY <1>1, <1>3, <1>4, <1>5

\* The directory.
LEMMA DirIs ==
  ASSUME NEW data, NEW di, NEW room, Laid(data, di, room)
  PROVE  /\ di \in Nat /\ room \in Nat \ {0} /\ di * Sector \in Nat
         /\ data[di * Sector].start \in Counts
         /\ DirCells(data, di) \subseteq di * Sector .. (di + room) * Sector - 1
         /\ (di + room) * Sector <= nsec(data) * Sector
         /\ DirCells(data, di) \subseteq DOMAIN data
         /\ di * Sector \in DirCells(data, di)
         /\ \A c \in DOMAIN data : data[c].kind = "entry" <=> c \in DirCells(data, di)
<1>0. Sector \in Nat \ {0}
  BY GeometryAssumption
<1>1. /\ di \in Nat /\ room \in Nat \ {0} /\ di + room <= nsec(data)
      /\ data[di * Sector].start \in Counts /\ data[di * Sector].start <= room * Sector
      /\ \A c \in DOMAIN data : data[c].kind = "entry" <=> c \in DirCells(data, di)
  BY DEF Laid
<1>2. /\ nsec(data) \in Nat /\ nsec(data) * Sector \in Nat
      /\ DOMAIN data = 0 .. nsec(data) * Sector - 1
  BY LaidIs
<1>3. /\ di * Sector \in Nat /\ room * Sector \in Nat
      /\ (di + room) * Sector = di * Sector + room * Sector
      /\ (di + room) * Sector <= nsec(data) * Sector
  <2>1. di + room \in Nat
    BY <1>1
  <2> QED BY <1>1, <1>2, <2>1, Product
<1>4. PICK a, n : a = di * Sector /\ n = data[di * Sector].start
  OBVIOUS
<1>5. DirCells(data, di) = a .. a + n - 1
  BY <1>4 DEF DirCells
<1>6. /\ a .. a + n - 1 \subseteq a .. (di + room) * Sector - 1
      /\ a \in a .. a + n - 1 /\ a .. a + n - 1 \subseteq DOMAIN data
  <2>1. /\ a \in Nat /\ n \in Counts /\ n <= room * Sector /\ room * Sector \in Nat
        /\ (di + room) * Sector = a + room * Sector
    BY <1>1, <1>3, <1>4
  <2>2. a + n <= (di + room) * Sector /\ (di + room) * Sector \in Nat
    BY ONLY <2>1, Between
  <2>3. a .. a + n - 1 \subseteq a .. (di + room) * Sector - 1 /\ a \in a .. a + n - 1
    BY ONLY <2>1, <2>2, Between
  <2>4. a .. a + n - 1 \subseteq 0 .. nsec(data) * Sector - 1
    BY ONLY <1>2, <1>3, <2>1, <2>2, Between
  <2> QED
    BY <1>2, <2>3, <2>4
<1>7. DirCells(data, di) \subseteq di * Sector .. (di + room) * Sector - 1
  BY ONLY <1>4, <1>5, <1>6
<1>8. di * Sector \in DirCells(data, di) /\ DirCells(data, di) \subseteq DOMAIN data
  BY ONLY <1>4, <1>5, <1>6
<1> QED
  BY ONLY <1>1, <1>2, <1>3, <1>7, <1>8

\* A module is apart from the directory.
LEMMA NotDir ==
  ASSUME NEW data, NEW di, NEW room, Laid(data, di, room),
         NEW i \in headers(data), NEW c \in Cells(data, i)
  PROVE  /\ c \in DOMAIN data /\ c \notin DirCells(data, di) /\ data[c].kind # "entry"
         /\ c \notin di * Sector .. (di + room) * Sector - 1
<1>1. HeaderOK(data, i)
  BY HeaderIs
<1>2. i \in Nat /\ Behind(data, i) \in Nat /\ Cells(data, i) \subseteq DOMAIN data
  BY <1>1 DEF HeaderOK
<1>3. di + room <= i \/ Behind(data, i) <= di
  BY DEF Laid
<1>4. /\ di \in Nat /\ room \in Nat \ {0}
      /\ DirCells(data, di) \subseteq di * Sector .. (di + room) * Sector - 1
      /\ \A x \in DOMAIN data : data[x].kind = "entry" <=> x \in DirCells(data, di)
  BY DirIs
<1>5. /\ i * Sector \in Nat /\ Behind(data, i) * Sector \in Nat
      /\ di * Sector \in Nat /\ (di + room) * Sector \in Nat
      /\ (di + room) * Sector <= i * Sector \/ Behind(data, i) * Sector <= di * Sector
  <2>1. di + room \in Nat
    BY <1>4
  <2>2. di + room <= i => (di + room) * Sector <= i * Sector
    BY <1>2, <2>1, Product
  <2>3. Behind(data, i) <= di => Behind(data, i) * Sector <= di * Sector
    BY <1>2, <1>4, Product
  <2>4. i * Sector \in Nat /\ Behind(data, i) * Sector \in Nat
      /\ di * Sector \in Nat /\ (di + room) * Sector \in Nat
    BY <1>2, <1>4, <2>1, Product
  <2> QED BY <1>3, <2>2, <2>3, <2>4
<1>6. c \notin DirCells(data, di) /\ c \notin di * Sector .. (di + room) * Sector - 1
  <2>1. c \in Int /\ i * Sector <= c /\ c < Behind(data, i) * Sector
    BY <1>5 DEF Cells
  <2>2. c \notin di * Sector .. (di + room) * Sector - 1
    BY <1>5, <2>1
  <2> QED BY <1>4, <2>2
<1> QED
  BY <1>2, <1>4, <1>6

\* What is not a header or an entry has no name.
LEMMA NoName ==
  ASSUME NEW cell, CellOK(cell), cell.kind # "head", cell.kind # "entry"
  PROVE  cell.kind = "data" /\ cell.name = ""
<1>1. cell.kind = "data" /\ cell = Data(cell.value)
  BY DEF CellOK
<1>2. PICK d : d = Data(cell.value)
  OBVIOUS
<1>3. d.name = ""
  BY <1>2 DEF Data
<1> QED
  BY ONLY <1>1, <1>2, <1>3

\* No other sector of a module begins with a header.
LEMMA OneHeader ==
  ASSUME NEW data, NEW di, NEW room, Laid(data, di, room),
         NEW i \in headers(data), NEW s \in Nat, s # i, s * Sector \in Cells(data, i)
  PROVE  /\ s * Sector \in DOMAIN data /\ s \notin headers(data)
         /\ data[s * Sector].kind = "data" /\ data[s * Sector].name = ""
<1>1. /\ s * Sector \in DOMAIN data /\ s * Sector \notin DirCells(data, di)
      /\ data[s * Sector].kind # "entry"
  BY NotDir
<1>2. s \notin headers(data)
  <2> SUFFICES ASSUME s \in headers(data)
               PROVE  FALSE
    OBVIOUS
  <2>1. s * Sector \in Cells(data, s)
    BY HeaderIs DEF HeaderOK
  <2> QED
    BY <2>1, Apart
<1>3. data[s * Sector].kind # "head"
  <2>1. s < nsec(data) /\ nsec(data) \in Nat
    BY <1>1, LaidIs
  <2> QED
    BY <1>2, <2>1 DEF headers
<1>4. CellOK(data[s * Sector])
  BY <1>1, LaidIs
<1> QED
  BY <1>1, <1>2, <1>3, <1>4, NoName

(* Containers.                                                              *)

LEMMA SubsIs ==
  ASSUME NEW data, NEW i, HeaderOK(data, i)
  PROVE  /\ sub_offsets(data, i * Sector) \in Seq(1 .. data[i * Sector].length)
         /\ \A x \in ToSet(sub_offsets(data, i * Sector)) :
              /\ x \in 1 .. data[i * Sector].length
              /\ i * Sector + x \in Cells(data, i) /\ data[i * Sector + x].kind = "head"
<1>1. PICK o, offs : o = i * Sector /\ offs = data[o].subs
  OBVIOUS
<1>2. /\ offs \in Seq(1 .. data[o].length) /\ data[o].length \in Nat
      /\ o + data[o].length < Behind(data, i) * Sector
      /\ o \in Nat /\ Behind(data, i) * Sector \in Nat
  <2>1. i \in Nat /\ Behind(data, i) \in Nat
    BY DEF HeaderOK
  <2>2. i * Sector \in Nat /\ Behind(data, i) * Sector \in Nat
    BY <2>1, Product
  <2> QED
    BY <1>1, <2>2 DEF HeaderOK
<1>3. \/ sub_offsets(data, o) = offs /\ \A n \in DOMAIN offs : data[o + offs[n]].kind = "head"
      \/ sub_offsets(data, o) = <<>>
  BY ONLY <1>1 DEF sub_offsets
<1>4. CASE sub_offsets(data, o) = <<>>
  <2>1. <<>> \in Seq(1 .. data[o].length) /\ ToSet(<<>>) = {}
    BY EmptySeq DEF ToSet
  <2> QED
    BY <1>1, <1>4, <2>1
<1>5. CASE sub_offsets(data, o) = offs /\ \A n \in DOMAIN offs : data[o + offs[n]].kind = "head"
  <2>1. ASSUME NEW x \in ToSet(offs)
        PROVE  /\ x \in 1 .. data[o].length
               /\ o + x \in Cells(data, i) /\ data[o + x].kind = "head"
    <3>1. PICK n \in DOMAIN offs : x = offs[n]
      BY DEF ToSet
    <3>2. x \in 1 .. data[o].length
      BY <1>2, <3>1, ElementOfSeq, LenProperties
    <3>3. o + x \in Cells(data, i)
      <4>1. Cells(data, i) = o .. Behind(data, i) * Sector - 1
        BY <1>1 DEF Cells
      <4> QED
        BY ONLY <1>2, <3>2, <4>1
    <3> QED
      BY <1>5, <3>1, <3>2, <3>3
  <2> QED
    BY <1>1, <1>2, <1>5, <2>1
<1> QED
  BY <1>1, <1>3, <1>4, <1>5

\* What is read of a module does not depend on anything else.
LEMMA SameModule ==
  ASSUME NEW data, NEW b, NEW i, HeaderOK(data, i), \A c \in Cells(data, i) : b[c] = data[c]
  PROVE  /\ sub_offsets(b, i * Sector) = sub_offsets(data, i * Sector)
         /\ Heads(b, i * Sector) = Heads(data, i * Sector)
         /\ b[i * Sector] = data[i * Sector] /\ Behind(b, i) = Behind(data, i)
<1>1. PICK o, offs : o = i * Sector /\ offs = data[o].subs
  OBVIOUS
<1>2. /\ offs \in Seq(1 .. data[o].length) /\ data[o].length \in Nat
      /\ o + data[o].length < Behind(data, i) * Sector
      /\ o \in Nat /\ Behind(data, i) * Sector \in Nat /\ o \in Cells(data, i)
  <2>1. i \in Nat /\ Behind(data, i) \in Nat
    BY DEF HeaderOK
  <2>2. i * Sector \in Nat /\ Behind(data, i) * Sector \in Nat
    BY <2>1, Product
  <2> QED
    BY <1>1, <2>2 DEF HeaderOK
<1>3. b[o] = data[o]
  BY <1>2
<1>4. ASSUME NEW n \in DOMAIN offs
      PROVE  b[o + offs[n]] = data[o + offs[n]]
  <2>1. offs[n] \in 1 .. data[o].length
    BY <1>2, ElementOfSeq, LenProperties
  <2>2. Cells(data, i) = o .. Behind(data, i) * Sector - 1
    BY <1>1 DEF Cells
  <2>3. o + offs[n] \in Cells(data, i)
    BY ONLY <1>2, <2>1, <2>2
  <2> QED
    BY <2>3
<1>5. sub_offsets(b, o) = sub_offsets(data, o)
  <2>1. b[o].subs = offs /\ b[o].length = data[o].length
    BY <1>1, <1>3
  <2> DEFINE P(d) == /\ \A n \in 1 .. Len(offs) - 1 : offs[n] < offs[n + 1]
                     /\ \A n \in DOMAIN offs :
                          /\ d[o + offs[n]].kind = "head"
                          /\ offs[n] + d[o + offs[n]].length <= 1 + data[o].length + 1
  <2>2. P(b) <=> P(data)
    BY <1>4
  <2>3. sub_offsets(b, o) = IF P(b) THEN offs ELSE <<>>
    BY <2>1 DEF sub_offsets
  <2>4. sub_offsets(data, o) = IF P(data) THEN offs ELSE <<>>
    BY <1>1 DEF sub_offsets
  <2> QED
    BY ONLY <2>2, <2>3, <2>4
<1>6. Heads(b, o) = Heads(data, o)
  <2>1. \A x \in ToSet(sub_offsets(data, o)) : b[o + x] = data[o + x]
    BY <1>1, SubsIs
  <2> QED
    BY <1>3, <1>5, <2>1 DEF Heads
<1> QED
  BY <1>1, <1>3, <1>5, <1>6 DEF Behind

\* Where sub-module n of the container at o ends.
SubEnd(data, o, n) ==
  IF n < Len(sub_offsets(data, o)) THEN sub_offsets(data, o)[n + 1] ELSE 1 + data[o].length

LEMMA Rising ==
  ASSUME NEW s \in Seq(Nat), \A n \in 1 .. Len(s) - 1 : s[n] < s[n + 1],
         NEW m \in DOMAIN s, NEW n \in DOMAIN s, m < n
  PROVE  s[m + 1] <= s[n]
<1>1. Len(s) \in Nat /\ DOMAIN s = 1 .. Len(s) /\ \A j \in 1 .. Len(s) : s[j] \in Nat
  BY LenProperties, ElementOfSeq
<1> DEFINE Bad == {j \in Nat : j \in m + 1 .. Len(s) /\ ~(s[m + 1] <= s[j])}
<1>2. Bad = {}
  <2> SUFFICES ASSUME Bad # {}
               PROVE  FALSE
    OBVIOUS
  <2>1. PICK j \in Bad : \A l \in Bad : j <= l
    <3>1. Bad \in SUBSET Nat
      OBVIOUS
    <3> HIDE DEF Bad
    <3> QED
      BY <3>1, Least
  <2>2. j \in m + 1 .. Len(s) /\ ~(s[m + 1] <= s[j])
    BY <2>1
  <2>3. CASE j = m + 1
    BY <1>1, <2>2, <2>3
  <2>4. CASE j # m + 1
    <3>1. PICK l : l = j - 1
      OBVIOUS
    <3>2. l \in m + 1 .. Len(s) /\ l < j /\ l \in Nat /\ j = l + 1 /\ l \in 1 .. Len(s) - 1
      BY <1>1, <2>2, <2>4, <3>1
    <3>3. l \notin Bad
      BY <2>1, <3>2
    <3>4. s[m + 1] <= s[l] /\ s[l] < s[j]
      BY <3>2, <3>3
    <3>5. m + 1 \in 1 .. Len(s) /\ l \in 1 .. Len(s) /\ j \in 1 .. Len(s)
      <4>1. PICK L : L = Len(s)
        OBVIOUS
      <4>2. L \in Nat /\ m \in 1 .. L /\ n \in 1 .. L /\ j \in m + 1 .. L
        BY ONLY <1>1, <2>2, <4>1, m \in DOMAIN s, n \in DOMAIN s
      <4>3. l \in 1 .. L - 1
        BY ONLY <3>2, <4>1
      <4>4. m + 1 \in 1 .. L /\ l \in 1 .. L /\ j \in 1 .. L
        BY ONLY <4>2, <4>3
      <4> QED
        BY ONLY <4>1, <4>4
    <3>6. s[m + 1] \in Nat /\ s[l] \in Nat /\ s[j] \in Nat
      BY ONLY <1>1, <3>5
    <3>7. PICK x, y, z : x = s[m + 1] /\ y = s[l] /\ z = s[j]
      OBVIOUS
    <3>8. x \in Nat /\ y \in Nat /\ z \in Nat /\ x <= y /\ y < z /\ ~(x <= z)
      BY ONLY <2>2, <3>4, <3>6, <3>7
    <3> QED
      BY ONLY <3>8
  <2> QED
    BY <2>3, <2>4
<1>3. n \in Nat /\ n \in m + 1 .. Len(s)
  BY <1>1
<1> QED
  BY <1>2, <1>3

LEMMA SubRanges ==
  ASSUME NEW data, NEW di, NEW room, Laid(data, di, room), ContainersOK(data),
         NEW i \in headers(data), NEW o, o = i * Sector,
         NEW offs, offs = sub_offsets(data, o), NEW n \in DOMAIN offs
  PROVE  /\ offs[n] \in 1 .. data[o].length /\ data[o + offs[n]].length \in Nat
         /\ data[o + offs[n]].kind = "head"
         /\ SubEnd(data, o, n) \in Nat /\ SubEnd(data, o, n) <= 1 + data[o].length
         /\ offs[n] + data[o + offs[n]].length < SubEnd(data, o, n)
         /\ \A x \in offs[n] + 1 .. SubEnd(data, o, n) - 1 : data[o + x].kind = "data"
         /\ \A m \in DOMAIN offs : /\ m < n => SubEnd(data, o, m) <= offs[n]
                                   /\ data[o + offs[m]].name = data[o + offs[n]].name => m = n
<1>1. HeaderOK(data, i)
  BY HeaderIs
<1>2. /\ offs \in Seq(1 .. data[o].length) /\ data[o].length \in Nat
      /\ Len(offs) \in Nat /\ DOMAIN offs = 1 .. Len(offs)
      /\ \A m \in DOMAIN offs : offs[m] \in 1 .. data[o].length
      /\ offs \in Seq(Nat)
  <2>1. offs \in Seq(1 .. data[o].length) /\ data[o].length \in Nat
    BY <1>1, SubsIs DEF HeaderOK
  <2>2. Len(offs) \in Nat /\ DOMAIN offs = 1 .. Len(offs)
    BY <2>1, LenProperties
  <2>3. \A m \in DOMAIN offs : offs[m] \in 1 .. data[o].length
    BY <2>1, <2>2, ElementOfSeq
  <2>4. offs \in Seq(Nat)
    <3>1. 1 .. data[o].length \subseteq Nat
      BY <2>1
    <3>2. \A S, T : S \subseteq T => Seq(S) \subseteq Seq(T)
      OBVIOUS
    <3> HIDE DEF SubEnd
    <3> QED
      BY <2>1, <3>1, <3>2
  <2> QED
    BY <2>1, <2>2, <2>3, <2>4
<1>3. offs[n] \in ToSet(offs)
  BY DEF ToSet
<1>4. o + offs[n] \in Cells(data, i) /\ data[o + offs[n]].kind = "head"
  BY <1>1, <1>3, SubsIs
<1>5. data[o + offs[n]].length \in Nat
  <2>1. o + offs[n] \in DOMAIN data
    BY <1>1, <1>4 DEF HeaderOK
  <2>2. PICK h : h = data[o + offs[n]]
    OBVIOUS
  <2>3. CellOK(h) /\ h.kind = "head"
    BY <1>4, <2>1, <2>2, LaidIs
  <2> QED
    BY <2>2, <2>3 DEF CellOK
<1>6. \A m \in 1 .. Len(offs) - 1 : offs[m] < offs[m + 1]
  <2>1. offs # <<>>
    <3>1. DOMAIN <<>> = {}
      OBVIOUS
    <3> QED
      BY <3>1
  <2>2. offs = data[o].subs /\ \A m \in 1 .. Len(data[o].subs) - 1 : data[o].subs[m] < data[o].subs[m + 1]
    BY <2>1 DEF sub_offsets
  <2> QED
    BY <2>2
<1>7. \A m \in DOMAIN offs : m < n => SubEnd(data, o, m) <= offs[n]
  <2> SUFFICES ASSUME NEW m \in DOMAIN offs, m < n
               PROVE  SubEnd(data, o, m) <= offs[n]
    OBVIOUS
  <2>1. offs[m + 1] <= offs[n]
    BY <1>2, <1>6, Rising
  <2>2. m < Len(offs)
    BY <1>2
  <2> QED
    BY <2>1, <2>2 DEF SubEnd
<1>8. SubEnd(data, o, n) \in Nat /\ SubEnd(data, o, n) <= 1 + data[o].length
  <2>1. CASE n < Len(offs)
    <3>1. n + 1 \in DOMAIN offs
      BY <1>2, <2>1
    <3>2. offs[n + 1] \in 1 .. data[o].length
      BY <1>2, <3>1
    <3>3. SubEnd(data, o, n) = offs[n + 1]
      BY <2>1 DEF SubEnd
    <3>4. data[o].length \in Nat
      BY <1>1 DEF HeaderOK
    <3> QED
      BY ONLY <3>2, <3>3, <3>4
  <2>2. CASE ~(n < Len(offs))
    BY <1>2, <2>2 DEF SubEnd
  <2> QED
    BY <2>1, <2>2
<1>9. /\ offs[n] + data[o + offs[n]].length < SubEnd(data, o, n)
      /\ \A x \in offs[n] + 1 .. SubEnd(data, o, n) - 1 : data[o + x].kind = "data"
      /\ \A m \in DOMAIN offs : data[o + offs[m]].name = data[o + offs[n]].name => m = n
  <2>1. SubEnd(data, o, n) = IF n < Len(offs) THEN offs[n + 1] ELSE 1 + data[o].length
    BY DEF SubEnd
  <2>2. \A j \in DOMAIN offs :
          LET bound(k) == IF k < Len(offs) THEN offs[k + 1] ELSE 1 + data[o].length
          IN  /\ offs[j] + data[o + offs[j]].length < bound(j)
              /\ \A x \in offs[j] + 1 .. bound(j) - 1 : data[o + x].kind = "data"
    BY Zenon DEF ContainersOK
  <2>3. \A m \in DOMAIN offs : data[o + offs[m]].name = data[o + offs[n]].name => m = n
    BY DEF ContainersOK
  <2> QED
    BY <2>1, <2>2, <2>3
<1> QED
  BY <1>2, <1>4, <1>5, <1>7, <1>8, <1>9

(* How the directory is found.                                              *)

\* No sector that e leads to from another sector of the directory has its name.
Alone(data, di, room, e) ==
  /\ e.start \in Nat /\ e.start > room
  /\ \A m \in 1 .. room - 1 :
       (di + e.start - 1) * Sector + m * Sector \in DOMAIN data =>
         data[(di + e.start - 1) * Sector + m * Sector].name # e.name

\* A directory is at sector di and nowhere else.
HasDir(data, di, room) ==
  /\ nsec(data) \in Nat /\ DOMAIN data = 0 .. nsec(data) * Sector - 1
  /\ Cardinality(DOMAIN data) = nsec(data) * Sector
  /\ di \in Nat /\ room \in Nat \ {0} /\ di + room <= nsec(data)
  /\ data[di * Sector].start \in Counts
  /\ DirCells(data, di) \subseteq di * Sector .. (di + room) * Sector - 1
  /\ \A c \in DOMAIN data : data[c].kind = "entry" <=> c \in DirCells(data, di)
  /\ \A c \in DirCells(data, di) \ {di * Sector} : Alone(data, di, room, data[c])

LEMMA ReadAny ==
  ASSUME NEW data, nsec(data) \in Nat, DOMAIN data = 0 .. nsec(data) * Sector - 1,
         Cardinality(DOMAIN data) = nsec(data) * Sector,
         NEW j \in 0 .. nsec(data) - 1, data[j * Sector].start \in Nat
  PROVE  \E n \in Nat :
           /\ read_directory(data, j) = [k \in 1 .. n |-> data[j * Sector + k - 1]]
           /\ Len(read_directory(data, j)) = n
           /\ j * Sector + n <= nsec(data) * Sector
           /\ j * Sector + data[j * Sector].start <= nsec(data) * Sector => n = data[j * Sector].start
<1>1. PICK a, t, s : a = j * Sector /\ t = nsec(data) * Sector /\ s = data[j * Sector].start
  OBVIOUS
<1>2. a \in Nat /\ t \in Nat /\ a <= t /\ s \in Nat
  <2>1. j \in Nat /\ j <= nsec(data)
    OBVIOUS
  <2> QED
    BY <1>1, <2>1, Product
<1>3. PICK n : n = Min({s, t - a})
  OBVIOUS
<1>4. n \in {s, t - a} /\ n <= s /\ n <= t - a /\ n \in Nat
  <2>1. {s, t - a} \in SUBSET Nat /\ {s, t - a} # {}
    BY <1>2
  <2> QED
    BY ONLY <1>2, <1>3, <2>1, MinOf
<1>5. read_directory(data, j) = [k \in 1 .. n |-> data[a + k - 1]]
  BY <1>1, <1>3 DEF read_directory, Read
<1>6. Len(read_directory(data, j)) = n
  <2> DEFINE f == [k \in 1 .. n |-> data[a + k - 1]]
      T == {f[k] : k \in 1 .. n}
  <2>1. f \in [1 .. n -> T]
    OBVIOUS
  <2>2. Len(f) = n
    <3> HIDE DEF f, T
    <3> QED
      BY <1>4, <2>1, FcnIsSeq
  <2> QED
    BY <1>5, <2>2
<1>7. a + n <= t /\ (a + s <= t => n = s)
  BY <1>2, <1>4
<1> QED
  BY <1>1, <1>4, <1>5, <1>6, <1>7

\* The entries that the score of sector j counts.
Hits(data, j) ==
  {i \in 2 .. Min({Len(read_directory(data, j)), Scored}) :
     /\ read_directory(data, j)[i].kind = "entry"
     /\ PointsAt(j, read_directory(data, j)[i]) \in 0 .. nsec(data) - 1
     /\ data[PointsAt(j, read_directory(data, j)[i]) * Sector].name = read_directory(data, j)[i].name}

LEMMA ScoreIs ==
  ASSUME NEW data, NEW j
  PROVE  _dir_score(data, j) =
           IF data[j * Sector].kind # "entry" \/ data[j * Sector].start \notin Counts THEN 0
           ELSE Cardinality(Hits(data, j))
BY DEF _dir_score, Hits

LEMMA HitsFinite ==
  ASSUME NEW data, NEW j, Len(read_directory(data, j)) \in Nat
  PROVE  /\ Hits(data, j) \subseteq 2 .. Scored /\ IsFiniteSet(Hits(data, j))
         /\ Cardinality(Hits(data, j)) \in 0 .. Scored
<1>1. PICK n, m : n = Len(read_directory(data, j)) /\ m = Min({n, Scored})
  OBVIOUS
<1>2. m \in Nat /\ m <= Scored /\ Scored \in Nat
  <2>1. {n, Scored} \in SUBSET Nat /\ {n, Scored} # {}
    BY <1>1, GeometryAssumption
  <2> QED
    BY <1>1, <2>1, MinOf, GeometryAssumption
<1>3. Hits(data, j) \subseteq 1 .. Scored
  <2>1. Hits(data, j) \subseteq 2 .. m
    BY <1>1 DEF Hits
  <2> QED
    BY <1>2, <2>1
<1>4. IsFiniteSet(1 .. Scored) /\ Cardinality(1 .. Scored) <= Scored
  <2>1. CASE Scored = 0
    <3>1. 1 .. Scored = {}
      BY <2>1
    <3> QED
      BY <2>1, <3>1, FS_EmptySet
  <2>2. CASE Scored # 0
    BY ONLY <1>2, <2>2, FS_Interval
  <2> QED
    BY <2>1, <2>2
<1>5. IsFiniteSet(Hits(data, j)) /\ Cardinality(Hits(data, j)) <= Cardinality(1 .. Scored)
  BY <1>3, <1>4, FS_Subset
<1>6. Cardinality(Hits(data, j)) \in Nat /\ Cardinality(1 .. Scored) \in Nat
  BY <1>4, <1>5, FS_CardinalityType
<1>7. Hits(data, j) \subseteq 2 .. Scored
  <2>1. Hits(data, j) \subseteq 2 .. m
    BY <1>1 DEF Hits
  <2> QED
    BY <1>2, <2>1
<1> QED
  BY <1>2, <1>4, <1>5, <1>6, <1>7

LEMMA ScoreType ==
  ASSUME NEW data, NEW di, NEW room, HasDir(data, di, room), NEW j \in 0 .. nsec(data) - 1
  PROVE  _dir_score(data, j) \in 0 .. Scored
<1>0. Scored \in Nat
  BY GeometryAssumption
<1>1. CASE data[j * Sector].kind # "entry" \/ data[j * Sector].start \notin Counts
  BY <1>0, <1>1, ScoreIs
<1>2. CASE ~(data[j * Sector].kind # "entry" \/ data[j * Sector].start \notin Counts)
  <2>1. PICK n \in Nat : Len(read_directory(data, j)) = n
    <3>1. data[j * Sector].start \in Nat
      BY <1>2, Between
    <3>2. /\ nsec(data) \in Nat /\ DOMAIN data = 0 .. nsec(data) * Sector - 1
          /\ Cardinality(DOMAIN data) = nsec(data) * Sector
      BY DEF HasDir
    <3>3. \E n \in Nat : Len(read_directory(data, j)) = n
      BY ONLY <3>1, <3>2, ReadAny, j \in 0 .. nsec(data) - 1
    <3> QED
      BY <3>3
  <2> QED
    BY <1>2, <2>1, ScoreIs, HitsFinite
<1> QED
  BY <1>1, <1>2

LEMMA ScoreOther ==
  ASSUME NEW data, NEW di, NEW room, HasDir(data, di, room), NEW j \in 0 .. nsec(data) - 1, j # di
  PROVE  _dir_score(data, j) = 0
<1>1. CASE data[j * Sector].kind # "entry" \/ data[j * Sector].start \notin Counts
  BY <1>1, ScoreIs
<1>2. CASE ~(data[j * Sector].kind # "entry" \/ data[j * Sector].start \notin Counts)
  <2>0. /\ nsec(data) \in Nat /\ DOMAIN data = 0 .. nsec(data) * Sector - 1
        /\ di \in Nat /\ room \in Nat \ {0} /\ di + room <= nsec(data) /\ j \in Nat
        /\ DirCells(data, di) \subseteq di * Sector .. (di + room) * Sector - 1
        /\ \A c \in DOMAIN data : data[c].kind = "entry" <=> c \in DirCells(data, di)
    BY DEF HasDir
  <2>1. PICK n \in Nat :
           /\ read_directory(data, j) = [k \in 1 .. n |-> data[j * Sector + k - 1]]
           /\ Len(read_directory(data, j)) = n
           /\ j * Sector + n <= nsec(data) * Sector
    <3>1. data[j * Sector].start \in Nat
      BY ONLY <1>2, Between
    <3> QED
      BY <3>1, ReadAny DEF HasDir
  <2>2. j \in di + 1 .. di + room - 1
    <3>1. j * Sector \in Nat /\ j * Sector < nsec(data) * Sector
      BY ONLY <2>0, Product
    <3>2. nsec(data) * Sector \in Nat
      BY <2>0, Product
    <3>3. j * Sector \in DOMAIN data
      BY <2>0, <3>1, <3>2
    <3>4. j * Sector \in DirCells(data, di)
      BY <1>2, <2>0, <3>3
    <3>5. di + room \in Nat
      BY <2>0
    <3>6. di * Sector \in Nat /\ (di + room) * Sector \in Nat
      BY <2>0, <3>5, Product
    <3>7. di * Sector <= j * Sector /\ j * Sector < (di + room) * Sector
      BY <2>0, <3>1, <3>4, <3>6
    <3>8. j < di + room
      BY <2>0, <3>5, <3>7, Product
    <3>9. ~(j < di)
      BY <2>0, <3>1, <3>6, <3>7, Product
    <3> QED
      BY <2>0, <3>8, <3>9
  <2>3. ASSUME NEW i \in Hits(data, j)
        PROVE  FALSE
    <3>0. PICK e, c : e = read_directory(data, j)[i] /\ c = j * Sector + i - 1
      OBVIOUS
    <3>1. /\ e.kind = "entry" /\ PointsAt(j, e) \in 0 .. nsec(data) - 1
          /\ data[PointsAt(j, e) * Sector].name = e.name
          /\ i \in 2 .. Min({Len(read_directory(data, j)), Scored})
      BY <3>0 DEF Hits
    <3>2. i \in 2 .. n
      <4>1. {n, Scored} \in SUBSET Nat /\ {n, Scored} # {}
        BY GeometryAssumption
      <4>2. Min({n, Scored}) <= n /\ Min({n, Scored}) \in Nat
        BY <4>1, MinOf
      <4>3. i \in 2 .. Min({n, Scored})
        BY <2>1, <3>1
      <4> QED
        BY <4>2, <4>3
    <3>3. e = data[c]
      <4>1. i \in 1 .. n
        BY <3>2
      <4> QED
        BY <2>1, <3>0, <4>1
    <3>4. j * Sector \in Nat /\ nsec(data) * Sector \in Nat
      BY <2>0, Product
    <3>5. c \in DOMAIN data
      BY <2>0, <2>1, <3>0, <3>2, <3>4
    <3>6. c \in DirCells(data, di)
      BY <2>0, <3>1, <3>3, <3>5
    <3>7. c # di * Sector
      <4>1. di * Sector <= j * Sector /\ di * Sector \in Nat
        BY <2>0, <2>2, Product
      <4> QED
        BY <3>0, <3>2, <3>4, <4>1
    <3>8. Alone(data, di, room, e)
      BY <3>3, <3>6, <3>7 DEF HasDir
    <3>9. PICK m : m = j - di
      OBVIOUS
    <3>10. m \in 1 .. room - 1 /\ j = di + m
      BY <2>0, <2>2, <3>9
    <3>11. e.start \in Nat /\ e.start > room
      BY <3>8 DEF Alone
    <3>12. PICK p : p = di + e.start - 1
      OBVIOUS
    <3>13. p \in Nat /\ m \in Nat /\ PointsAt(j, e) = p + m
      BY <2>0, <3>10, <3>11, <3>12 DEF PointsAt
    <3>14. (p + m) * Sector = p * Sector + m * Sector /\ (p + m) * Sector \in Nat
      <4>1. p + m \in Nat
        BY <3>13
      <4> QED
        BY <3>13, <4>1, Product
    <3>15. (p + m) * Sector < nsec(data) * Sector
      <4>1. p + m \in Nat /\ p + m < nsec(data)
        BY <2>0, <3>1, <3>13
      <4> QED
        BY <2>0, <4>1, Product
    <3>16. p * Sector + m * Sector \in DOMAIN data
      BY <2>0, <3>4, <3>14, <3>15
    <3>17. data[p * Sector + m * Sector].name # e.name
      BY <3>8, <3>10, <3>12, <3>16 DEF Alone
    <3> QED
      BY <3>1, <3>13, <3>14, <3>17
  <2>4. Hits(data, j) = {}
    BY <2>3
  <2>5. _dir_score(data, j) = Cardinality(Hits(data, j))
    BY <1>2, ScoreIs
  <2> QED
    BY <2>4, <2>5, FS_EmptySet
<1> QED
  BY <1>1, <1>2

ReadsAs(ents, data, a, s) == ents = [k \in 1 .. s |-> data[a + k - 1]] /\ Len(ents) = s

\* The directory has s entries from the cell a, in an area of t cells.
DirSpans(data, di, a, s, t) ==
  /\ a \in Nat /\ s \in Nat /\ t \in Nat
  /\ a = di * Sector /\ s = data[di * Sector].start /\ t = nsec(data) * Sector
  /\ s \in Counts /\ a + s <= t
  /\ DirCells(data, di) = a .. a + s - 1
  /\ ReadsAs(read_directory(data, di), data, a, s)

\* What is read of the directory.
LEMMA DirRead ==
  ASSUME NEW data, NEW di, NEW room, HasDir(data, di, room)
  PROVE  \E a, s, t : DirSpans(data, di, a, s, t)
<1>0. /\ nsec(data) \in Nat /\ DOMAIN data = 0 .. nsec(data) * Sector - 1
      /\ Cardinality(DOMAIN data) = nsec(data) * Sector
      /\ di \in Nat /\ room \in Nat \ {0} /\ di + room <= nsec(data)
      /\ DirCells(data, di) \subseteq di * Sector .. (di + room) * Sector - 1
      /\ data[di * Sector].start \in Counts
  BY DEF HasDir
<1>1. PICK a, s, t : a = di * Sector /\ s = data[di * Sector].start /\ t = nsec(data) * Sector
  OBVIOUS
<1>2. /\ a \in Nat /\ s \in Counts /\ t \in Nat /\ a + s <= t
      /\ DirCells(data, di) = a .. a + s - 1
  <2>1. di + room \in Nat
    BY <1>0
  <2>2. a \in Nat /\ t \in Nat /\ (di + room) * Sector <= t /\ (di + room) * Sector \in Nat
    BY <1>0, <1>1, <2>1, Product
  <2>3. DirCells(data, di) = a .. a + s - 1
    BY <1>1 DEF DirCells
  <2>4. s \in Counts
    BY <1>0, <1>1
  <2>5. a + s - 1 \in a .. (di + room) * Sector - 1
    <3>1. a + s - 1 \in a .. a + s - 1
      BY ONLY <2>2, <2>4, Between
    <3>2. DirCells(data, di) \subseteq a .. (di + room) * Sector - 1
      BY <1>0, <1>1
    <3> QED
      BY ONLY <2>3, <3>1, <3>2
  <2>6. a + s <= t
    BY ONLY <2>2, <2>4, <2>5, Between
  <2> QED
    BY ONLY <2>2, <2>3, <2>4, <2>6
<1>3. di \in 0 .. nsec(data) - 1
  BY <1>0
<1>4. /\ read_directory(data, di) = [k \in 1 .. s |-> data[a + k - 1]]
      /\ Len(read_directory(data, di)) = s
  <2>0. s \in Nat
    BY <1>2, Between
  <2>1. s \in Nat /\ data[di * Sector].start \in Nat
    BY ONLY <1>1, <2>0
  <2>2. PICK n \in Nat :
           /\ read_directory(data, di) = [k \in 1 .. n |-> data[di * Sector + k - 1]]
           /\ Len(read_directory(data, di)) = n
           /\ di * Sector + data[di * Sector].start <= nsec(data) * Sector => n = data[di * Sector].start
    <3>1. /\ nsec(data) \in Nat /\ DOMAIN data = 0 .. nsec(data) * Sector - 1
          /\ Cardinality(DOMAIN data) = nsec(data) * Sector
      BY <1>0
    <3>2. data[di * Sector].start \in Nat
      BY <2>1
    <3> QED
      BY ONLY <1>3, <3>1, <3>2, ReadAny
  <2> QED
    BY <1>1, <1>2, <2>2
<1>5. s \in Nat
  BY <1>2, Between
<1>6. ReadsAs(read_directory(data, di), data, a, s)
  BY ONLY <1>4 DEF ReadsAs
<1>7. DirSpans(data, di, a, s, t)
  BY ONLY <1>1, <1>2, <1>5, <1>6 DEF DirSpans
<1> QED
  BY ONLY <1>7

\* The directory counts at least the entries that lead to their names.
LEMMA ScoreDir ==
  ASSUME NEW data, NEW di, NEW room, HasDir(data, di, room), NEW T,
         \A i \in T :
           /\ i \in 2 .. Scored /\ i <= data[di * Sector].start
           /\ PointsAt(di, data[di * Sector + i - 1]) \in 0 .. nsec(data) - 1
           /\ data[PointsAt(di, data[di * Sector + i - 1]) * Sector].name
                = data[di * Sector + i - 1].name
  PROVE  IsFiniteSet(T) /\ Cardinality(T) \in Nat /\ Cardinality(T) <= _dir_score(data, di)
<1>0. /\ nsec(data) \in Nat /\ DOMAIN data = 0 .. nsec(data) * Sector - 1
      /\ Cardinality(DOMAIN data) = nsec(data) * Sector
      /\ di \in Nat /\ room \in Nat \ {0} /\ di + room <= nsec(data)
      /\ DirCells(data, di) \subseteq di * Sector .. (di + room) * Sector - 1
      /\ \A c \in DOMAIN data : data[c].kind = "entry" <=> c \in DirCells(data, di)
      /\ data[di * Sector].start \in Counts
  BY DEF HasDir
<1>20. PICK a, s, t : DirSpans(data, di, a, s, t)
  BY DirRead
<1>1. /\ a \in Nat /\ s \in Nat /\ t \in Nat
      /\ a = di * Sector /\ s = data[di * Sector].start /\ t = nsec(data) * Sector
      /\ s \in Counts /\ a + s <= t
      /\ DirCells(data, di) = a .. a + s - 1
      /\ ReadsAs(read_directory(data, di), data, a, s)
  BY ONLY <1>20 DEF DirSpans
<1>2. /\ a \in Nat /\ s \in Counts /\ t \in Nat /\ a + s <= t
      /\ DirCells(data, di) = a .. a + s - 1
  BY <1>1
<1>4. /\ read_directory(data, di) = [k \in 1 .. s |-> data[a + k - 1]]
      /\ Len(read_directory(data, di)) = s
  BY <1>1 DEF ReadsAs
<1>5. T \subseteq Hits(data, di)
  <2> SUFFICES ASSUME NEW i \in T
               PROVE  i \in Hits(data, di)
    OBVIOUS
  <2>1. i \in 2 .. Scored /\ i \in 1 .. s
    BY <1>1, <1>2
  <2>2. read_directory(data, di)[i] = data[a + i - 1]
    BY <1>4, <2>1
  <2>3. data[a + i - 1].kind = "entry"
    <3>1. a + i - 1 \in DirCells(data, di) /\ a + i - 1 \in DOMAIN data
      <4>1. a + i - 1 \in a .. a + s - 1 /\ a + i - 1 \in 0 .. t - 1
        BY ONLY <1>2, <2>1, Between
      <4> QED
        BY <1>0, <1>1, <1>2, <4>1
    <3> QED
      BY <1>0, <3>1
  <2>4. i \in 2 .. Min({Len(read_directory(data, di)), Scored})
    <3>1. {s, Scored} \in SUBSET Nat /\ {s, Scored} # {}
      BY <1>2, GeometryAssumption, Between
    <3>2. Min({s, Scored}) \in {s, Scored} /\ s \in Nat /\ Scored \in Nat
      BY ONLY <1>2, <3>1, MinOf, GeometryAssumption
    <3>3. i \in 2 .. Min({s, Scored})
      BY <2>1, <3>2
    <3> QED
      BY <1>4, <3>3
  <2> QED
    BY <1>1, <2>2, <2>3, <2>4 DEF Hits
<1>6. /\ Hits(data, di) \subseteq 2 .. Scored /\ IsFiniteSet(Hits(data, di))
      /\ Cardinality(Hits(data, di)) \in 0 .. Scored
  BY <1>2, <1>4, HitsFinite
<1>7. IsFiniteSet(T) /\ Cardinality(T) <= Cardinality(Hits(data, di))
  BY <1>5, <1>6, FS_Subset
<1>8. Cardinality(T) \in Nat
  BY <1>7, FS_CardinalityType
<1>9. _dir_score(data, di) = Cardinality(Hits(data, di))
  <2>1. a \in DirCells(data, di) /\ a \in DOMAIN data
    <3>1. a \in a .. a + s - 1 /\ a \in 0 .. t - 1
      BY ONLY <1>2, Between
    <3> QED
      BY <1>0, <1>1, <1>2, <3>1
  <2>2. data[a].kind = "entry"
    BY <1>0, <2>1
  <2>3. data[di * Sector].kind = "entry" /\ data[di * Sector].start \in Counts
    <3>1. data[a].start = s /\ s \in Counts /\ a = di * Sector
      BY ONLY <1>2, <1>1, <1>0
    <3> QED
      BY ONLY <2>2, <3>1
  <2> QED
    BY ONLY <2>3, ScoreIs
<1> QED
  BY <1>7, <1>8, <1>9

LEMMA Found ==
  ASSUME NEW img, NEW di, NEW room, HasDir(img.data, di, room), img.pointer \in {0, di + 1}
  PROVE  /\ directory_index(img) \in {di, -1}
         /\ _dir_score(img.data, di) >= (IF img.pointer = 0 THEN 5 ELSE 3) => directory_index(img) = di
<1>0. PICK data, w : data = img.data /\ w = img.pointer
  OBVIOUS
<1> DEFINE all == 0 .. nsec(data) - 1
           scores == [j \in all |-> _dir_score(data, j)]
           top == Max(Range(scores))
           best == {j \in all : scores[j] = top}
<1>1. nsec(data) \in Nat /\ di \in Nat /\ di \in all
  BY <1>0 DEF HasDir
<1>2. \A j \in all : scores[j] \in 0 .. Scored /\ (j # di => scores[j] = 0)
  BY <1>0, ScoreType, ScoreOther
<1>3. scores[di] = _dir_score(data, di)
  BY <1>1
<1>4. directory_index(img) = IF w - 1 \in all /\ scores[w - 1] >= 3 THEN w - 1
                             ELSE IF top >= 5 THEN Min(best) ELSE -1
  BY <1>0 DEF directory_index
<1>5. top \in Range(scores) /\ \A x \in Range(scores) : x <= top
  <2>1. Range(scores) = {scores[j] : j \in all}
    BY DEF Range
  <2>2. scores[di] \in Range(scores)
    BY <1>1, <2>1
  <2>3. Range(scores) \in SUBSET (0 .. Scored)
    BY <1>2, <2>1
  <2>4. Scored \in Nat
    BY GeometryAssumption
  <2> HIDE DEF scores
  <2> QED
    BY <2>2, <2>3, <2>4, MaxOf
<1>6. scores[di] <= top /\ \E j \in all : scores[j] = top
  <2>1. Range(scores) = {scores[j] : j \in all}
    BY DEF Range
  <2> HIDE DEF scores, top
  <2> QED
    BY <1>1, <1>5, <2>1
<1>7. ASSUME top >= 5
      PROVE  Min(best) = di
  <2>1. best = {di}
    <3> HIDE DEF scores, top
    <3>1. \A j \in all : scores[j] = top => j = di
      BY <1>2, <1>7
    <3>2. scores[di] = top
      BY <1>6, <3>1
    <3> QED
      BY <1>1, <3>1, <3>2
  <2>2. {di} \in SUBSET Nat /\ {di} # {}
    BY <1>1
  <2>3. Min({di}) \in {di}
    BY <2>2, MinOf
  <2> HIDE DEF best
  <2> QED
    BY <2>1, <2>3
<1>8. w = 0 \/ w - 1 = di
  BY <1>0, <1>1
<1>9. w = 0 => w - 1 \notin all
  OBVIOUS
<1> HIDE DEF scores, top, best, all
<1>10. directory_index(img) \in {di, -1}
  BY <1>4, <1>7, <1>8, <1>9
<1>11. CASE w = 0
  <2>1. scores[di] >= 5 => top >= 5
    BY <1>1, <1>2, <1>6, <1>5
  <2> QED
    BY <1>0, <1>3, <1>4, <1>7, <1>9, <1>10, <1>11, <2>1
<1>12. CASE w # 0
  BY <1>0, <1>1, <1>3, <1>4, <1>8, <1>10, <1>12
<1> QED
  BY <1>8, <1>10, <1>11, <1>12

(* Names that are changed.                                                  *)

NewName(name, R) == IF name \in R THEN Typeable[name] ELSE name

\* The entries of the names R renamed.
Relabelled(data, R) ==
  [c \in DOMAIN data |-> IF data[c].kind = "entry"
                         THEN Entry(NewName(data[c].name, R), data[c].start, data[c].length)
                         ELSE data[c]]

LEMMA RelabelledIs ==
  ASSUME NEW data, NEW di, NEW room, Laid(data, di, room), NEW R, NEW d, d = Relabelled(data, R)
  PROVE  /\ DOMAIN d = DOMAIN data /\ nsec(d) = nsec(data)
         /\ \A c \in DOMAIN data \ DirCells(data, di) : d[c] = data[c]
         /\ \A c \in DirCells(data, di) :
              d[c] = Entry(NewName(data[c].name, R), data[c].start, data[c].length)
         /\ DirCells(d, di) = DirCells(data, di)
         /\ \A c \in DOMAIN data : d[c].kind = data[c].kind
         /\ headers(d) = headers(data)
<1>0. Sector \in Nat \ {0}
  BY GeometryAssumption
<1>1. DOMAIN d = DOMAIN data
  BY DEF Relabelled
<1>3. /\ \A c \in DOMAIN data : data[c].kind = "entry" <=> c \in DirCells(data, di)
      /\ DirCells(data, di) \subseteq DOMAIN data /\ di * Sector \in DirCells(data, di)
  BY DirIs
<1>4. \A c \in DOMAIN data \ DirCells(data, di) : d[c] = data[c]
  BY <1>3 DEF Relabelled
<1>5. \A c \in DirCells(data, di) :
        d[c] = Entry(NewName(data[c].name, R), data[c].start, data[c].length)
  BY <1>3 DEF Relabelled
<1>6. \A name, start, length : /\ Entry(name, start, length).kind = "entry"
                               /\ Entry(name, start, length).start = start
  BY DEF Entry
<1>7. d[di * Sector].start = data[di * Sector].start
  BY <1>3, <1>5, <1>6
<1>8. DirCells(d, di) = DirCells(data, di)
  BY <1>7 DEF DirCells
<1>9. \A c \in DOMAIN data : d[c].kind = data[c].kind
  BY <1>3, <1>4, <1>5, <1>6
<1>10. nsec(d) = nsec(data)
  BY <1>1 DEF nsec
<1>11. headers(d) = headers(data)
  <2>1. ASSUME NEW i \in 0 .. nsec(data) - 1
        PROVE  d[i * Sector].kind = data[i * Sector].kind
    <3>1. i \in Nat /\ i < nsec(data)
      <4>1. nsec(data) \in Nat
        BY LaidIs
      <4> QED
        BY <4>1
    <3>2. i * Sector \in DOMAIN data
      BY <3>1, LaidIs
    <3> QED
      BY <1>9, <3>2
  <2> QED
    BY <1>10, <2>1 DEF headers
<1> QED
  BY <1>1, <1>4, <1>5, <1>8, <1>9, <1>10, <1>11

LEMMA EntryIs ==
  ASSUME NEW name, NEW start, NEW length
  PROVE  /\ Entry(name, start, length).kind = "entry"
         /\ Entry(name, start, length).name = name
         /\ Entry(name, start, length).start = start
         /\ Entry(name, start, length).length = length
BY DEF Entry

LEMMA EntryFields ==
  ASSUME NEW data, NEW di, NEW room, Laid(data, di, room), NEW c \in DirCells(data, di)
  PROVE  /\ c \in DOMAIN data /\ data[c].kind = "entry"
         /\ data[c] = Entry(data[c].name, data[c].start, data[c].length)
         /\ data[c].name # "" /\ data[c].start \in Nat /\ data[c].length \in Nat
<1>1. c \in DOMAIN data /\ data[c].kind = "entry"
  BY DirIs
<1>2. PICK e : e = data[c]
  OBVIOUS
<1>3. CellOK(e) /\ e.kind = "entry"
  BY <1>1, <1>2, LaidIs
<1>4. /\ e = Entry(e.name, e.start, e.length)
      /\ e.name # "" /\ e.start \in Nat /\ e.length \in Nat
  BY <1>3 DEF CellOK
<1> QED
  BY <1>1, <1>2, <1>4

LEMMA RelabelledNone ==
  ASSUME NEW data, NEW di, NEW room, Laid(data, di, room)
  PROVE  Relabelled(data, {}) = data
<1>1. PICK d : d = Relabelled(data, {})
  OBVIOUS
<1>2. /\ DOMAIN d = DOMAIN data
      /\ \A c \in DOMAIN data \ DirCells(data, di) : d[c] = data[c]
      /\ \A c \in DirCells(data, di) :
           d[c] = Entry(NewName(data[c].name, {}), data[c].start, data[c].length)
  BY <1>1, RelabelledIs
<1>3. \A c \in DirCells(data, di) : d[c] = data[c]
  BY <1>2, EntryFields DEF NewName
<1>4. data = [c \in DOMAIN data |-> data[c]]
  BY LaidFcn
<1>5. \A c \in DOMAIN data : d[c] = data[c]
  BY <1>2, <1>3
<1>6. d = [c \in DOMAIN d |-> d[c]]
  BY <1>1 DEF Relabelled
<1> QED
  BY ONLY <1>1, <1>2, <1>4, <1>5, <1>6

LEMMA RelabelledTwice ==
  ASSUME NEW data, NEW R \in SUBSET DOMAIN Typeable, NEW N \in SUBSET DOMAIN Typeable
  PROVE  Relabelled(Relabelled(data, R), N) = Relabelled(data, R \cup N)
<1>1. PICK d : d = Relabelled(data, R)
  OBVIOUS
<1>2. \A name : NewName(NewName(name, R), N) = NewName(name, R \cup N)
  <2>1. \A n \in R : Typeable[n] \notin N
    BY TypeableAssumption
  <2> QED
    BY <2>1 DEF NewName
<1>3. ASSUME NEW c \in DOMAIN data
      PROVE  (IF d[c].kind = "entry" THEN Entry(NewName(d[c].name, N), d[c].start, d[c].length) ELSE d[c])
               = IF data[c].kind = "entry"
                 THEN Entry(NewName(data[c].name, R \cup N), data[c].start, data[c].length) ELSE data[c]
  <2>1. d[c] = IF data[c].kind = "entry"
               THEN Entry(NewName(data[c].name, R), data[c].start, data[c].length) ELSE data[c]
    BY <1>1 DEF Relabelled
  <2>2. CASE data[c].kind = "entry"
    <3>1. PICK e, n : e = d[c] /\ n = NewName(data[c].name, R)
      OBVIOUS
    <3>2. /\ e.kind = "entry" /\ e.name = n /\ e.start = data[c].start /\ e.length = data[c].length
      BY <2>1, <2>2, <3>1, EntryIs
    <3>3. NewName(n, N) = NewName(data[c].name, R \cup N)
      BY <1>2, <3>1
    <3> QED
      BY ONLY <2>2, <3>1, <3>2, <3>3
  <2>3. CASE data[c].kind # "entry"
    BY <2>1, <2>3
  <2> QED
    BY <2>2, <2>3
<1>4. DOMAIN d = DOMAIN data
  BY <1>1 DEF Relabelled
<1>5. Relabelled(d, N) = Relabelled(data, R \cup N)
  BY <1>3, <1>4 DEF Relabelled
<1> QED
  BY <1>1, <1>5

AllAlone(data, di, room) ==
  \A c \in DirCells(data, di) \ {di * Sector} : Alone(data, di, room, data[c])

\* Renaming keeps the directory where it was, and nothing else is taken for it.
LEMMA RelabelledDir ==
  ASSUME NEW data, NEW di, NEW room, Laid(data, di, room), AllAlone(data, di, room),
         NEW R \in SUBSET DOMAIN Typeable, NEW d, d = Relabelled(data, R)
  PROVE  HasDir(d, di, room)
<1>1. /\ DOMAIN d = DOMAIN data /\ nsec(d) = nsec(data)
      /\ \A c \in DOMAIN data \ DirCells(data, di) : d[c] = data[c]
      /\ \A c \in DirCells(data, di) :
           d[c] = Entry(NewName(data[c].name, R), data[c].start, data[c].length)
      /\ DirCells(d, di) = DirCells(data, di)
      /\ \A c \in DOMAIN data : d[c].kind = data[c].kind
      /\ headers(d) = headers(data)
  BY RelabelledIs
<1>2. /\ nsec(data) \in Nat /\ DOMAIN data = 0 .. nsec(data) * Sector - 1
      /\ Cardinality(DOMAIN data) = nsec(data) * Sector
      /\ \A i \in Nat : i * Sector \in DOMAIN data <=> i < nsec(data)
      /\ \A c \in DOMAIN data : CellOK(data[c])
  BY LaidIs
<1>3. /\ di \in Nat /\ room \in Nat \ {0} /\ di * Sector \in Nat
      /\ data[di * Sector].start \in Counts
      /\ DirCells(data, di) \subseteq di * Sector .. (di + room) * Sector - 1
      /\ DirCells(data, di) \subseteq DOMAIN data /\ di * Sector \in DirCells(data, di)
      /\ \A c \in DOMAIN data : data[c].kind = "entry" <=> c \in DirCells(data, di)
  BY DirIs
<1>4. di + room <= nsec(data)
  BY DEF Laid
<1>5. d[di * Sector].start = data[di * Sector].start
  BY <1>1, <1>3, EntryIs
<1>6. ASSUME NEW c \in DirCells(data, di) \ {di * Sector}
      PROVE  Alone(d, di, room, d[c])
  <2>0. PICK e : e = data[c]
    OBVIOUS
  <2>1. /\ d[c].start = e.start /\ d[c].name = NewName(e.name, R)
        /\ e.name # "" /\ Alone(data, di, room, e)
    <3>1. d[c] = Entry(NewName(e.name, R), e.start, e.length) /\ Alone(data, di, room, e)
      BY <1>1, <2>0 DEF AllAlone
    <3>2. e.name # ""
      BY <2>0, EntryFields
    <3>3. PICK q, n : q = d[c] /\ n = NewName(e.name, R)
      OBVIOUS
    <3>4. q.start = e.start /\ q.name = n
      BY <3>1, <3>3, EntryIs
    <3> QED
      BY ONLY <3>1, <3>2, <3>3, <3>4
  <2>2. e.start \in Nat /\ e.start > room
    BY <2>1 DEF Alone
  <2>3. ASSUME NEW m \in 1 .. room - 1,
               (di + e.start - 1) * Sector + m * Sector \in DOMAIN data
        PROVE  d[(di + e.start - 1) * Sector + m * Sector].name # d[c].name
    <3>1. PICK s : s = di + e.start - 1 + m
      OBVIOUS
    <3>2. /\ s \in Nat /\ di + e.start - 1 \in Nat /\ m \in Nat /\ di + room < s
          /\ di + room \in Nat
      BY <1>3, <2>2, <3>1
    <3>3. s * Sector = (di + e.start - 1) * Sector + m * Sector
      BY <3>1, <3>2, Product
    <3>4. s * Sector \in DOMAIN data /\ s * Sector \notin DirCells(data, di)
      <4>1. (di + room) * Sector <= s * Sector /\ s * Sector \in Nat /\ (di + room) * Sector \in Nat
        BY <3>2, Product
      <4> QED
        BY <1>3, <2>3, <3>3, <4>1
    <3>5. d[s * Sector] = data[s * Sector]
      BY <1>1, <3>4
    <3>6. data[s * Sector].name # e.name
      BY <2>0, <2>1, <2>3, <3>3 DEF Alone
    <3>7. ASSUME e.name \in R
          PROVE  data[s * Sector].name # Typeable[e.name]
      <4>1. Typeable[e.name] \in Range(Typeable) /\ Typeable[e.name] # ""
        BY <3>7, TypeableAssumption DEF Range
      <4>2. CASE data[s * Sector].kind = "head"
        <5>1. s \in headers(data)
          BY <1>2, <3>2, <3>4, <4>2 DEF headers
        <5>2. data[s * Sector].name \notin Range(Typeable)
          BY <5>1 DEF Laid
        <5> QED
          BY <4>1, <5>2
      <4>3. CASE data[s * Sector].kind # "head"
        <5>1. data[s * Sector].kind # "entry" /\ CellOK(data[s * Sector])
          BY <1>2, <1>3, <3>4
        <5>2. data[s * Sector].name = ""
          BY <4>3, <5>1, NoName
        <5> QED
          BY <4>1, <5>2
      <4> QED
        BY <4>2, <4>3
    <3> QED
      BY <2>1, <3>3, <3>5, <3>6, <3>7 DEF NewName
  <2>4. /\ d[c].start \in Nat /\ d[c].start > room
        /\ \A m \in 1 .. room - 1 :
             (di + d[c].start - 1) * Sector + m * Sector \in DOMAIN d =>
               d[(di + d[c].start - 1) * Sector + m * Sector].name # d[c].name
    BY ONLY <1>1, <2>1, <2>2, <2>3
  <2> QED
    BY ONLY <2>4 DEF Alone
<1>7. Cardinality(DOMAIN d) = nsec(d) * Sector
  BY <1>1, <1>2
<1> QED
  BY <1>1, <1>2, <1>3, <1>4, <1>5, <1>6, <1>7 DEF HasDir

EntryCells(data, di) ==
  \A c \in DirCells(data, di) : data[c] = Entry(data[c].name, data[c].start, data[c].length)

\* alias_pound.py renames every entry of the directory that it finds.
LEMMA AliasWrites ==
  ASSUME NEW data, NEW di, NEW room, HasDir(data, di, room), EntryCells(data, di), NEW N
  PROVE  LET ents == read_directory(data, di)
         IN  /\ Write(data, di * Sector,
                      [i \in DOMAIN ents |-> IF ents[i].name \in N
                                             THEN [ents[i] EXCEPT !.name = Typeable[@]]
                                             ELSE ents[i]]) = Relabelled(data, N)
             /\ {e.name : e \in ToSet(ents)} = {data[c].name : c \in DirCells(data, di)}
<1>0. /\ nsec(data) \in Nat /\ DOMAIN data = 0 .. nsec(data) * Sector - 1
      /\ Cardinality(DOMAIN data) = nsec(data) * Sector
      /\ di \in Nat /\ room \in Nat \ {0} /\ di + room <= nsec(data)
      /\ DirCells(data, di) \subseteq di * Sector .. (di + room) * Sector - 1
      /\ \A c \in DOMAIN data : data[c].kind = "entry" <=> c \in DirCells(data, di)
      /\ data[di * Sector].start \in Counts
  BY DEF HasDir
<1>20. PICK a, s, t : DirSpans(data, di, a, s, t)
  BY DirRead
<1>1. /\ a \in Nat /\ s \in Nat /\ t \in Nat
      /\ a = di * Sector /\ s = data[di * Sector].start /\ t = nsec(data) * Sector
      /\ s \in Counts /\ a + s <= t
      /\ DirCells(data, di) = a .. a + s - 1
      /\ ReadsAs(read_directory(data, di), data, a, s)
  BY ONLY <1>20 DEF DirSpans
<1>2. /\ a \in Nat /\ s \in Counts /\ t \in Nat /\ a + s <= t
      /\ DirCells(data, di) = a .. a + s - 1
  BY ONLY <1>1
<1>4. PICK ents : ents = read_directory(data, di)
  OBVIOUS
<1>5. ents = [k \in 1 .. s |-> data[a + k - 1]]
  BY <1>1, <1>4 DEF ReadsAs
<1>6. PICK cells : cells = [i \in DOMAIN ents |-> IF ents[i].name \in N
                                                 THEN [ents[i] EXCEPT !.name = Typeable[@]]
                                                 ELSE ents[i]]
  OBVIOUS
<1>7. DOMAIN cells = 1 .. s /\ DOMAIN ents = 1 .. s
  BY <1>5, <1>6
<1>8. ASSUME NEW c \in DOMAIN data
      PROVE  (IF c - a + 1 \in DOMAIN cells THEN cells[c - a + 1] ELSE data[c])
               = IF data[c].kind = "entry"
                 THEN Entry(NewName(data[c].name, N), data[c].start, data[c].length) ELSE data[c]
  <2>0. c \in Nat
    <3>1. c \in 0 .. t - 1
      BY <1>0, <1>1
    <3> QED
      BY <1>2, <3>1
  <2>1. c - a + 1 \in 1 .. s <=> c \in a .. a + s - 1
    BY <1>2, <2>0, Between
  <2>2. CASE c \in DirCells(data, di)
    <3>1. c - a + 1 \in 1 .. s /\ a + (c - a + 1) - 1 = c
      BY <1>2, <2>0, <2>1, <2>2
    <3>2. ents[c - a + 1] = data[c]
      BY <1>5, <3>1
    <3>3. PICK e : e = data[c]
      OBVIOUS
    <3>4. cells[c - a + 1] = IF e.name \in N THEN [e EXCEPT !.name = Typeable[@]] ELSE e
      BY <1>6, <1>7, <3>1, <3>2, <3>3
    <3>5. e = Entry(e.name, e.start, e.length)
      BY <2>2, <3>3 DEF EntryCells
    <3>6. (IF e.name \in N THEN [e EXCEPT !.name = Typeable[@]] ELSE e)
            = Entry(NewName(e.name, N), e.start, e.length)
      BY <3>5 DEF Entry, NewName
    <3>7. data[c].kind = "entry"
      BY <1>0, <2>2
    <3> QED
      BY <1>7, <3>1, <3>3, <3>4, <3>6, <3>7
  <2>3. CASE c \notin DirCells(data, di)
    BY <1>0, <1>2, <1>7, <2>1, <2>3
  <2> QED
    BY <2>2, <2>3
<1>9. Write(data, a, cells) = Relabelled(data, N)
  BY <1>8 DEF Write, Relabelled
<1>10. {e.name : e \in ToSet(ents)} = {data[c].name : c \in DirCells(data, di)}
  <2>1. ToSet(ents) = {data[c] : c \in DirCells(data, di)}
    <3>1. \A k \in 1 .. s : a + k - 1 \in a .. a + s - 1
      BY <1>2, Between
    <3>2. \A c \in a .. a + s - 1 : c - a + 1 \in 1 .. s /\ a + (c - a + 1) - 1 = c
      BY <1>2, Between
    <3>3. \A k \in 1 .. s : ents[k] = data[a + k - 1]
      BY <1>5
    <3>4. ToSet(ents) = {ents[k] : k \in 1 .. s}
      BY <1>7 DEF ToSet
    <3>5. \A c \in a .. a + s - 1 : data[c] \in {ents[k] : k \in 1 .. s}
      BY <3>2, <3>3
    <3>6. \A k \in 1 .. s : ents[k] \in {data[c] : c \in a .. a + s - 1}
      BY <3>1, <3>3
    <3>7. {ents[k] : k \in 1 .. s} = {data[c] : c \in a .. a + s - 1}
      BY ONLY <3>5, <3>6
    <3> QED
      BY ONLY <1>2, <3>4, <3>7
  <2>2. PICK T : T = ToSet(ents)
    OBVIOUS
  <2>3. T = {data[c] : c \in DirCells(data, di)}
    BY <2>1, <2>2
  <2>4. {e.name : e \in T} = {data[c].name : c \in DirCells(data, di)}
    BY ONLY <2>3
  <2> QED
    BY <2>2, <2>4
<1> QED
  BY ONLY <1>1, <1>4, <1>6, <1>9, <1>10

(* What an entry leads to, and what is kept.                                *)

\* The name of the module that build_allres_osg.py makes an entry for.
AsCopied(name) ==
  IF \E m \in ToSet(OSG) : m.as = name THEN (CHOOSE m \in ToSet(OSG) : m.as = name).name ELSE name

\* An entry leads to a module of its name and length.
Leads(data, di, e, fmd, swapped) ==
  LET o == (di + e.start - 1) * Sector
  IN  /\ o \in DOMAIN data /\ data[o].kind = "head" /\ e.length <= data[o].length
      /\ \E h \in Heads(data, o) :
           /\ h.name = AsCopied(e.name) \/ (h.name = "0FMD" /\ e.name = "0FMU" /\ fmd)
           /\ h.length = e.length \/ AsCopied(e.name) \in swapped

AllLead(data, di, fmd, swapped) ==
  \A c \in DirCells(data, di) \ {di * Sector} :
    data[c].name \notin Specials => Leads(data, di, data[c], fmd, swapped)

\* The entries for the modules of the original are where they were.
IndexKept(was, data, di, fmd) ==
  \A c \in DirCells(was, di) \ {di * Sector} :
    was[c].name \in {was[i * Sector].name : i \in headers(was)} /\ ~(fmd /\ was[c].name = "0FMU") =>
      /\ c \in DirCells(data, di) /\ data[c].name = was[c].name
      /\ (di + data[c].start - 1) * Sector \in DOMAIN data
      /\ data[(di + data[c].start - 1) * Sector].name = was[c].name

NamesOK(data, di, R) ==
  /\ R \subseteq DOMAIN Typeable
  /\ \A n \in R : \A c \in DirCells(data, di) : data[c].name # Typeable[n]

(* The originals.                                                           *)

LEMMA OriginalIs ==
  ASSUME NEW s \in Shelves, NEW d \in DOMAIN s
  PROVE  /\ Laid(s[d].data, s[d].dir, Room(d, s[d])) /\ ContainersOK(s[d].data)
         /\ EntriesLead(s[d].data, s[d].dir, Room(d, s[d]))
         /\ s[d].pointer \in {0, s[d].dir + 1}
         /\ s[d] = [data |-> s[d].data, pointer |-> s[d].pointer, dir |-> s[d].dir, slots |-> s[d].slots]
         /\ s[d].data[s[d].dir * Sector].name \notin {"0FMU", "1KYB"}
         /\ \A c \in DirCells(s[d].data, s[d].dir), m \in ToSet(OSG) :
              s[d].data[c].name = m.as => m.as = m.name
<1>1. ImageOK(s[d], Room(d, s[d]))
  BY OriginalsAssumption
<1>2. /\ s[d].data[s[d].dir * Sector].name \notin {"0FMU", "1KYB"}
      /\ \A c \in DirCells(s[d].data, s[d].dir), m \in ToSet(OSG) :
           s[d].data[c].name = m.as => m.as = m.name
  BY OriginalsAssumption
<1> QED
  BY <1>1, <1>2 DEF ImageOK

(* What is read, and slots.                                                 *)

LEMMA ReadIs ==
  ASSUME NEW data, NEW at, NEW n \in Nat
  PROVE  Read(data, at, n) = [k \in 1 .. n |-> data[at + k - 1]] /\ Len(Read(data, at, n)) = n
<1> DEFINE f == [k \in 1 .. n |-> data[at + k - 1]]
           T == {f[k] : k \in 1 .. n}
<1>1. f \in [1 .. n -> T]
  OBVIOUS
<1>2. Len(f) = n
  <2> HIDE DEF f, T
  <2> QED
    BY <1>1, FcnIsSeq
<1> QED
  BY <1>2 DEF Read

\* What is read in two places is the same if the cells are.
LEMMA SameRead ==
  ASSUME NEW d, NEW b, NEW at \in Int, NEW from \in Int, NEW n \in Nat,
         \A k \in 0 .. n - 1 : d[at + k] = b[from + k]
  PROVE  Read(d, at, n) = Read(b, from, n)
<1>1. ASSUME NEW k \in 1 .. n
      PROVE  d[at + k - 1] = b[from + k - 1]
  <2>1. PICK j : j = k - 1
    OBVIOUS
  <2>2. j \in 0 .. n - 1 /\ at + k - 1 = at + j /\ from + k - 1 = from + j
    BY <2>1
  <2> QED
    BY <2>2
<1> QED
  BY <1>1 DEF Read

\* l1lib.py finds the sector that build_oslem7_containers.py has written.
LEMMA SlotIndexOf ==
  ASSUME NEW data, NEW n \in Nat
  PROVE  SlotIndex(SlotFor(data, n)) = n
<1>0. Side \in Nat \ {0}
  BY GeometryAssumption
<1>1. PICK d : d = 2 * Side
  OBVIOUS
<1>2. d \in Nat \ {0}
  BY <1>0, <1>1
<1>3. PICK c, r : c = n \div d /\ r = n % d
  OBVIOUS
<1>4. c \in Nat /\ r \in 0 .. d - 1 /\ n = c * d + r /\ r \in Nat
  <2>0. n \in Nat
    OBVIOUS
  <2>1. n \div d \in Nat /\ n % d \in 0 .. d - 1 /\ n = (n \div d) * d + (n % d)
    BY ONLY <1>2, <2>0, DivMod
  <2>2. c \in Nat /\ r \in 0 .. d - 1 /\ n = c * d + r
    BY <1>3, <2>1
  <2> QED
    BY ONLY <1>2, <2>2
<1>5. PICK h, m : h = r \div Side /\ m = r % Side
  OBVIOUS
<1>6. h \in Nat /\ m \in 0 .. Side - 1 /\ r = h * Side + m /\ m \in Nat
  <2>1. r \div Side \in Nat /\ r % Side \in 0 .. Side - 1 /\ r = (r \div Side) * Side + (r % Side)
    BY ONLY <1>0, <1>4, DivMod
  <2>2. h \in Nat /\ m \in 0 .. Side - 1 /\ r = h * Side + m
    BY <1>5, <2>1
  <2> QED
    BY ONLY <1>0, <2>2
<1>7. PICK k, q : k = n % Side /\ q = n \div Side
  OBVIOUS
<1>8. k = m
  <2>1. PICK p : p = c * 2 + h
    OBVIOUS
  <2>2. p \in Nat /\ n = p * Side + m
    <3>1. c * d = c * 2 * Side
      BY <1>0, <1>1, <1>4
    <3>2. p * Side = c * 2 * Side + h * Side
      BY <1>0, <1>4, <1>6, <2>1
    <3>3. c * 2 * Side \in Nat /\ h * Side \in Nat
      BY <1>0, <1>4, <1>6
    <3>4. p \in Nat
      BY <1>4, <1>6, <2>1
    <3> QED
      BY ONLY <1>4, <1>6, <3>1, <3>2, <3>3, <3>4
  <2>3. n % Side = m
    BY ONLY <1>0, <1>6, <2>2, DivIs
  <2> QED
    BY <1>7, <2>3
<1>9. PICK slot : slot = SlotFor(data, n)
  OBVIOUS
<1>10. slot.cyl = c + 1 /\ slot.head = h /\ slot.sec = k + 1
  BY <1>1, <1>3, <1>5, <1>7, <1>9 DEF SlotFor
<1>11. SlotIndex(slot) = ((c + 1) - 1) * 2 * Side + h * Side + (k + 1) - 1
  BY <1>10 DEF SlotIndex
<1>12. ((c + 1) - 1) * 2 * Side = c * d
  BY <1>0, <1>1, <1>4
<1>13. SlotIndex(slot) = n
  <2>1. c * d \in Nat /\ h * Side \in Nat
    BY <1>0, <1>2, <1>4, <1>6
  <2> QED
    BY ONLY <1>4, <1>6, <1>8, <1>11, <1>12, <2>1
<1> QED
  BY <1>9, <1>13

\* The last module of a name.
LEMMA LastNamed ==
  ASSUME NEW data, nsec(data) \in Nat, NEW name, Named(data, name) # {}
  PROVE  /\ Max(Named(data, name)) \in headers(data)
         /\ data[Max(Named(data, name)) * Sector].name = name
<1>1. Named(data, name) \in SUBSET (0 .. nsec(data))
  BY DEF Named, headers
<1>2. Max(Named(data, name)) \in Named(data, name)
  BY <1>1, MaxOf
<1> QED
  BY <1>2 DEF Named

\* A header that is found in a module is not longer than it.
LEMMA HeadLength ==
  ASSUME NEW data, NEW di, NEW room, Laid(data, di, room), ContainersOK(data),
         NEW i \in headers(data), NEW h \in Heads(data, i * Sector)
  PROVE  h.length \in Nat /\ h.length <= data[i * Sector].length
<1>1. PICK o : o = i * Sector
  OBVIOUS
<1>2. PICK offs : offs = sub_offsets(data, o)
  OBVIOUS
<1>3. HeaderOK(data, i)
  BY HeaderIs
<1>4. data[o].length \in Nat
  BY <1>1, <1>3 DEF HeaderOK
<1>5. offs \in Seq(1 .. data[o].length)
  BY <1>1, <1>2, <1>3, SubsIs
<1>6. CASE h = data[o]
  BY <1>1, <1>4, <1>6
<1>7. CASE h # data[o]
  <2>1. PICK x \in ToSet(offs) : h = data[o + x]
    BY <1>1, <1>2, <1>7 DEF Heads
  <2>2. PICK n \in DOMAIN offs : x = offs[n]
    BY <2>1 DEF ToSet
  <2>3. /\ offs[n] \in 1 .. data[o].length /\ data[o + offs[n]].length \in Nat
        /\ SubEnd(data, o, n) \in Nat /\ SubEnd(data, o, n) <= 1 + data[o].length
        /\ offs[n] + data[o + offs[n]].length < SubEnd(data, o, n)
    BY <1>1, <1>2, SubRanges
  <2>4. PICK l, f, u : l = data[o + offs[n]].length /\ f = offs[n] /\ u = data[o].length
    OBVIOUS
  <2>5. l \in Nat /\ l <= u
    BY ONLY <1>4, <2>3, <2>4
  <2> QED
    BY <1>1, <2>1, <2>2, <2>4, <2>5
<1> QED
  BY <1>6, <1>7

LEMMA SameAsCopied ==
  ASSUME NEW name, \A m \in ToSet(OSG) : name = m.as => m.as = m.name
  PROVE  AsCopied(name) = name
<1>1. CASE \E m \in ToSet(OSG) : m.as = name
  <2>1. PICK m : m = CHOOSE x \in ToSet(OSG) : x.as = name
    OBVIOUS
  <2>2. m \in ToSet(OSG) /\ m.as = name
    BY <1>1, <2>1
  <2> QED
    BY <1>1, <2>1, <2>2 DEF AsCopied
<1>2. CASE ~\E m \in ToSet(OSG) : m.as = name
  BY <1>2 DEF AsCopied
<1> QED
  BY <1>1, <1>2

(* Edits that leave the layout as it is.                                    *)

\* b is w with other cells, but the same directory and as many modules.
SameLayout(w, b, di) ==
  /\ DOMAIN b = DOMAIN w /\ b = [c \in DOMAIN b |-> b[c]]
  /\ \A c \in DOMAIN w : CellOK(b[c]) /\ (b[c].kind = "entry" <=> w[c].kind = "entry")
  /\ b[di * Sector].start = w[di * Sector].start
  /\ \A i \in Nat : i * Sector \in DOMAIN w =>
       (b[i * Sector].kind = "head" <=> w[i * Sector].kind = "head")
  /\ \A i \in headers(w) : /\ SectorsOf(b[i * Sector].length) <= SectorsOf(w[i * Sector].length)
                           /\ b[i * Sector].name \notin Specials \cup Range(Typeable)

LEMMA LaidAgain ==
  ASSUME NEW w, NEW b, NEW di, NEW room, Laid(w, di, room), SameLayout(w, b, di)
  PROVE  Laid(b, di, room) /\ headers(b) = headers(w)
<1>1. /\ nsec(w) \in Nat /\ DOMAIN w = 0 .. nsec(w) * Sector - 1
      /\ \A i \in Nat : i * Sector \in DOMAIN w <=> i < nsec(w)
  BY LaidIs
<1>2. nsec(b) = nsec(w)
  BY DEF SameLayout, nsec
<1>3. b = [c \in 0 .. nsec(b) * Sector - 1 |-> b[c]]
  BY <1>1, <1>2 DEF SameLayout
<1>4. headers(b) = headers(w)
  <2>1. \A i \in 0 .. nsec(w) - 1 : i \in Nat /\ i * Sector \in DOMAIN w
    BY <1>1
  <2> QED
    BY <1>2, <2>1 DEF headers, SameLayout
<1>5. ASSUME NEW i \in headers(w)
      PROVE  Behind(b, i) \in Nat /\ Behind(w, i) \in Nat /\ Behind(b, i) <= Behind(w, i)
  <2>1. HeaderOK(w, i)
    BY HeaderIs
  <2>2. PICK l, m : l = b[i * Sector].length /\ m = w[i * Sector].length
    OBVIOUS
  <2>3. l \in Nat /\ m \in Nat /\ SectorsOf(l) <= SectorsOf(m)
    <3>1. CellOK(b[i * Sector]) /\ b[i * Sector].kind = "head"
      BY <2>1 DEF SameLayout, HeaderOK
    <3>2. b[i * Sector].length \in Nat
      BY <3>1 DEF CellOK
    <3> QED
      BY <2>1, <2>2, <3>2 DEF SameLayout, HeaderOK
  <2>4. SectorsOf(l) \in Nat /\ SectorsOf(m) \in Nat
    BY <2>3, SectorsOfIs
  <2>5. i \in Nat
    BY <2>1 DEF HeaderOK
  <2> QED
    BY <2>2, <2>3, <2>4, <2>5 DEF Behind
<1>6. DirCells(b, di) = DirCells(w, di)
  BY DEF DirCells, SameLayout
<1>7. /\ di \in Nat /\ room \in Nat \ {0} /\ di + room <= nsec(b)
      /\ b[di * Sector].start \in Counts /\ b[di * Sector].start <= room * Sector
  BY <1>2 DEF Laid, SameLayout
<1>8. \A c \in DOMAIN b : CellOK(b[c]) /\ (b[c].kind = "entry" <=> c \in DirCells(b, di))
  BY <1>6 DEF Laid, SameLayout
<1>9. ASSUME NEW i \in headers(b)
      PROVE  /\ Behind(b, i) <= nsec(b)
             /\ di + room <= i \/ Behind(b, i) <= di
             /\ b[i * Sector].name \notin Specials \cup Range(Typeable)
             /\ \A j \in headers(b) : i < j => Behind(b, i) <= j
  <2>1. /\ Behind(w, i) <= nsec(w)
        /\ di + room <= i \/ Behind(w, i) <= di
        /\ \A j \in headers(w) : i < j => Behind(w, i) <= j
    BY <1>4 DEF Laid
  <2>2. Behind(b, i) \in Nat /\ Behind(w, i) \in Nat /\ Behind(b, i) <= Behind(w, i)
    BY <1>4, <1>5
  <2>3. \A j \in headers(w) : j \in Nat
    BY <1>1 DEF headers
  <2>4. \A j \in headers(b) : i < j => Behind(b, i) <= j
    BY ONLY <1>4, <2>1, <2>2, <2>3
  <2>5. b[i * Sector].name \notin Specials \cup Range(Typeable)
    BY <1>4 DEF SameLayout
  <2>6. Behind(b, i) <= nsec(b)
    BY ONLY <1>1, <1>2, <2>1, <2>2
  <2>7. di + room <= i \/ Behind(b, i) <= di
    BY ONLY <1>7, <2>1, <2>2
  <2> QED
    BY <2>4, <2>5, <2>6, <2>7
<1>10. nsec(b) \in Nat
  BY <1>1, <1>2
<1> QED
  BY <1>3, <1>4, <1>7, <1>8, <1>9, <1>10 DEF Laid

LEMMA EntryOK ==
  ASSUME NEW name, name # "", NEW start \in Nat, NEW length \in Nat
  PROVE  CellOK(Entry(name, start, length))
<1>1. PICK e : e = Entry(name, start, length)
  OBVIOUS
<1>2. e.kind = "entry" /\ e.name = name /\ e.start = start /\ e.length = length
  BY <1>1 DEF Entry
<1>3. e = Entry(e.name, e.start, e.length)
  BY <1>1, <1>2
<1>4. e.name # "" /\ e.start \in Nat /\ e.length \in Nat
  BY <1>2
<1>5. CellOK(e)
  BY ONLY <1>2, <1>3, <1>4 DEF CellOK
<1> QED
  BY <1>1, <1>5

\* What a script keeps of an entry that it leaves alone.
LEMMA AloneAgain ==
  ASSUME NEW w, NEW b, NEW di \in Nat, NEW room \in Nat, DOMAIN b = DOMAIN w, NEW e, NEW f,
         Alone(w, di, room, e), f.start = e.start, f.name = e.name,
         \A s \in Nat : s * Sector \in DOMAIN w =>
           b[s * Sector].name = w[s * Sector].name \/ b[s * Sector].name # e.name
  PROVE  Alone(b, di, room, f)
<1>1. e.start \in Nat /\ e.start > room
  BY DEF Alone
<1>2. ASSUME NEW m \in 1 .. room - 1, NEW c, c = (di + e.start - 1) * Sector + m * Sector,
             c \in DOMAIN b
      PROVE  b[c].name # e.name
  <2>1. PICK p : p = di + e.start - 1
    OBVIOUS
  <2>2. p \in Nat /\ m \in Nat
    BY <1>1, <2>1
  <2>3. c = (p + m) * Sector /\ p + m \in Nat
    <3>1. (p + m) * Sector = p * Sector + m * Sector
      BY ONLY <2>2, Product
    <3>2. p + m \in Nat
      BY ONLY <2>2
    <3> QED
      BY <1>2, <2>1, <3>1, <3>2
  <2>4. w[c].name # e.name
    BY <1>2 DEF Alone
  <2> QED
    BY <1>2, <2>3, <2>4
<1> QED
  BY <1>1, <1>2 DEF Alone

(* Modules that are copied over others.                                     *)

\* Its cells are all that there is of an area.
IsArea(b) == b = [c \in DOMAIN b |-> b[c]]

\* Another module in place of module p, whose entry is i0.
Swap(w, b, p, head, i0) ==
  /\ DOMAIN b = DOMAIN w /\ IsArea(b)
  /\ \A c \in DOMAIN w \ Cells(w, p) : c # i0 => b[c] = w[c]
  /\ \A c \in Cells(w, p) : CellOK(b[c]) /\ b[c].kind # "entry"
  /\ b[p * Sector] = head /\ head.kind = "head"
  /\ head.length \in Nat /\ SectorsOf(head.length) <= SectorsOf(w[p * Sector].length)
  /\ \A s \in Nat : s # p /\ s * Sector \in Cells(w, p) =>
       b[s * Sector].kind = "data" /\ b[s * Sector].name = ""
  /\ b[i0] = Entry(w[i0].name, w[i0].start, head.length)

\* What is written: n cells read from another area, and zeros up to m cells.
Padded(b, data, at, from, f, n, m) ==
  /\ DOMAIN b = DOMAIN data /\ IsArea(b)
  /\ \A c \in DOMAIN data : c \notin at .. at + m - 1 => b[c] = data[c]
  /\ \A k \in 0 .. m - 1 : at + k \in DOMAIN data =>
       b[at + k] = (IF k < n THEN from[f + k] ELSE Zero)

LEMMA Filled ==
  ASSUME NEW data, \A c \in DOMAIN data : c \in Nat, NEW at \in Nat, NEW from, NEW f \in Nat,
         NEW n \in Nat, NEW m \in Nat, n <= m,
         NEW cells, cells = Read(from, f, n) \o [k \in 1 .. m - n |-> Zero],
         NEW b, b = Write(data, at, cells)
  PROVE  Padded(b, data, at, from, f, n, m)
<1>1. PICK s, z, l : s = Read(from, f, n) /\ z = [k \in 1 .. m - n |-> Zero] /\ l = m - n
  OBVIOUS
<1>2. l \in Nat /\ n + l = m
  BY <1>1
<1>3. s = [k \in 1 .. n |-> from[f + k - 1]] /\ Len(s) = n
  BY <1>1, ReadIs
<1>4. z = [k \in 1 .. l |-> Zero]
  BY <1>1
<1>5. PICK S : S = {from[f + k - 1] : k \in 1 .. n} \cup {Zero}
  OBVIOUS
<1>6. s \in [1 .. n -> S] /\ z \in [1 .. l -> S]
  BY <1>3, <1>4, <1>5
<1>7. s \in Seq(S) /\ z \in Seq(S) /\ Len(z) = l
  BY <1>2, <1>6, FcnIsSeq
<1>8. /\ cells = s \o z /\ cells \in Seq(S) /\ Len(cells) = m
      /\ \A i \in 1 .. Len(s) + Len(z) :
           cells[i] = IF i <= Len(s) THEN s[i] ELSE z[i - Len(s)]
  <2>1. cells = s \o z
    BY <1>1
  <2>2. Len(s) + Len(z) = m
    BY <1>2, <1>3, <1>7
  <2>3. s \in Seq(S) /\ z \in Seq(S)
    BY <1>7
  <2>4. /\ s \o z \in Seq(S) /\ Len(s \o z) = Len(s) + Len(z)
        /\ \A i \in 1 .. Len(s) + Len(z) :
             (s \o z)[i] = IF i <= Len(s) THEN s[i] ELSE z[i - Len(s)]
    BY ONLY <2>3, ConcatProperties
  <2> QED
    BY ONLY <2>1, <2>2, <2>4
<1>9. DOMAIN cells = 1 .. m
  BY <1>8
<1>10. b = [c \in DOMAIN data |-> IF c - at + 1 \in 1 .. m THEN cells[c - at + 1] ELSE data[c]]
  BY <1>9 DEF Write
<1>11. DOMAIN b = DOMAIN data /\ IsArea(b)
  BY ONLY <1>10 DEF IsArea
<1>12. ASSUME NEW c \in DOMAIN data, c \notin at .. at + m - 1
       PROVE  b[c] = data[c]
  <2>1. c \in Nat
    OBVIOUS
  <2>2. c - at + 1 \notin 1 .. m
    BY ONLY <1>12, <2>1, at \in Nat, m \in Nat
  <2> QED
    BY ONLY <1>10, <2>2
<1>13. ASSUME NEW k \in 0 .. m - 1, at + k \in DOMAIN data
       PROVE  b[at + k] = (IF k < n THEN from[f + k] ELSE Zero)
  <2>1. PICK i : i = k + 1
    OBVIOUS
  <2>2. i \in 1 .. m /\ i = (at + k) - at + 1 /\ i - 1 = k /\ (k < n <=> i <= n)
    BY <2>1
  <2>3. b[at + k] = cells[i]
    BY ONLY <1>10, <1>13, <2>2
  <2>4. cells[i] = IF i <= n THEN s[i] ELSE z[i - n]
    BY ONLY <1>2, <1>3, <1>7, <1>8, <2>2
  <2>5. CASE k < n
    <3>1. i \in 1 .. n /\ f + i - 1 = f + k
      BY <2>2, <2>5
    <3>2. s[i] = from[f + k]
      BY <1>3, <3>1
    <3> QED
      BY ONLY <2>2, <2>3, <2>4, <2>5, <3>2
  <2>6. CASE ~(k < n)
    <3>1. i - n \in 1 .. l
      BY <1>2, <2>2, <2>6
    <3>2. z[i - n] = Zero
      BY <1>4, <3>1
    <3> QED
      BY ONLY <2>2, <2>3, <2>4, <2>6, <3>2
  <2> QED
    BY <2>5, <2>6
<1> QED
  BY ONLY <1>11, <1>12, <1>13 DEF Padded

\* The same without zeros.
Pasted(b, data, at, from, f, n) ==
  /\ DOMAIN b = DOMAIN data /\ IsArea(b)
  /\ \A c \in DOMAIN data : c \notin at .. at + n - 1 => b[c] = data[c]
  /\ \A k \in 0 .. n - 1 : at + k \in DOMAIN data => b[at + k] = from[f + k]

LEMMA Copy ==
  ASSUME NEW data, \A c \in DOMAIN data : c \in Nat, NEW at \in Nat, NEW from, NEW f \in Nat,
         NEW n \in Nat, NEW cells, cells = Read(from, f, n), NEW b, b = Write(data, at, cells)
  PROVE  Pasted(b, data, at, from, f, n)
<1>1. cells = [k \in 1 .. n |-> from[f + k - 1]] /\ DOMAIN cells = 1 .. n
  BY ReadIs
<1>2. b = [c \in DOMAIN data |-> IF c - at + 1 \in 1 .. n THEN cells[c - at + 1] ELSE data[c]]
  BY <1>1 DEF Write
<1>3. DOMAIN b = DOMAIN data /\ IsArea(b)
  BY <1>2 DEF IsArea
<1>4. ASSUME NEW c \in DOMAIN data, c \notin at .. at + n - 1
      PROVE  b[c] = data[c]
  <2>1. c \in Nat
    OBVIOUS
  <2>2. c - at + 1 \notin 1 .. n
    BY ONLY <1>4, <2>1, at \in Nat, n \in Nat
  <2> QED
    BY <1>2, <2>2
<1>5. ASSUME NEW k \in 0 .. n - 1, at + k \in DOMAIN data
      PROVE  b[at + k] = from[f + k]
  <2>1. PICK i : i = k + 1
    OBVIOUS
  <2>2. i \in 1 .. n /\ i = (at + k) - at + 1 /\ f + i - 1 = f + k
    BY <2>1
  <2>3. cells[i] = from[f + k]
    BY <1>1, <2>2
  <2>4. b[at + k] = cells[i]
    BY <1>2, <1>5, <2>2
  <2> QED
    BY <2>3, <2>4
<1> QED
  BY <1>3, <1>4, <1>5 DEF Pasted

\* The cells of a module, one after the other.
ModuleCells(from, q, f, n) ==
  /\ n \in Nat /\ from[f].length < n /\ n # 0 /\ f + n = Behind(from, q) * Sector
  /\ from[f].kind = "head" /\ from[f].length \in Nat
  /\ \A k \in 0 .. n - 1 : CellOK(from[f + k]) /\ from[f + k].kind # "entry"
  /\ \A s \in Nat : s # 0 /\ s * Sector \in 0 .. n - 1 =>
       from[f + s * Sector].kind = "data" /\ from[f + s * Sector].name = ""

LEMMA ModuleHas ==
  ASSUME NEW from, NEW di, NEW room, Laid(from, di, room), NEW q \in headers(from),
         NEW f, f = q * Sector, NEW n, n = SectorsOf(from[f].length) * Sector
  PROVE  ModuleCells(from, q, f, n) /\ body(from, q) = Read(from, f, n) /\ Len(body(from, q)) = n
<1>1. HeaderOK(from, q)
  <2>1. Laid(from, di, room) /\ q \in headers(from)
    OBVIOUS
  <2> QED
    BY ONLY <2>1, HeaderIs
<1>2. PICK l, o, r : l = from[q * Sector].length /\ o = q * Sector /\ r = SectorsOf(l)
  OBVIOUS
<1>3. q \in Nat /\ l \in Nat /\ from[o].kind = "head" /\ Behind(from, q) = q + r
  BY <1>1, <1>2 DEF HeaderOK, Behind
<1>4. r \in Nat \ {0} /\ l < r * Sector /\ Sector \in Nat \ {0}
  BY <1>3, <1>2, SectorsOfIs, GeometryAssumption
<1>5. n = r * Sector /\ f = o
  BY <1>2
<1>6. n \in Nat /\ n = Sector * r /\ o \in Nat /\ n # 0 /\ l < n
  BY <1>2, <1>3, <1>4, <1>5
<1>7. (q + r) * Sector = o + n
  BY <1>2, <1>3, <1>4, <1>5, Product
<1>8. body(from, q) = Read(from, o, n) /\ Len(body(from, q)) = n
  <2>1. body(from, q) = Read(from, o, n)
    BY <1>2, <1>5, <1>6 DEF body
  <2> QED
    BY <1>6, <2>1, ReadIs
<1>9. Cells(from, q) = o .. o + n - 1
  <2>1. Behind(from, q) * Sector = o + n
    BY <1>3, <1>7
  <2>2. PICK h, g : h = Behind(from, q) * Sector /\ g = q * Sector
    OBVIOUS
  <2>3. Cells(from, q) = g .. h - 1
    BY <2>2 DEF Cells
  <2>4. h = o + n /\ g = o
    BY <1>2, <2>1, <2>2
  <2> QED
    BY ONLY <1>6, <2>3, <2>4
<1>10. ASSUME NEW k \in 0 .. n - 1
       PROVE  /\ o + k \in Cells(from, q) /\ CellOK(from[o + k])
              /\ from[o + k].kind # "entry"
  <2>1. o + k \in Cells(from, q)
    BY <1>6, <1>9
  <2>2. o + k \in DOMAIN from /\ from[o + k].kind # "entry"
    BY <2>1, NotDir
  <2> QED
    BY <2>1, <2>2, LaidIs
<1>11. ASSUME NEW s \in Nat, s # 0, s * Sector \in 0 .. n - 1
       PROVE  from[o + s * Sector].kind = "data" /\ from[o + s * Sector].name = ""
  <2>1. PICK t : t = q + s
    OBVIOUS
  <2>2. t \in Nat /\ t # q
    BY <1>3, <1>11, <2>1
  <2>3. t * Sector = o + s * Sector
    BY <1>2, <1>3, <2>1, Product
  <2>4. t * Sector \in Cells(from, q)
    BY <1>10, <1>11, <2>3
  <2>5. from[t * Sector].kind = "data" /\ from[t * Sector].name = ""
    BY <2>2, <2>4, OneHeader
  <2> QED
    BY <2>3, <2>5
<1>12. n \in Nat /\ from[o].length < n /\ n # 0 /\ o + n = Behind(from, q) * Sector
  BY <1>2, <1>3, <1>6, <1>7
<1>13. from[o].kind = "head" /\ from[o].length \in Nat
  BY <1>2, <1>3
<1>14. \A k \in 0 .. n - 1 : CellOK(from[o + k]) /\ from[o + k].kind # "entry"
  BY <1>10
<1>15. ModuleCells(from, q, o, n)
  BY ONLY <1>11, <1>12, <1>13, <1>14 DEF ModuleCells
<1> QED
  BY <1>5, <1>8, <1>15

\* The place of a sector in a module.
LEMMA SectorIn ==
  ASSUME NEW p \in Nat, NEW s \in Nat, NEW m \in Nat, s * Sector \in p * Sector .. p * Sector + m - 1
  PROVE  \E t \in Nat : s = p + t /\ s * Sector = p * Sector + t * Sector /\ t * Sector \in 0 .. m - 1
<1>1. p * Sector \in Nat /\ s * Sector \in Nat /\ (s < p => s * Sector + Sector <= p * Sector)
  BY Product
<1>2. ~(s < p)
  BY <1>1, GeometryAssumption
<1>3. PICK t : t = s - p
  OBVIOUS
<1>4. t \in Nat /\ s = p + t
  BY <1>2, <1>3
<1>5. s * Sector = p * Sector + t * Sector /\ t * Sector \in Nat
  BY ONLY <1>4, Product
<1>6. t * Sector \in 0 .. m - 1
  BY ONLY <1>1, <1>5, m \in Nat, s * Sector \in p * Sector .. p * Sector + m - 1
<1> QED
  BY <1>4, <1>5, <1>6

\* n cells are copied over m cells; the rest is zeros or what it was.
Over(w, b, o, m, from, f, n, i0) ==
  /\ DOMAIN b = DOMAIN w /\ IsArea(b)
  /\ \A c \in DOMAIN w : c \notin o .. o + m - 1 /\ c # i0 => b[c] = w[c]
  /\ \A k \in 0 .. m - 1 :
       IF k < n THEN b[o + k] = from[f + k] ELSE b[o + k] \in {Zero, w[o + k]}
  /\ b[i0] = Entry(w[i0].name, w[i0].start, from[f].length)

\* A module is copied over another one.
LEMMA SwapFrom ==
  ASSUME NEW w, NEW di, NEW room, Laid(w, di, room), NEW p \in headers(w),
         NEW from, NEW q, NEW f, f = q * Sector, NEW o, o = p * Sector,
         NEW n, n = SectorsOf(from[f].length) * Sector, ModuleCells(from, q, f, n),
         NEW m, m = SectorsOf(w[o].length) * Sector, n <= m, q \in Nat,
         NEW i0 \in DirCells(w, di), NEW b, Over(w, b, o, m, from, f, n, i0)
  PROVE  Swap(w, b, p, from[f], i0)
<1>1. o = p * Sector /\ f = q * Sector
  OBVIOUS
<1>2. /\ n \in Nat /\ from[f].length < n /\ n # 0
      /\ from[f].kind = "head" /\ from[f].length \in Nat
      /\ \A k \in 0 .. n - 1 : CellOK(from[f + k]) /\ from[f + k].kind # "entry"
      /\ \A s \in Nat : s # 0 /\ s * Sector \in 0 .. n - 1 =>
           from[f + s * Sector].kind = "data" /\ from[f + s * Sector].name = ""
  BY DEF ModuleCells
<1>30. ModuleCells(w, p, o, m)
  BY ModuleHas
<1>3. /\ m \in Nat /\ o + m = Behind(w, p) * Sector
      /\ w[o].length \in Nat
      /\ \A k \in 0 .. m - 1 : CellOK(w[o + k]) /\ w[o + k].kind # "entry"
      /\ \A s \in Nat : s # 0 /\ s * Sector \in 0 .. m - 1 =>
           w[o + s * Sector].kind = "data" /\ w[o + s * Sector].name = ""
  BY <1>30 DEF ModuleCells
<1>31. n \in Nat /\ m \in Nat /\ n <= m /\ n # 0
  BY <1>2, <1>3
<1>4. HeaderOK(w, p)
  BY HeaderIs
<1>5. p \in Nat /\ o \in Nat
  BY <1>1, <1>4, Product DEF HeaderOK
<1>6. Cells(w, p) = o .. o + m - 1
  <2>1. Cells(w, p) = o .. Behind(w, p) * Sector - 1
    BY <1>1 DEF Cells
  <2>2. PICK h : h = Behind(w, p) * Sector
    OBVIOUS
  <2>3. h = o + m /\ Cells(w, p) = o .. h - 1
    BY <1>3, <2>1, <2>2
  <2> QED
    BY ONLY <1>31, <1>5, <2>3
<1>7. \A k \in 0 .. m - 1 :
        IF k < n THEN b[o + k] = from[f + k] ELSE b[o + k] \in {Zero, w[o + k]}
  BY DEF Over
<1>8. CellOK(Zero) /\ Zero.kind = "data" /\ Zero.name = ""
  BY DEF CellOK, Zero, Data
<1>9. ASSUME NEW k \in 0 .. m - 1
      PROVE  /\ CellOK(b[o + k]) /\ b[o + k].kind # "entry"
             /\ \A s \in Nat : s # 0 /\ k = s * Sector =>
                  b[o + k].kind = "data" /\ b[o + k].name = ""
  <2>1. CASE k < n
    <3>1. k \in 0 .. n - 1
      BY ONLY <1>31, <2>1, k \in 0 .. m - 1
    <3>2. b[o + k] = from[f + k]
      BY <1>7, <2>1
    <3> QED
      BY ONLY <1>2, <3>1, <3>2
  <2>2. CASE ~(k < n)
    <3>1. b[o + k] = Zero \/ b[o + k] = w[o + k]
      BY <1>7, <2>2
    <3>2. CASE b[o + k] = Zero
      BY <1>8, <3>2
    <3>3. CASE b[o + k] = w[o + k]
      BY ONLY <1>3, <3>3, k \in 0 .. m - 1
    <3> QED
      BY ONLY <3>1, <3>2, <3>3
  <2> QED
    BY <2>1, <2>2
<1>10. ASSUME NEW c \in Cells(w, p)
       PROVE  CellOK(b[c]) /\ b[c].kind # "entry"
  <2>1. PICK k : k = c - o
    OBVIOUS
  <2>2. k \in 0 .. m - 1 /\ c = o + k
    BY ONLY <1>31, <1>5, <1>6, <1>10, <2>1
  <2> QED
    BY <1>9, <2>2
<1>11. ASSUME NEW s \in Nat, s # p, s * Sector \in Cells(w, p)
       PROVE  b[s * Sector].kind = "data" /\ b[s * Sector].name = ""
  <2>1. s * Sector \in p * Sector .. p * Sector + m - 1
    BY <1>1, <1>6, <1>11
  <2>2. PICK t \in Nat : /\ s = p + t /\ s * Sector = p * Sector + t * Sector
                         /\ t * Sector \in 0 .. m - 1
    BY ONLY <1>31, <1>5, <1>11, <2>1, SectorIn
  <2>3. t # 0
    BY <1>5, <1>11, <2>2
  <2> QED
    BY <1>1, <1>9, <2>2, <2>3
<1>12. b[o] = from[f]
  <2>1. 0 \in 0 .. m - 1 /\ 0 < n
    BY ONLY <1>31
  <2>2. b[o + 0] = from[f + 0]
    BY <1>7, <2>1
  <2>3. f \in Nat
    BY <1>1, Product
  <2>4. o + 0 = o /\ f + 0 = f
    BY <1>5, <2>3
  <2> QED
    BY <2>2, <2>4
<1>13. SectorsOf(from[f].length) <= SectorsOf(w[o].length)
  <2>1. PICK x, y : x = SectorsOf(from[f].length) /\ y = SectorsOf(w[o].length)
    OBVIOUS
  <2>2. x \in Nat /\ y \in Nat
    BY <1>2, <1>3, <2>1, SectorsOfIs
  <2>3. y < x => y * Sector + Sector <= x * Sector /\ y * Sector \in Nat
    BY ONLY <2>2, Product
  <2>4. x * Sector <= y * Sector
    BY <1>1, <2>1
  <2>5. x * Sector \in Nat /\ y * Sector \in Nat /\ Sector \in Nat \ {0}
    BY <2>2, Product, GeometryAssumption
  <2> QED
    BY <2>1, <2>2, <2>3, <2>4, <2>5
<1> QED
  <2>1. DOMAIN b = DOMAIN w /\ IsArea(b) /\ b[i0] = Entry(w[i0].name, w[i0].start, from[f].length)
    BY DEF Over
  <2>2. \A c \in DOMAIN w \ Cells(w, p) : c # i0 => b[c] = w[c]
    BY <1>6 DEF Over
  <2>3. b[p * Sector] = from[f]
    BY <1>1, <1>12
  <2>4. SectorsOf(from[f].length) <= SectorsOf(w[p * Sector].length)
    BY <1>1, <1>13
  <2>5. from[f].kind = "head" /\ from[f].length \in Nat
    BY <1>2
  <2> QED
    BY ONLY <1>10, <1>11, <2>1, <2>2, <2>3, <2>4, <2>5 DEF Swap

LEMMA ModuleSpan ==
  ASSUME NEW w, NEW di, NEW room, Laid(w, di, room), NEW p \in headers(w),
         NEW o, o = p * Sector, NEW m, m = SectorsOf(w[o].length) * Sector
  PROVE  /\ p \in Nat /\ o \in Nat /\ m \in Nat /\ Cells(w, p) = o .. o + m - 1
         /\ \A k \in 0 .. m - 1 : o + k \in DOMAIN w /\ o + k \notin DirCells(w, di)
<1>1. HeaderOK(w, p)
  <2>1. Laid(w, di, room) /\ p \in headers(w)
    OBVIOUS
  <2> QED
    BY ONLY <2>1, HeaderIs
<1>2. p \in Nat /\ o \in Nat
  BY <1>1, Product DEF HeaderOK
<1>3. m \in Nat /\ o + m = Behind(w, p) * Sector
  <2>1. ModuleCells(w, p, o, m)
    BY ModuleHas
  <2> QED
    BY ONLY <2>1 DEF ModuleCells
<1>4. Cells(w, p) = o .. o + m - 1
  <2>1. PICK h : h = Behind(w, p) * Sector
    OBVIOUS
  <2>2. h = o + m /\ Cells(w, p) = o .. h - 1
    BY <1>3, <2>1 DEF Cells
  <2> QED
    BY ONLY <1>2, <1>3, <2>2
<1>5. ASSUME NEW k \in 0 .. m - 1
      PROVE  o + k \in DOMAIN w /\ o + k \notin DirCells(w, di)
  <2>1. o + k \in Cells(w, p)
    BY ONLY <1>2, <1>3, <1>4, k \in 0 .. m - 1
  <2>2. Laid(w, di, room) /\ p \in headers(w)
    OBVIOUS
  <2> QED
    BY ONLY <2>1, <2>2, NotDir
<1> QED
  BY <1>2, <1>3, <1>4, <1>5

LEMMA FirstNamed ==
  ASSUME NEW data, NEW di, NEW room, Laid(data, di, room), NEW name, Named(data, name) # {}
  PROVE  Min(Named(data, name)) \in headers(data) /\ Min(Named(data, name)) \in Named(data, name)
<1>1. Named(data, name) \in SUBSET Nat
  <2>1. nsec(data) \in Nat
    BY LaidIs
  <2> QED
    BY <2>1 DEF Named, headers
<1>2. Min(Named(data, name)) \in Named(data, name)
  BY <1>1, MinOf
<1> QED
  BY <1>2 DEF Named

(* Sub-modules that are exchanged.                                          *)

\* Sub-module n of container i is the one of that name, in the cells of at.
Spans(data, cont, name, i, n, at, len) ==
  /\ i \in headers(data) /\ i = Max(Named(data, cont)) /\ data[i * Sector].name = cont
  /\ n \in DOMAIN sub_offsets(data, i * Sector)
  /\ at = i * Sector + sub_offsets(data, i * Sector)[n] /\ data[at].name = name
  /\ len = SubEnd(data, i * Sector, n) - sub_offsets(data, i * Sector)[n]

LEMMA SpanIs ==
  ASSUME NEW data, nsec(data) \in Nat, NEW cont, NEW name, Has(data, cont, name)
  PROVE  \E i, n : Spans(data, cont, name, i, n, span(data, cont, name).at, span(data, cont, name).n)
<1>1. PICK i : i = Max(Named(data, cont))
  OBVIOUS
<1>2. Named(data, cont) # {}
  BY DEF Has
<1>3. i \in headers(data) /\ data[i * Sector].name = cont
  BY <1>1, <1>2, LastNamed
<1>4. PICK o, offs : o = i * Sector /\ offs = sub_offsets(data, o)
  OBVIOUS
<1>5. \E k \in DOMAIN offs : data[o + offs[k]].name = name
  BY <1>1, <1>4 DEF Has, ToSet
<1>6. PICK n : n = CHOOSE k \in DOMAIN offs : data[o + offs[k]].name = name
  OBVIOUS
<1>7. n \in DOMAIN offs /\ data[o + offs[n]].name = name
  BY <1>5, <1>6
<1>8. span(data, cont, name) =
        [at |-> o + offs[n],
         n |-> (IF n < Len(offs) THEN offs[n + 1] ELSE 1 + data[o].length) - offs[n]]
  BY <1>1, <1>4, <1>6 DEF span
<1>9. PICK at, len : at = span(data, cont, name).at /\ len = span(data, cont, name).n
  OBVIOUS
<1>10. at = o + offs[n] /\ len = SubEnd(data, o, n) - offs[n]
  BY <1>4, <1>8, <1>9 DEF SubEnd
<1>11. Spans(data, cont, name, i, n, at, len)
  BY <1>1, <1>3, <1>4, <1>7, <1>10 DEF Spans
<1> QED
  BY <1>9, <1>11

\* The cells of a sub-module.
SubCells(data, di, i, at, len) ==
  /\ at \in Nat /\ len \in Nat /\ i * Sector \in Nat /\ i * Sector < at
  /\ data[at].kind = "head" /\ data[at].length \in Nat /\ data[at].length < len
  /\ at + len - 1 <= i * Sector + data[i * Sector].length
  /\ \A k \in 0 .. len - 1 : /\ at + k \in Cells(data, i) /\ at + k \in DOMAIN data
                             /\ CellOK(data[at + k]) /\ at + k \notin DirCells(data, di)
                             /\ data[at + k].kind # "entry"
  /\ \A k \in 1 .. len - 1 : data[at + k].kind = "data"
  /\ \A s \in Nat : s * Sector # at

LEMMA SubCellsIs ==
  ASSUME NEW data, NEW di, NEW room, Laid(data, di, room), ContainersOK(data),
         NEW cont, NEW name, NEW i, NEW n, NEW at, NEW len, Spans(data, cont, name, i, n, at, len)
  PROVE  SubCells(data, di, i, at, len)
<1>1. PICK o : o = i * Sector
  OBVIOUS
<1>2. PICK offs : offs = sub_offsets(data, o)
  OBVIOUS
<1>3. PICK x, e : x = offs[n] /\ e = SubEnd(data, o, n)
  OBVIOUS
<1>4. /\ i \in headers(data) /\ n \in DOMAIN offs /\ at = o + x /\ len = e - x
  BY <1>1, <1>2, <1>3 DEF Spans
<1>5. /\ x \in 1 .. data[o].length /\ data[o + x].length \in Nat
      /\ data[o + x].kind = "head"
      /\ e \in Nat /\ e <= 1 + data[o].length
      /\ x + data[o + x].length < e
      /\ \A y \in x + 1 .. e - 1 : data[o + y].kind = "data"
  <2>1. Laid(data, di, room) /\ ContainersOK(data)
    OBVIOUS
  <2>2. /\ offs[n] \in 1 .. data[o].length /\ data[o + offs[n]].length \in Nat
        /\ data[o + offs[n]].kind = "head"
        /\ SubEnd(data, o, n) \in Nat /\ SubEnd(data, o, n) <= 1 + data[o].length
        /\ offs[n] + data[o + offs[n]].length < SubEnd(data, o, n)
        /\ \A y \in offs[n] + 1 .. SubEnd(data, o, n) - 1 : data[o + y].kind = "data"
    BY ONLY <1>1, <1>2, <1>4, <2>1, SubRanges
  <2> QED
    BY <1>3, <2>2
<1>6. HeaderOK(data, i)
  <2>1. Laid(data, di, room)
    OBVIOUS
  <2> QED
    BY ONLY <1>4, <2>1, HeaderIs
<1>7. PICK l, h : l = data[o].length /\ h = Behind(data, i) * Sector
  OBVIOUS
<1>8. i \in Nat /\ o \in Nat /\ l \in Nat /\ o + l < h /\ Cells(data, i) = o .. h - 1
  <2>1. i \in Nat /\ l \in Nat /\ o + l < h
    BY <1>1, <1>6, <1>7 DEF HeaderOK
  <2>2. o \in Nat
    BY <1>1, <2>1, Product
  <2> QED
    BY <1>1, <1>7, <2>1, <2>2 DEF Cells
<1>9. h \in Nat
  <2>1. Behind(data, i) \in Nat
    BY <1>6 DEF HeaderOK
  <2> QED
    BY <1>7, <2>1, Product
<1>10. PICK u : u = data[o + x].length
  OBVIOUS
<1>11. x \in 1 .. l /\ u \in Nat /\ e \in Nat /\ e <= 1 + l /\ x + u < e
  BY <1>5, <1>7, <1>10
<1>12. at \in Nat /\ len \in Nat /\ o < at /\ u < len /\ at + len - 1 <= o + l
  BY ONLY <1>4, <1>8, <1>11
<1>13. ASSUME NEW k \in 0 .. len - 1
       PROVE  /\ at + k \in Cells(data, i) /\ at + k \in DOMAIN data
              /\ CellOK(data[at + k]) /\ at + k \notin DirCells(data, di)
              /\ data[at + k].kind # "entry"
  <2>1. at + k \in Cells(data, i)
    BY ONLY <1>8, <1>9, <1>12, k \in 0 .. len - 1
  <2>2. Laid(data, di, room) /\ i \in headers(data)
    BY <1>4
  <2>3. at + k \in DOMAIN data /\ at + k \notin DirCells(data, di) /\ data[at + k].kind # "entry"
    BY ONLY <2>1, <2>2, NotDir
  <2>4. CellOK(data[at + k])
    BY ONLY <2>2, <2>3, LaidIs
  <2> QED
    BY <2>1, <2>3, <2>4
<1>14. ASSUME NEW k \in 1 .. len - 1
       PROVE  data[at + k].kind = "data"
  <2>1. PICK y : y = x + k
    OBVIOUS
  <2>2. y \in x + 1 .. e - 1 /\ at + k = o + y
    BY ONLY <1>4, <1>8, <1>11, <2>1, k \in 1 .. len - 1
  <2> QED
    BY <1>5, <2>2
<1>15. ASSUME NEW s \in Nat, s * Sector = at
       PROVE  FALSE
  <2>1. at \in Cells(data, i)
    <3>1. 0 \in 0 .. len - 1 /\ at + 0 = at
      BY ONLY <1>11, <1>12
    <3> QED
      BY <1>13, <3>1
  <2>2. s # i
    BY <1>1, <1>8, <1>12, <1>15
  <2>3. Laid(data, di, room) /\ i \in headers(data) /\ s * Sector \in Cells(data, i)
    BY <1>4, <1>15, <2>1
  <2>4. data[s * Sector].kind = "data"
    BY ONLY <2>2, <2>3, s \in Nat, OneHeader
  <2> QED
    BY <1>4, <1>5, <1>15, <2>4
<1>16. data[at].kind = "head" /\ data[at].length = u
  BY <1>4, <1>5, <1>10
<1> QED
  BY <1>1, <1>7, <1>8, <1>11, <1>12, <1>13, <1>14, <1>15, <1>16 DEF SubCells

\* Two sub-modules that share a cell are the same.
LEMMA SpansApart ==
  ASSUME NEW data, NEW di, NEW room, Laid(data, di, room), ContainersOK(data),
         NEW cont, NEW name, NEW i, NEW n, NEW at, NEW len, Spans(data, cont, name, i, n, at, len),
         NEW cont2, NEW name2, NEW i2, NEW n2, NEW at2, NEW len2,
         Spans(data, cont2, name2, i2, n2, at2, len2),
         NEW c, c \in at .. at + len - 1, c \in at2 .. at2 + len2 - 1
  PROVE  i = i2 /\ n = n2 /\ cont = cont2 /\ name = name2 /\ at = at2 /\ len = len2
<1>1. Laid(data, di, room) /\ ContainersOK(data) /\ i \in headers(data) /\ i2 \in headers(data)
  BY DEF Spans
<1>2. SubCells(data, di, i, at, len) /\ SubCells(data, di, i2, at2, len2)
  BY ONLY <1>1, Spans(data, cont, name, i, n, at, len), Spans(data, cont2, name2, i2, n2, at2, len2),
          SubCellsIs
<1>3. /\ at \in Nat /\ len \in Nat /\ at2 \in Nat /\ len2 \in Nat
      /\ \A k \in 0 .. len - 1 : at + k \in Cells(data, i)
      /\ \A k \in 0 .. len2 - 1 : at2 + k \in Cells(data, i2)
  BY <1>2 DEF SubCells
<1>4. c \in Cells(data, i) /\ c \in Cells(data, i2)
  <2>1. c - at \in 0 .. len - 1 /\ c - at2 \in 0 .. len2 - 1 /\ at + (c - at) = c /\ at2 + (c - at2) = c
    BY ONLY <1>3, c \in at .. at + len - 1, c \in at2 .. at2 + len2 - 1
  <2> QED
    BY <1>3, <2>1
<1>5. i = i2
  BY ONLY <1>1, <1>4, Apart
<1>6. PICK o : o = i * Sector
  OBVIOUS
<1>7. PICK offs : offs = sub_offsets(data, o)
  OBVIOUS
<1>8. /\ n \in DOMAIN offs /\ n2 \in DOMAIN offs /\ at = o + offs[n] /\ at2 = o + offs[n2]
      /\ len = SubEnd(data, o, n) - offs[n] /\ len2 = SubEnd(data, o, n2) - offs[n2]
      /\ cont = cont2 /\ name = data[at].name /\ name2 = data[at2].name
  BY <1>5, <1>6, <1>7 DEF Spans
<1>9. /\ offs[n] \in 1 .. data[o].length /\ SubEnd(data, o, n) \in Nat
      /\ \A m \in DOMAIN offs : m < n => SubEnd(data, o, m) <= offs[n]
  BY ONLY <1>1, <1>6, <1>7, <1>8, SubRanges
<1>10. /\ offs[n2] \in 1 .. data[o].length /\ SubEnd(data, o, n2) \in Nat
       /\ \A m \in DOMAIN offs : m < n2 => SubEnd(data, o, m) <= offs[n2]
  BY ONLY <1>1, <1>6, <1>7, <1>8, SubRanges
<1>11. o \in Nat /\ n \in Nat /\ n2 \in Nat
  <2>1. HeaderOK(data, i)
    BY ONLY <1>1, HeaderIs
  <2>2. o \in Nat
    BY <1>6, <2>1, Product DEF HeaderOK
  <2>3. offs \in Seq(1 .. data[o].length)
    BY <1>6, <1>7, <2>1, SubsIs
  <2>4. DOMAIN offs = 1 .. Len(offs) /\ Len(offs) \in Nat
    BY ONLY <2>3, LenProperties
  <2> QED
    BY ONLY <1>8, <2>2, <2>4
<1>12. PICK x, y, e, f : x = offs[n] /\ y = offs[n2] /\ e = SubEnd(data, o, n) /\ f = SubEnd(data, o, n2)
  OBVIOUS
<1>13. x \in Nat /\ y \in Nat /\ e \in Nat /\ f \in Nat
  BY <1>9, <1>10, <1>12
<1>14. ~(n < n2)
  <2> SUFFICES ASSUME n < n2
               PROVE  FALSE
    OBVIOUS
  <2>1. e <= y
    BY <1>8, <1>10, <1>12
  <2>2. at = o + x /\ len = e - x /\ at2 = o + y
    BY <1>8, <1>12
  <2> QED
    BY ONLY <1>3, <1>11, <1>13, <2>1, <2>2, c \in at .. at + len - 1, c \in at2 .. at2 + len2 - 1
<1>15. ~(n2 < n)
  <2> SUFFICES ASSUME n2 < n
               PROVE  FALSE
    OBVIOUS
  <2>1. f <= x
    BY <1>8, <1>9, <1>12
  <2>2. at = o + x /\ len2 = f - y /\ at2 = o + y
    BY <1>8, <1>12
  <2> QED
    BY ONLY <1>3, <1>11, <1>13, <2>1, <2>2, c \in at .. at + len - 1, c \in at2 .. at2 + len2 - 1
<1>16. n = n2
  BY ONLY <1>11, <1>14, <1>15
<1> QED
  BY <1>5, <1>8, <1>16

\* A sub-module that was asked for is on both disks, and the new one is not longer.
Asked(w, k, s) ==
  /\ Has(w, Pair(s)[1], s.name) /\ Has(k, Pair(s)[2], s.name)
  /\ span(k, Pair(s)[2], s.name).n <= span(w, Pair(s)[1], s.name).n

OldAt(w, s)  == span(w, Pair(s)[1], s.name).at

OldLen(w, s) == span(w, Pair(s)[1], s.name).n

NewAt(k, s)  == span(k, Pair(s)[2], s.name).at

NewLen(k, s) == span(k, Pair(s)[2], s.name).n

\* b is w with the sub-modules S of k in place of its own.
Exchanged(w, k, b, S) ==
  /\ DOMAIN b = DOMAIN w /\ IsArea(b)
  /\ \A c \in DOMAIN w : (\A s \in S : c \notin OldAt(w, s) .. OldAt(w, s) + OldLen(w, s) - 1) => b[c] = w[c]
  /\ \A s \in S : \A j \in 0 .. OldLen(w, s) - 1 :
       b[OldAt(w, s) + j] = (IF j < NewLen(k, s) THEN k[NewAt(k, s) + j] ELSE Zero)

LEMMA OnePair ==
  ASSUME NEW s, NEW t, Pair(s)[1] = Pair(t)[1]
  PROVE  Pair(s)[2] = Pair(t)[2]
BY DEF Pair

\* Every sub-module that was asked for, on either disk.
LEMMA AskedIs ==
  ASSUME NEW w, NEW di, NEW room, Laid(w, di, room), ContainersOK(w),
         NEW k, NEW dk, NEW rk, Laid(k, dk, rk), ContainersOK(k), NEW s, Asked(w, k, s)
  PROVE  /\ \E i, n : /\ Spans(w, Pair(s)[1], s.name, i, n, OldAt(w, s), OldLen(w, s))
                      /\ SubCells(w, di, i, OldAt(w, s), OldLen(w, s))
         /\ \E i, n : /\ Spans(k, Pair(s)[2], s.name, i, n, NewAt(k, s), NewLen(k, s))
                      /\ SubCells(k, dk, i, NewAt(k, s), NewLen(k, s))
         /\ OldAt(w, s) \in Nat /\ OldLen(w, s) \in Nat /\ NewAt(k, s) \in Nat /\ NewLen(k, s) \in Nat
         /\ NewLen(k, s) <= OldLen(w, s)
<1>1. /\ Laid(w, di, room) /\ ContainersOK(w) /\ Laid(k, dk, rk) /\ ContainersOK(k)
      /\ nsec(w) \in Nat /\ nsec(k) \in Nat
  BY LaidIs
<1>2. PICK p, q, x : p = Pair(s)[1] /\ q = Pair(s)[2] /\ x = s.name
  OBVIOUS
<1>3. Has(w, p, x) /\ Has(k, q, x)
  BY <1>2 DEF Asked
<1>4. PICK i, n : Spans(w, p, x, i, n, span(w, p, x).at, span(w, p, x).n)
  BY ONLY <1>1, <1>3, SpanIs
<1>5. PICK i2, n2 : Spans(k, q, x, i2, n2, span(k, q, x).at, span(k, q, x).n)
  BY ONLY <1>1, <1>3, SpanIs
<1>6. SubCells(w, di, i, span(w, p, x).at, span(w, p, x).n)
  BY ONLY <1>1, <1>4, SubCellsIs
<1>7. SubCells(k, dk, i2, span(k, q, x).at, span(k, q, x).n)
  BY ONLY <1>1, <1>5, SubCellsIs
<1>8. /\ span(w, p, x).at = OldAt(w, s) /\ span(w, p, x).n = OldLen(w, s)
      /\ span(k, q, x).at = NewAt(k, s) /\ span(k, q, x).n = NewLen(k, s)
  BY <1>2 DEF OldAt, OldLen, NewAt, NewLen
<1>9. OldAt(w, s) \in Nat /\ OldLen(w, s) \in Nat /\ NewAt(k, s) \in Nat /\ NewLen(k, s) \in Nat
  BY <1>6, <1>7, <1>8 DEF SubCells
<1>10. NewLen(k, s) <= OldLen(w, s)
  BY DEF Asked, NewLen, OldLen
<1> QED
  BY <1>2, <1>4, <1>5, <1>6, <1>7, <1>8, <1>9, <1>10

\* Two that share a cell are the same sub-modules on both disks.
LEMMA AskedTwice ==
  ASSUME NEW w, NEW di, NEW room, Laid(w, di, room), ContainersOK(w),
         NEW k, NEW dk, NEW rk, Laid(k, dk, rk), ContainersOK(k),
         NEW s, Asked(w, k, s), NEW t, Asked(w, k, t),
         NEW c, c \in OldAt(w, s) .. OldAt(w, s) + OldLen(w, s) - 1,
         c \in OldAt(w, t) .. OldAt(w, t) + OldLen(w, t) - 1
  PROVE  /\ OldAt(w, s) = OldAt(w, t) /\ OldLen(w, s) = OldLen(w, t)
         /\ NewAt(k, s) = NewAt(k, t) /\ NewLen(k, s) = NewLen(k, t)
         /\ Pair(s)[1] = Pair(t)[1] /\ s.name = t.name
<1>1. /\ Laid(w, di, room) /\ ContainersOK(w) /\ Laid(k, dk, rk) /\ ContainersOK(k)
      /\ Asked(w, k, s) /\ Asked(w, k, t)
  OBVIOUS
<1>2. PICK i, n : Spans(w, Pair(s)[1], s.name, i, n, OldAt(w, s), OldLen(w, s))
  BY ONLY <1>1, AskedIs
<1>3. PICK i2, n2 : Spans(w, Pair(t)[1], t.name, i2, n2, OldAt(w, t), OldLen(w, t))
  BY ONLY <1>1, AskedIs
<1>4. /\ c \in OldAt(w, s) .. OldAt(w, s) + OldLen(w, s) - 1
      /\ c \in OldAt(w, t) .. OldAt(w, t) + OldLen(w, t) - 1
  OBVIOUS
<1>5. Pair(s)[1] = Pair(t)[1] /\ s.name = t.name
  BY ONLY <1>1, <1>2, <1>3, <1>4, SpansApart
<1>6. Pair(s)[2] = Pair(t)[2]
  BY <1>5, OnePair
<1> QED
  BY <1>5, <1>6 DEF OldAt, OldLen, NewAt, NewLen

LEMMA ExchangeOne ==
  ASSUME NEW w, NEW di, NEW room, Laid(w, di, room), ContainersOK(w),
         NEW k, NEW dk, NEW rk, Laid(k, dk, rk), ContainersOK(k),
         NEW S, \A t \in S : Asked(w, k, t), NEW s, Asked(w, k, s),
         NEW d, Exchanged(w, k, d, S),
         NEW b, Padded(b, d, OldAt(w, s), k, NewAt(k, s), NewLen(k, s), OldLen(w, s))
  PROVE  Exchanged(w, k, b, S \cup {s})
<1>1. /\ Laid(w, di, room) /\ ContainersOK(w) /\ Laid(k, dk, rk) /\ ContainersOK(k)
      /\ Asked(w, k, s) /\ \A t \in S : Asked(w, k, t)
  OBVIOUS
<1>2. PICK a, l, f, n : a = OldAt(w, s) /\ l = OldLen(w, s) /\ f = NewAt(k, s) /\ n = NewLen(k, s)
  OBVIOUS
<1>3. /\ DOMAIN b = DOMAIN d /\ IsArea(b)
      /\ \A c \in DOMAIN d : c \notin a .. a + l - 1 => b[c] = d[c]
      /\ \A j \in 0 .. l - 1 : a + j \in DOMAIN d => b[a + j] = (IF j < n THEN k[f + j] ELSE Zero)
  BY <1>2 DEF Padded
<1>4. /\ DOMAIN d = DOMAIN w
      /\ \A c \in DOMAIN w :
           (\A t \in S : c \notin OldAt(w, t) .. OldAt(w, t) + OldLen(w, t) - 1) => d[c] = w[c]
      /\ \A t \in S : \A j \in 0 .. OldLen(w, t) - 1 :
           d[OldAt(w, t) + j] = (IF j < NewLen(k, t) THEN k[NewAt(k, t) + j] ELSE Zero)
  BY DEF Exchanged
<1>5. ASSUME NEW t, Asked(w, k, t), NEW j \in 0 .. OldLen(w, t) - 1
      PROVE  /\ OldAt(w, t) \in Nat /\ OldLen(w, t) \in Nat /\ OldAt(w, t) + j \in DOMAIN w
             /\ OldAt(w, t) + j \in OldAt(w, t) .. OldAt(w, t) + OldLen(w, t) - 1
  <2>1. PICK i, m : SubCells(w, di, i, OldAt(w, t), OldLen(w, t))
    BY ONLY <1>1, <1>5, AskedIs
  <2>2. /\ OldAt(w, t) \in Nat /\ OldLen(w, t) \in Nat /\ OldAt(w, t) + j \in DOMAIN w
    BY <2>1 DEF SubCells
  <2> QED
    BY ONLY <2>2, j \in 0 .. OldLen(w, t) - 1
<1>6. ASSUME NEW t \in S \cup {s}, NEW j \in 0 .. OldLen(w, t) - 1
      PROVE  b[OldAt(w, t) + j] = (IF j < NewLen(k, t) THEN k[NewAt(k, t) + j] ELSE Zero)
  <2>1. Asked(w, k, t)
    BY <1>1
  <2>2. PICK c : c = OldAt(w, t) + j
    OBVIOUS
  <2>3. c \in DOMAIN w /\ c \in OldAt(w, t) .. OldAt(w, t) + OldLen(w, t) - 1
    BY <1>5, <2>1, <2>2
  <2>4. CASE c \in a .. a + l - 1
    <3>1. OldAt(w, t) = a /\ OldLen(w, t) = l /\ NewAt(k, t) = f /\ NewLen(k, t) = n
      <4>1. c \in OldAt(w, s) .. OldAt(w, s) + OldLen(w, s) - 1
        BY <1>2, <2>4
      <4>2. /\ OldAt(w, s) = OldAt(w, t) /\ OldLen(w, s) = OldLen(w, t)
            /\ NewAt(k, s) = NewAt(k, t) /\ NewLen(k, s) = NewLen(k, t)
        BY ONLY <1>1, <2>1, <2>3, <4>1, AskedTwice
      <4> QED
        BY <1>2, <4>2
    <3> QED
      BY <1>3, <1>4, <2>2, <2>3, <3>1
  <2>5. CASE c \notin a .. a + l - 1
    <3>1. b[c] = d[c]
      BY <1>3, <1>4, <2>3, <2>5
    <3>2. t \in S
      BY <1>2, <2>3, <2>5
    <3> QED
      BY <1>4, <2>2, <3>1, <3>2
  <2> QED
    BY <2>4, <2>5
<1>7. ASSUME NEW c \in DOMAIN w,
             \A t \in S \cup {s} : c \notin OldAt(w, t) .. OldAt(w, t) + OldLen(w, t) - 1
      PROVE  b[c] = w[c]
  <2>1. c \notin a .. a + l - 1
    BY <1>2, <1>7
  <2>2. d[c] = w[c]
    BY <1>4, <1>7
  <2> QED
    BY <1>3, <1>4, <2>1, <2>2
<1> QED
  BY <1>3, <1>4, <1>6, <1>7 DEF Exchanged

\* The disks w and k, and b, which is w with the sub-modules S of k.
Exchange(w, di, room, k, dk, rk, b, S) ==
  /\ Laid(w, di, room) /\ ContainersOK(w) /\ Laid(k, dk, rk) /\ ContainersOK(k)
  /\ \A s \in S : Asked(w, k, s)
  /\ Exchanged(w, k, b, S)

\* Cell c is in the place of sub-module s, which is in container i.
InPlace(w, di, k, b, s, i, c) ==
  /\ i \in headers(w) /\ w[i * Sector].name = Pair(s)[1]
  /\ c \in Cells(w, i) /\ c \in DOMAIN w /\ c \notin DirCells(w, di) /\ w[c].kind # "entry"
  /\ CellOK(b[c]) /\ b[c].kind # "entry"
  /\ \/ w[c].kind = "data" /\ b[c].kind = "data"
     \/ /\ w[c].kind = "head" /\ b[c].kind = "head" /\ c = OldAt(w, s)
        /\ w[c].name = s.name /\ b[c].name = s.name /\ b[c].length \in Nat
        /\ c + b[c].length <= i * Sector + w[i * Sector].length
        /\ \A t \in Nat : t * Sector # c

LEMMA InPlaceIs ==
  ASSUME NEW w, NEW di, NEW room, NEW k, NEW dk, NEW rk, NEW b, NEW S,
         Exchange(w, di, room, k, dk, rk, b, S),
         NEW s \in S, NEW c \in OldAt(w, s) .. OldAt(w, s) + OldLen(w, s) - 1,
         NEW i, NEW n, Spans(w, Pair(s)[1], s.name, i, n, OldAt(w, s), OldLen(w, s))
  PROVE  InPlace(w, di, k, b, s, i, c)
<1>1. /\ Laid(w, di, room) /\ ContainersOK(w) /\ Laid(k, dk, rk) /\ ContainersOK(k)
      /\ Asked(w, k, s)
  BY DEF Exchange
<1>2. PICK a, l, f, r : a = OldAt(w, s) /\ l = OldLen(w, s) /\ f = NewAt(k, s) /\ r = NewLen(k, s)
  OBVIOUS
<1>3. Spans(w, Pair(s)[1], s.name, i, n, a, l)
  BY <1>2
<1>4. SubCells(w, di, i, a, l)
  BY ONLY <1>1, <1>3, SubCellsIs
<1>5. PICK i2, n2 : Spans(k, Pair(s)[2], s.name, i2, n2, f, r) /\ SubCells(k, dk, i2, f, r)
  <2>1. \E i2, n2 : /\ Spans(k, Pair(s)[2], s.name, i2, n2, NewAt(k, s), NewLen(k, s))
                    /\ SubCells(k, dk, i2, NewAt(k, s), NewLen(k, s))
    BY ONLY <1>1, AskedIs
  <2> QED
    BY <1>2, <2>1
<1>6. r <= l
  <2>1. NewLen(k, s) <= OldLen(w, s)
    BY ONLY <1>1, AskedIs
  <2> QED
    BY <1>2, <2>1
<1>7. \A j \in 0 .. l - 1 : b[a + j] = (IF j < r THEN k[f + j] ELSE Zero)
  BY <1>2 DEF Exchange, Exchanged
<1>8. /\ a \in Nat /\ l \in Nat /\ i * Sector \in Nat
      /\ w[a].kind = "head"
      /\ a + l - 1 <= i * Sector + w[i * Sector].length
      /\ \A j \in 0 .. l - 1 : /\ a + j \in Cells(w, i) /\ a + j \in DOMAIN w
                               /\ a + j \notin DirCells(w, di) /\ w[a + j].kind # "entry"
      /\ \A j \in 1 .. l - 1 : w[a + j].kind = "data"
      /\ \A t \in Nat : t * Sector # a
  BY ONLY <1>4 DEF SubCells
<1>9. /\ f \in Nat /\ r \in Nat /\ k[f].kind = "head" /\ k[f].length \in Nat /\ k[f].length < r
      /\ \A j \in 0 .. r - 1 : CellOK(k[f + j]) /\ k[f + j].kind # "entry"
      /\ \A j \in 1 .. r - 1 : k[f + j].kind = "data"
  BY <1>5 DEF SubCells
<1>10. /\ i \in headers(w) /\ w[i * Sector].name = Pair(s)[1] /\ w[a].name = s.name
  BY <1>3 DEF Spans
<1>11. k[f].name = s.name
  BY <1>5 DEF Spans
<1>12. CellOK(Zero) /\ Zero.kind = "data"
  BY DEF CellOK, Zero, Data
<1>13. PICK j : j = c - a
  OBVIOUS
<1>14. j \in 0 .. l - 1 /\ c = a + j
  <2>1. c \in a .. a + l - 1
    BY <1>2
  <2> QED
    BY ONLY <1>8, <1>13, <2>1
<1>15. CellOK(b[c]) /\ b[c].kind # "entry" /\ (j # 0 => b[c].kind = "data")
  <2>1. CASE j < r
    <3>1. j \in 0 .. r - 1 /\ (j # 0 => j \in 1 .. r - 1)
      BY ONLY <1>8, <1>9, <1>14, <2>1
    <3>2. b[c] = k[f + j]
      BY <1>7, <1>14, <2>1
    <3> QED
      BY ONLY <1>9, <3>1, <3>2
  <2>2. CASE ~(j < r)
    <3>1. b[c] = Zero
      BY <1>7, <1>14, <2>2
    <3> QED
      BY <1>12, <3>1
  <2> QED
    BY <2>1, <2>2
<1>16. CASE j = 0
  <2>1. c = a
    BY <1>8, <1>14, <1>16
  <2>2. b[c] = k[f]
    <3>1. 0 < r /\ f + 0 = f
      BY ONLY <1>9
    <3> QED
      BY <1>7, <1>14, <1>16, <3>1
  <2>3. c + b[c].length <= i * Sector + w[i * Sector].length
    <3>1. PICK x, y, z : x = k[f].length /\ y = i * Sector + w[i * Sector].length /\ z = w[i * Sector].length
      OBVIOUS
    <3>2. z \in Nat
      <4>1. HeaderOK(w, i)
        BY ONLY <1>1, <1>10, HeaderIs
      <4> QED
        BY <3>1, <4>1 DEF HeaderOK
    <3>3. PICK o : o = i * Sector
      OBVIOUS
    <3>4. x \in Nat /\ x < r /\ y = o + z /\ o \in Nat /\ a + l - 1 <= y
      BY <1>8, <1>9, <3>1, <3>3
    <3>5. a + x <= y
      BY ONLY <1>6, <1>8, <1>9, <3>2, <3>4
    <3> QED
      BY <2>1, <2>2, <3>1, <3>5
  <2> QED
    BY <1>2, <1>8, <1>9, <1>10, <1>11, <1>14, <1>15, <2>1, <2>2, <2>3 DEF InPlace
<1>17. CASE j # 0
  <2>1. j \in 1 .. l - 1
    BY ONLY <1>8, <1>14, <1>17
  <2> QED
    BY <1>8, <1>10, <1>14, <1>15, <1>17, <2>1 DEF InPlace
<1> QED
  BY <1>16, <1>17

\* Every cell is in such a place or what it was.
LEMMA ExchangeCell ==
  ASSUME NEW w, NEW di, NEW room, NEW k, NEW dk, NEW rk, NEW b, NEW S,
         Exchange(w, di, room, k, dk, rk, b, S), NEW c \in DOMAIN w
  PROVE  b[c] = w[c] \/ \E s \in S : \E i : InPlace(w, di, k, b, s, i, c)
<1>1. SUFFICES ASSUME b[c] # w[c]
               PROVE  \E s \in S : \E i : InPlace(w, di, k, b, s, i, c)
  OBVIOUS
<1>2. PICK s \in S : c \in OldAt(w, s) .. OldAt(w, s) + OldLen(w, s) - 1
  BY <1>1 DEF Exchange, Exchanged
<1>3. /\ Laid(w, di, room) /\ ContainersOK(w) /\ Laid(k, dk, rk) /\ ContainersOK(k)
      /\ Asked(w, k, s)
  BY DEF Exchange
<1>4. PICK i, n : Spans(w, Pair(s)[1], s.name, i, n, OldAt(w, s), OldLen(w, s))
  BY ONLY <1>3, AskedIs
<1>5. Exchange(w, di, room, k, dk, rk, b, S) /\ s \in S
  OBVIOUS
<1>6. InPlace(w, di, k, b, s, i, c)
  BY ONLY <1>2, <1>4, <1>5, InPlaceIs
<1> QED
  BY <1>6

\* A sector begins as it did, or still with data of no name.
SameStart(w, b, t) ==
  \/ b[t * Sector] = w[t * Sector]
  \/ /\ w[t * Sector].kind = "data" /\ b[t * Sector].kind = "data"
     /\ w[t * Sector].name = "" /\ b[t * Sector].name = ""

\* A cell at which a sector starts.
LEMMA ExchangeSector ==
  ASSUME NEW w, NEW di, NEW room, NEW k, NEW dk, NEW rk, NEW b, NEW S,
         Exchange(w, di, room, k, dk, rk, b, S), NEW t \in Nat, t * Sector \in DOMAIN w
  PROVE  SameStart(w, b, t)
<1>1. PICK c : c = t * Sector
  OBVIOUS
<1>2. CellOK(w[c])
  BY <1>1, LaidIs DEF Exchange
<1>3. Exchange(w, di, room, k, dk, rk, b, S) /\ c \in DOMAIN w
  BY <1>1
<1>4. CASE b[c] # w[c]
  <2>1. PICK s \in S : \E i : InPlace(w, di, k, b, s, i, c)
    BY ONLY <1>3, <1>4, ExchangeCell
  <2>2. PICK i : InPlace(w, di, k, b, s, i, c)
    BY <2>1
  <2>3. w[c].kind = "data" /\ b[c].kind = "data" /\ CellOK(b[c])
    BY <1>1, <2>2 DEF InPlace
  <2>4. w[c].name = "" /\ b[c].name = ""
    BY ONLY <1>2, <2>3, NoName
  <2> QED
    BY <1>1, <2>3, <2>4 DEF SameStart
<1> QED
  BY <1>1, <1>4 DEF SameStart

LEMMA ExchangeLayout ==
  ASSUME NEW w, NEW di, NEW room, NEW k, NEW dk, NEW rk, NEW b, NEW S,
         Exchange(w, di, room, k, dk, rk, b, S)
  PROVE  /\ SameLayout(w, b, di)
         /\ \A c \in DirCells(w, di) : b[c] = w[c]
         /\ \A i \in headers(w) : b[i * Sector] = w[i * Sector]
<1>1. Exchange(w, di, room, k, dk, rk, b, S)
  OBVIOUS
<1>2. Laid(w, di, room) /\ DOMAIN b = DOMAIN w /\ b = [c \in DOMAIN b |-> b[c]]
  BY DEF Exchange, Exchanged, IsArea
<1>3. ASSUME NEW c \in DirCells(w, di)
      PROVE  c \in DOMAIN w /\ b[c] = w[c]
  <2>1. c \in DOMAIN w
    BY <1>2, DirIs
  <2>2. b[c] = w[c] \/ \E s \in S : \E i : InPlace(w, di, k, b, s, i, c)
    BY ONLY <1>1, <2>1, ExchangeCell
  <2> QED
    BY <2>1, <2>2 DEF InPlace
<1>4. ASSUME NEW i \in headers(w)
      PROVE  b[i * Sector] = w[i * Sector] /\ HeaderOK(w, i)
  <2>1. HeaderOK(w, i)
    BY ONLY <1>2, <1>4, HeaderIs
  <2>2. i \in Nat /\ i * Sector \in DOMAIN w /\ w[i * Sector].kind = "head"
    BY <2>1 DEF HeaderOK
  <2>3. b[i * Sector] = w[i * Sector] \/ w[i * Sector].kind = "data"
    <3>1. SameStart(w, b, i)
      BY ONLY <1>1, <2>2, ExchangeSector
    <3> QED
      BY ONLY <3>1 DEF SameStart
  <2> QED
    BY <2>1, <2>2, <2>3
<1>5. ASSUME NEW c \in DOMAIN w
      PROVE  CellOK(b[c]) /\ (b[c].kind = "entry" <=> w[c].kind = "entry")
  <2>1. b[c] = w[c] \/ \E s \in S : \E i : InPlace(w, di, k, b, s, i, c)
    BY ONLY <1>1, <1>5, ExchangeCell
  <2>2. CellOK(w[c])
    BY <1>2, LaidIs
  <2> QED
    BY <2>1, <2>2 DEF InPlace
<1>6. b[di * Sector].start = w[di * Sector].start
  <2>1. di * Sector \in DirCells(w, di)
    BY <1>2, DirIs
  <2> QED
    BY <1>3, <2>1
<1>7. ASSUME NEW i \in Nat, i * Sector \in DOMAIN w
      PROVE  b[i * Sector].kind = "head" <=> w[i * Sector].kind = "head"
  <2>1. i \in Nat /\ i * Sector \in DOMAIN w
    BY <1>7
  <2>2. SameStart(w, b, i)
    BY ONLY <1>1, <2>1, ExchangeSector
  <2> QED
    BY ONLY <2>2 DEF SameStart
<1>8. ASSUME NEW i \in headers(w)
      PROVE  /\ SectorsOf(b[i * Sector].length) <= SectorsOf(w[i * Sector].length)
             /\ b[i * Sector].name \notin Specials \cup Range(Typeable)
  <2>1. b[i * Sector] = w[i * Sector] /\ w[i * Sector].length \in Nat
    BY <1>4 DEF HeaderOK
  <2>2. SectorsOf(w[i * Sector].length) \in Nat
    BY <2>1, SectorsOfIs
  <2>3. w[i * Sector].name \notin Specials \cup Range(Typeable)
    BY <1>2 DEF Laid
  <2> QED
    BY <2>1, <2>2, <2>3
<1> QED
  BY <1>2, <1>3, <1>4, <1>5, <1>6, <1>7, <1>8 DEF SameLayout

\* The containers have the same sub-modules; those that were not asked for have
\* the same headers.
LEMMA ExchangeSubs ==
  ASSUME NEW w, NEW di, NEW room, NEW k, NEW dk, NEW rk, NEW b, NEW S,
         Exchange(w, di, room, k, dk, rk, b, S), NEW p \in headers(w), NEW o, o = p * Sector
  PROVE  /\ sub_offsets(b, o) = sub_offsets(w, o) /\ b[o] = w[o]
         /\ \A x \in ToSet(sub_offsets(w, o)) :
              /\ b[o + x].name = w[o + x].name
              /\ b[o + x] = w[o + x] \/ w[o + x].name \in {s.name : s \in S}
<1>1. Exchange(w, di, room, k, dk, rk, b, S) /\ Laid(w, di, room)
  BY DEF Exchange
<1>2. HeaderOK(w, p)
  BY ONLY <1>1, p \in headers(w), HeaderIs
<1>3. b[o] = w[o]
  BY <1>1, ExchangeLayout
<1>4. PICK offs : offs = w[o].subs
  OBVIOUS
<1>5. /\ sub_offsets(w, o) \in Seq(1 .. w[o].length)
      /\ \A x \in ToSet(sub_offsets(w, o)) :
           /\ x \in 1 .. w[o].length
           /\ o + x \in Cells(w, p) /\ w[o + x].kind = "head"
  BY ONLY <1>2, o = p * Sector, SubsIs
<1>6. Cells(w, p) \subseteq DOMAIN w /\ o \in Nat /\ w[o].length \in Nat
  BY <1>2, Product DEF HeaderOK
<1>7. ASSUME NEW x \in ToSet(sub_offsets(w, o))
      PROVE  /\ b[o + x].name = w[o + x].name /\ b[o + x].kind = "head"
             /\ b[o + x] = w[o + x] \/ /\ w[o + x].name \in {s.name : s \in S}
                                       /\ b[o + x].length \in Nat
                                       /\ o + x + b[o + x].length <= o + w[o].length
  <2>1. PICK c : c = o + x
    OBVIOUS
  <2>2. c \in Cells(w, p) /\ c \in DOMAIN w /\ w[c].kind = "head"
    BY <1>5, <1>6, <2>1
  <2>3. b[c] = w[c] \/ \E s \in S : \E i : InPlace(w, di, k, b, s, i, c)
    BY ONLY <1>1, <2>2, ExchangeCell
  <2>4. CASE b[c] = w[c]
    BY <2>1, <2>2, <2>4
  <2>5. CASE b[c] # w[c]
    <3>1. PICK s \in S : \E i : InPlace(w, di, k, b, s, i, c)
      BY <2>3, <2>5
    <3>10. PICK i : InPlace(w, di, k, b, s, i, c)
      BY <3>1
    <3>2. i \in headers(w) /\ c \in Cells(w, i)
      BY <3>10 DEF InPlace
    <3>3. i = p
      BY ONLY <1>1, <2>2, <3>2, p \in headers(w), Apart
    <3>4. /\ b[c].kind = "head" /\ w[c].name = s.name /\ b[c].name = s.name /\ b[c].length \in Nat
          /\ c + b[c].length <= i * Sector + w[i * Sector].length
      BY <2>2, <3>10 DEF InPlace
    <3> QED
      BY <2>1, <3>3, <3>4
  <2> QED
    BY <2>4, <2>5
<1>8. CASE \A c \in Cells(w, p) : b[c] = w[c]
  <2>1. sub_offsets(b, o) = sub_offsets(w, o)
    BY ONLY <1>2, <1>8, o = p * Sector, SameModule
  <2> QED
    BY <1>3, <1>7, <2>1
<1>9. CASE ~\A c \in Cells(w, p) : b[c] = w[c]
  <2>1. PICK c \in Cells(w, p) : b[c] # w[c]
    BY <1>9
  <2>2. c \in DOMAIN w
    BY <1>6
  <2>3. PICK s \in S : c \in OldAt(w, s) .. OldAt(w, s) + OldLen(w, s) - 1
    BY <2>1, <2>2 DEF Exchange, Exchanged
  <2>4. /\ ContainersOK(w) /\ Laid(k, dk, rk) /\ ContainersOK(k) /\ Asked(w, k, s)
    BY DEF Exchange
  <2>5. PICK i, n : Spans(w, Pair(s)[1], s.name, i, n, OldAt(w, s), OldLen(w, s))
    BY ONLY <1>1, <2>4, AskedIs
  <2>6. InPlace(w, di, k, b, s, i, c)
    BY ONLY <1>1, <2>3, <2>5, s \in S, InPlaceIs
  <2>7. i \in headers(w) /\ c \in Cells(w, i)
    BY <2>6 DEF InPlace
  <2>8. i = p
    BY ONLY <1>1, <2>1, <2>7, p \in headers(w), Apart
  <2>9. sub_offsets(w, o) # <<>>
    BY <2>5, <2>8 DEF Spans
  <2>10. /\ sub_offsets(w, o) = offs
         /\ \A y \in 1 .. Len(offs) - 1 : offs[y] < offs[y + 1]
         /\ \A m \in DOMAIN offs : /\ w[o + offs[m]].kind = "head"
                                   /\ offs[m] + w[o + offs[m]].length <= (1 + w[o].length) + 1
    BY ONLY <1>4, <2>9 DEF sub_offsets
  <2>11. ASSUME NEW m \in DOMAIN offs
         PROVE  b[o + offs[m]].kind = "head" /\ offs[m] + b[o + offs[m]].length <= (1 + w[o].length) + 1
    <3>1. PICK x : x = offs[m]
      OBVIOUS
    <3>2. x \in ToSet(sub_offsets(w, o))
      BY <2>10, <3>1 DEF ToSet
    <3>3. x \in 1 .. w[o].length
      BY <1>5, <3>2
    <3>4. CASE b[o + x] = w[o + x]
      BY <1>7, <2>10, <3>1, <3>2, <3>4
    <3>5. CASE b[o + x] # w[o + x]
      <4>1. b[o + x].length \in Nat /\ o + x + b[o + x].length <= o + w[o].length
        BY <1>7, <3>2, <3>5
      <4>2. PICK y, z : y = b[o + x].length /\ z = w[o].length
        OBVIOUS
      <4>3. x + y <= (1 + z) + 1
        BY ONLY <1>6, <3>3, <4>1, <4>2
      <4> QED
        BY <1>7, <3>1, <3>2, <4>2, <4>3
    <3> QED
      BY <3>4, <3>5
  <2>12. sub_offsets(b, o) = offs
    BY <1>3, <1>4, <2>10, <2>11 DEF sub_offsets
  <2> QED
    BY <1>3, <1>7, <2>10, <2>12
<1> QED
  BY <1>8, <1>9

\* Every module that is not replaced is what it was.
LEMMA ExchangeModule ==
  ASSUME NEW w, NEW di, NEW room, NEW k, NEW dk, NEW rk, NEW b, NEW S,
         Exchange(w, di, room, k, dk, rk, b, S), NEW i \in headers(w),
         w[i * Sector].name \notin {Pair(s)[1] : s \in S}, NEW c \in Cells(w, i)
  PROVE  b[c] = w[c]
<1>1. Exchange(w, di, room, k, dk, rk, b, S) /\ Laid(w, di, room)
  BY DEF Exchange
<1>2. c \in DOMAIN w
  BY ONLY <1>1, i \in headers(w), c \in Cells(w, i), NotDir
<1>3. b[c] = w[c] \/ \E s \in S : \E j : InPlace(w, di, k, b, s, j, c)
  BY ONLY <1>1, <1>2, ExchangeCell
<1>4. ASSUME NEW s \in S, NEW j, InPlace(w, di, k, b, s, j, c)
      PROVE  FALSE
  <2>1. j \in headers(w) /\ c \in Cells(w, j) /\ w[j * Sector].name = Pair(s)[1]
    BY <1>4 DEF InPlace
  <2>2. i = j
    BY ONLY <1>1, <2>1, i \in headers(w), c \in Cells(w, i), Apart
  <2> QED
    BY <2>1, <2>2
<1> QED
  BY <1>3, <1>4

\* The sub-modules of a container one by one.
LEMMA ExchangeOther ==
  ASSUME NEW w, NEW di, NEW room, NEW k, NEW dk, NEW rk, NEW b, NEW S,
         Exchange(w, di, room, k, dk, rk, b, S),
         NEW i \in headers(w), NEW o, o = i * Sector, i = Max(Named(w, w[o].name)),
         NEW x \in ToSet(sub_offsets(w, o)),
         \A s \in S : ~(s.name = w[o + x].name /\ Pair(s)[1] = w[o].name),
         NEW n \in 0 .. w[o + x].length
  PROVE  b[o + x + n] = w[o + x + n]
<1>1. /\ Exchange(w, di, room, k, dk, rk, b, S) /\ Laid(w, di, room) /\ ContainersOK(w)
      /\ Laid(k, dk, rk) /\ ContainersOK(k) /\ \A s \in S : Asked(w, k, s)
  BY DEF Exchange
<1>2. PICK offs : offs = sub_offsets(w, o)
  OBVIOUS
<1>3. PICK m \in DOMAIN offs : x = offs[m]
  BY ONLY <1>2 DEF ToSet
<1>4. /\ x \in 1 .. w[o].length /\ w[o + x].length \in Nat
      /\ SubEnd(w, o, m) \in Nat /\ x + w[o + x].length < SubEnd(w, o, m)
  <2>1. /\ offs[m] \in 1 .. w[o].length /\ w[o + offs[m]].length \in Nat
        /\ SubEnd(w, o, m) \in Nat /\ offs[m] + w[o + offs[m]].length < SubEnd(w, o, m)
    BY ONLY <1>1, <1>2, <1>3, i \in headers(w), o = i * Sector, SubRanges
  <2> QED
    BY ONLY <1>3, <2>1
<1>5. HeaderOK(w, i)
  BY ONLY <1>1, i \in headers(w), HeaderIs
<1>6. o \in Nat /\ w[o].length \in Nat
  BY <1>5, Product DEF HeaderOK
<1>7. PICK at, len, l, c : at = o + x /\ len = SubEnd(w, o, m) - x /\ l = w[o + x].length /\ c = o + x + n
  OBVIOUS
<1>8. at \in Nat /\ len \in Nat /\ l \in Nat /\ l < len /\ c \in at .. at + len - 1
  <2>1. PICK e, z : e = SubEnd(w, o, m) /\ z = w[o].length
    OBVIOUS
  <2>2. x \in 1 .. z /\ e \in Nat /\ z \in Nat /\ x + l < e /\ l \in Nat /\ n \in 0 .. l
    BY ONLY <1>4, <1>6, <1>7, <2>1
  <2>3. at = o + x /\ len = e - x /\ c = o + x + n
    BY ONLY <1>7, <2>1
  <2> QED
    BY ONLY <1>6, <2>2, <2>3
<1>9. Spans(w, w[o].name, w[at].name, i, m, at, len)
  BY <1>2, <1>3, <1>7 DEF Spans
<1>10. SubCells(w, di, i, at, len)
  BY ONLY <1>1, <1>9, SubCellsIs
<1>11. c \in DOMAIN w
  <2>1. c - at \in 0 .. len - 1 /\ at + (c - at) = c
    BY ONLY <1>8
  <2> QED
    BY <1>10, <2>1 DEF SubCells
<1>12. ASSUME NEW s \in S, c \in OldAt(w, s) .. OldAt(w, s) + OldLen(w, s) - 1
       PROVE  FALSE
  <2>1. Asked(w, k, s)
    BY <1>1
  <2>2. PICK j, r : Spans(w, Pair(s)[1], s.name, j, r, OldAt(w, s), OldLen(w, s))
    BY ONLY <1>1, <2>1, AskedIs
  <2>3. c \in at .. at + len - 1
    BY <1>8
  <2>4. w[o].name = Pair(s)[1] /\ w[at].name = s.name
    BY ONLY <1>1, <1>9, <1>12, <2>2, <2>3, SpansApart
  <2> QED
    BY <1>7, <2>4
<1>13. b[c] = w[c]
  BY <1>11, <1>12 DEF Exchange, Exchanged
<1> QED
  BY ONLY <1>7, <1>13

LEMMA ExchangeWanted ==
  ASSUME NEW w, NEW di, NEW room, NEW k, NEW dk, NEW rk, NEW b, NEW S,
         Exchange(w, di, room, k, dk, rk, b, S),
         NEW i \in headers(w), NEW o, o = i * Sector, i = Max(Named(w, w[o].name)),
         NEW x \in ToSet(sub_offsets(w, o)),
         NEW s \in S, s.name = w[o + x].name, Pair(s)[1] = w[o].name
  PROVE  /\ NewAt(k, s) \in Nat /\ k[NewAt(k, s)].length \in Nat
         /\ o + x + k[NewAt(k, s)].length < Behind(w, i) * Sector
         /\ \A n \in 0 .. k[NewAt(k, s)].length : b[o + x + n] = k[NewAt(k, s) + n]
<1>1. /\ Exchange(w, di, room, k, dk, rk, b, S) /\ Laid(w, di, room) /\ ContainersOK(w)
      /\ Laid(k, dk, rk) /\ ContainersOK(k) /\ Asked(w, k, s)
  BY DEF Exchange
<1>2. PICK offs : offs = sub_offsets(w, o)
  OBVIOUS
<1>3. PICK m \in DOMAIN offs : x = offs[m]
  BY ONLY <1>2 DEF ToSet
<1>4. PICK a, l, f, r : a = OldAt(w, s) /\ l = OldLen(w, s) /\ f = NewAt(k, s) /\ r = NewLen(k, s)
  OBVIOUS
<1>5. PICK j, n1 : Spans(w, Pair(s)[1], s.name, j, n1, a, l) /\ SubCells(w, di, j, a, l)
  <2>1. \E j, n1 : /\ Spans(w, Pair(s)[1], s.name, j, n1, OldAt(w, s), OldLen(w, s))
                   /\ SubCells(w, di, j, OldAt(w, s), OldLen(w, s))
    BY ONLY <1>1, AskedIs
  <2> QED
    BY <1>4, <2>1
<1>6. PICK i2, n2 : SubCells(k, dk, i2, f, r)
  <2>1. \E i2, n2 : /\ Spans(k, Pair(s)[2], s.name, i2, n2, NewAt(k, s), NewLen(k, s))
                    /\ SubCells(k, dk, i2, NewAt(k, s), NewLen(k, s))
    BY ONLY <1>1, AskedIs
  <2> QED
    BY <1>4, <2>1
<1>7. r <= l
  <2>1. NewLen(k, s) <= OldLen(w, s)
    BY ONLY <1>1, AskedIs
  <2> QED
    BY <1>4, <2>1
<1>8. j = i
  BY <1>5 DEF Spans
<1>9. a = o + x
  <2>1. n1 \in DOMAIN offs /\ a = o + offs[n1] /\ w[a].name = s.name
    BY <1>2, <1>5, <1>8 DEF Spans
  <2>2. \A y \in DOMAIN offs : w[o + offs[y]].name = w[o + offs[m]].name => y = m
    BY ONLY <1>1, <1>2, <1>3, i \in headers(w), o = i * Sector, SubRanges
  <2>3. n1 = m
    BY <1>3, <2>1, <2>2
  <2> QED
    BY ONLY <1>3, <2>1, <2>3
<1>10. /\ a \in Nat /\ l \in Nat
       /\ \A y \in 0 .. l - 1 : a + y \in Cells(w, i)
  BY <1>5, <1>8 DEF SubCells
<1>11. f \in Nat /\ r \in Nat /\ k[f].length \in Nat /\ k[f].length < r
  BY <1>6 DEF SubCells
<1>12. PICK u : u = k[f].length
  OBVIOUS
<1>13. u \in Nat /\ u < r /\ r \in Nat /\ f \in Nat
  BY <1>11, <1>12
<1>14. a + u < Behind(w, i) * Sector
  <2>1. u \in 0 .. l - 1
    BY ONLY <1>7, <1>10, <1>13
  <2>2. a + u \in Cells(w, i)
    BY <1>10, <2>1
  <2>3. HeaderOK(w, i)
    BY ONLY <1>1, i \in headers(w), HeaderIs
  <2>4. PICK h : h = Behind(w, i) * Sector
    OBVIOUS
  <2>5. h \in Nat
    BY <2>3, <2>4, Product DEF HeaderOK
  <2>6. i * Sector \in Nat
    BY ONLY <2>3, Product DEF HeaderOK
  <2>7. a + u \in o .. h - 1 /\ o \in Nat
    BY <2>2, <2>4, <2>6 DEF Cells
  <2>8. a + u < h
    BY ONLY <1>10, <1>13, <2>5, <2>7
  <2> QED
    BY <2>4, <2>8
<1>15. ASSUME NEW n \in 0 .. u
       PROVE  b[a + n] = k[f + n]
  <2>1. n \in 0 .. l - 1 /\ n < r
    BY ONLY <1>7, <1>10, <1>13, <1>15
  <2> QED
    BY <1>4, <2>1 DEF Exchange, Exchanged
<1> QED
  BY <1>4, <1>9, <1>12, <1>13, <1>14, <1>15

(* Modules that are copied behind one another.                              *)

\* The sectors of the module i that is copied.
SizeOf(k, i) == SectorsOf(k[OSG[i].at * Sector].length)

LEMMA OsgIs ==
  ASSUME shelf \in Shelves, NEW k, k = shelf["K02743"].data, NEW i \in 1 .. Len(OSG)
  PROVE  /\ Len(OSG) \in Nat /\ DOMAIN OSG = 1 .. Len(OSG) /\ OSG[i] \in ToSet(OSG)
         /\ OSG[i].as # "" /\ OSG[i].at \in Nat /\ OSG[i].at \in headers(k)
         /\ SizeOf(k, i) \in Nat \ {0}
         /\ k[OSG[i].at * Sector].name \notin Specials \cup Range(Typeable)
         /\ ModuleCells(k, OSG[i].at, OSG[i].at * Sector, SizeOf(k, i) * Sector)
         /\ body(k, OSG[i].at) = Read(k, OSG[i].at * Sector, SizeOf(k, i) * Sector)
<1>1. OSG \in Seq([name : STRING, as : STRING \ {""}, at : Nat])
  BY ScriptsAssumption
<1>2. Len(OSG) \in Nat /\ DOMAIN OSG = 1 .. Len(OSG)
  BY <1>1, LenProperties
<1>3. OSG[i] \in [name : STRING, as : STRING \ {""}, at : Nat]
  BY <1>1, <1>2, ElementOfSeq
<1>4. OSG[i] \in ToSet(OSG)
  BY <1>2 DEF ToSet
<1>5. /\ Laid(k, shelf["K02743"].dir, Room("K02743", shelf["K02743"]))
      /\ K02743OK(shelf["K02743"])
  BY OriginalIs, OriginalsAssumption
<1>6. OSG[i].at \in headers(k)
  BY <1>4, <1>5 DEF K02743OK
<1>7. PICK q, di, room : /\ q = OSG[i].at /\ di = shelf["K02743"].dir
                         /\ room = Room("K02743", shelf["K02743"])
  OBVIOUS
<1>8. PICK f, n : f = q * Sector /\ n = SectorsOf(k[f].length) * Sector
  OBVIOUS
<1>9. Laid(k, di, room) /\ q \in headers(k)
  BY <1>5, <1>6, <1>7
<1>10. ModuleCells(k, q, f, n) /\ body(k, q) = Read(k, f, n)
  BY ONLY <1>8, <1>9, ModuleHas
<1>11. n = SizeOf(k, i) * Sector
  BY <1>7, <1>8 DEF SizeOf
<1>12. SizeOf(k, i) \in Nat \ {0}
  <2>1. HeaderOK(k, q)
    BY ONLY <1>9, HeaderIs
  <2>2. k[q * Sector].length \in Nat
    BY <2>1 DEF HeaderOK
  <2> QED
    BY ONLY <1>7, <2>2, SectorsOfIs DEF SizeOf
<1>13. k[q * Sector].name \notin Specials \cup Range(Typeable)
  BY ONLY <1>9 DEF Laid
<1> QED
  BY ONLY <1>2, <1>3, <1>4, <1>6, <1>7, <1>8, <1>10, <1>11, <1>12, <1>13

\* The sectors where the modules are put.
Placed(k, P) ==
  /\ Len(OSG) \in Nat /\ \A i \in 0 .. Len(OSG) : P[i] \in Nat
  /\ \A i \in 1 .. Len(OSG) : SizeOf(k, i) \in Nat \ {0}
  /\ P[0] = Blank
  /\ \A i \in 1 .. Len(OSG) : P[i] = P[i - 1] + SizeOf(k, i)

LEMMA PlacedRises ==
  ASSUME NEW k, NEW P, Placed(k, P), NEW i \in 0 .. Len(OSG), NEW j \in 0 .. Len(OSG), i <= j
  PROVE  P[i] <= P[j]
<1>1. PICK N : N = Len(OSG)
  OBVIOUS
<1>2. /\ N \in Nat /\ \A x \in 0 .. N : P[x] \in Nat
      /\ \A x \in 1 .. N : P[x] = P[x - 1] + SizeOf(k, x) /\ SizeOf(k, x) \in Nat
  BY <1>1 DEF Placed
<1>3. PICK Bad : Bad = {x \in 0 .. N : i <= x /\ ~(P[i] <= P[x])}
  OBVIOUS
<1>4. SUFFICES ASSUME Bad # {}
               PROVE  FALSE
  BY <1>1, <1>3
<1>5. PICK x \in Bad : \A y \in Bad : x <= y
  <2>1. Bad \in SUBSET Nat
    BY <1>3
  <2> QED
    BY <1>4, <2>1, Least
<1>6. x \in 0 .. N /\ i <= x /\ ~(P[i] <= P[x]) /\ i \in 0 .. N
  BY <1>1, <1>3
<1>7. i # x
  <2>1. P[i] \in Nat
    BY <1>2, <1>6
  <2>2. P[i] <= P[i]
    BY ONLY <2>1
  <2> QED
    BY <1>6, <2>2
<1>8. PICK y : y = x - 1
  OBVIOUS
<1>9. y \in 0 .. N /\ i <= y /\ ~(x <= y) /\ x \in 1 .. N
  BY ONLY <1>2, <1>6, <1>7, <1>8
<1>10. P[i] <= P[y]
  BY <1>3, <1>5, <1>9
<1>11. P[x] = P[y] + SizeOf(k, x) /\ SizeOf(k, x) \in Nat /\ P[i] \in Nat /\ P[y] \in Nat
  BY <1>2, <1>6, <1>8, <1>9
<1> QED
  BY ONLY <1>6, <1>10, <1>11

\* w with the first j modules copied to their places.
Copies(w, k, P, d, j) ==
  /\ DOMAIN d = DOMAIN w /\ IsArea(d)
  /\ \A c \in DOMAIN w : c \notin Blank * Sector .. P[j] * Sector - 1 => d[c] = w[c]
  /\ \A i \in 1 .. j : \A n \in 0 .. SizeOf(k, i) * Sector - 1 :
       P[i - 1] * Sector + n \in DOMAIN w => d[P[i - 1] * Sector + n] = k[OSG[i].at * Sector + n]

\* Where the copy i is.
LEMMA PlaceIs ==
  ASSUME NEW k, NEW P, Placed(k, P), NEW i \in 1 .. Len(OSG)
  PROVE  /\ Blank \in Nat /\ P[i - 1] \in Nat /\ P[i] \in Nat
         /\ P[i - 1] * Sector \in Nat /\ P[i] * Sector \in Nat /\ Blank * Sector \in Nat
         /\ SizeOf(k, i) * Sector \in Nat
         /\ P[i] * Sector = P[i - 1] * Sector + SizeOf(k, i) * Sector
         /\ Blank <= P[i - 1] /\ Blank * Sector <= P[i - 1] * Sector
         /\ P[i - 1] < P[i] /\ P[i] = P[i - 1] + SizeOf(k, i)
         /\ P[i] <= P[Len(OSG)] /\ P[i] * Sector <= P[Len(OSG)] * Sector
<1>1. PICK N : N = Len(OSG)
  OBVIOUS
<1>2. PICK h : h = i - 1
  OBVIOUS
<1>3. /\ N \in Nat /\ i \in 1 .. N /\ h \in 0 .. N /\ i \in 0 .. N /\ 0 \in 0 .. N /\ N \in 0 .. N
      /\ 0 <= h /\ i <= N
  <2>1. N \in Nat
    BY <1>1 DEF Placed
  <2> QED
    BY <1>1, <1>2, <2>1
<1>4. PICK u : u = SizeOf(k, i)
  OBVIOUS
<1>5. P[h] \in Nat /\ P[i] \in Nat /\ P[N] \in Nat /\ P[0] = Blank /\ P[0] \in Nat /\ u \in Nat \ {0}
      /\ P[i] = P[h] + u
  BY <1>1, <1>2, <1>3, <1>4 DEF Placed
<1>6. P[0] <= P[h] /\ P[i] <= P[N]
  <2>1. Placed(k, P) /\ N = Len(OSG)
    BY <1>1
  <2>2. h \in 0 .. Len(OSG) /\ i \in 0 .. Len(OSG) /\ 0 \in 0 .. Len(OSG) /\ Len(OSG) \in 0 .. Len(OSG)
        /\ 0 <= h /\ i <= Len(OSG)
    BY <1>1, <1>3
  <2> QED
    BY <2>1, <2>2, PlacedRises
<1>7. /\ P[h] * Sector \in Nat /\ P[i] * Sector \in Nat /\ Blank * Sector \in Nat /\ u * Sector \in Nat
      /\ P[i] * Sector = P[h] * Sector + u * Sector /\ Blank * Sector <= P[h] * Sector
      /\ P[i] * Sector <= P[N] * Sector
  <2>1. PICK a, b, c, d : a = P[h] /\ b = P[i] /\ c = Blank /\ d = P[N]
    OBVIOUS
  <2>2. a \in Nat /\ b \in Nat /\ c \in Nat /\ d \in Nat /\ u \in Nat /\ b = a + u /\ c <= a /\ b <= d
    BY <1>5, <1>6, <2>1
  <2>3. /\ a * Sector \in Nat /\ b * Sector \in Nat /\ c * Sector \in Nat /\ u * Sector \in Nat
        /\ b * Sector = a * Sector + u * Sector /\ c * Sector <= a * Sector /\ b * Sector <= d * Sector
    BY ONLY <2>2, Product
  <2> QED
    BY ONLY <2>1, <2>3
<1>8. P[h] < P[i]
  BY ONLY <1>5
<1> QED
  BY <1>1, <1>2, <1>4, <1>5, <1>6, <1>7, <1>8

LEMMA CopiesNext ==
  ASSUME NEW w, NEW k, NEW P, Placed(k, P), \A c \in DOMAIN w : c \in Nat,
         NEW j \in 1 .. Len(OSG), NEW d, Copies(w, k, P, d, j - 1), NEW b,
         Pasted(b, d, P[j - 1] * Sector, k, OSG[j].at * Sector, SizeOf(k, j) * Sector)
  PROVE  Copies(w, k, P, b, j)
<1>1. PICK h : h = j - 1
  OBVIOUS
<1>2. PICK a, n, f, z, e : /\ a = P[h] * Sector /\ n = SizeOf(k, j) * Sector /\ f = OSG[j].at * Sector
                           /\ z = Blank * Sector /\ e = P[j] * Sector
  OBVIOUS
<1>3. a \in Nat /\ n \in Nat /\ z \in Nat /\ e \in Nat /\ e = a + n /\ z <= a
  BY <1>1, <1>2, PlaceIs
<1>4. /\ DOMAIN b = DOMAIN d /\ IsArea(b)
      /\ \A c \in DOMAIN d : c \notin a .. a + n - 1 => b[c] = d[c]
      /\ \A y \in 0 .. n - 1 : a + y \in DOMAIN d => b[a + y] = k[f + y]
  BY <1>1, <1>2 DEF Pasted
<1>5. /\ DOMAIN d = DOMAIN w
      /\ \A c \in DOMAIN w : c \notin z .. a - 1 => d[c] = w[c]
      /\ \A i \in 1 .. h : \A y \in 0 .. SizeOf(k, i) * Sector - 1 :
           P[i - 1] * Sector + y \in DOMAIN w => d[P[i - 1] * Sector + y] = k[OSG[i].at * Sector + y]
  BY <1>1, <1>2 DEF Copies
<1>6. ASSUME NEW c \in DOMAIN w, c \notin z .. e - 1
      PROVE  b[c] = w[c]
  <2>1. c \in Nat
    OBVIOUS
  <2>2. c \notin a .. a + n - 1 /\ c \notin z .. a - 1
    BY ONLY <1>3, <1>6, <2>1
  <2> QED
    BY <1>4, <1>5, <2>2
<1>7. ASSUME NEW i \in 1 .. j, NEW y \in 0 .. SizeOf(k, i) * Sector - 1,
             P[i - 1] * Sector + y \in DOMAIN w
      PROVE  b[P[i - 1] * Sector + y] = k[OSG[i].at * Sector + y]
  <2>1. CASE i = j
    BY <1>1, <1>2, <1>4, <1>5, <1>7, <2>1
  <2>2. CASE i # j
    <3>0. Len(OSG) \in Nat
      BY DEF Placed
    <3>1. i \in 1 .. h /\ i \in 1 .. Len(OSG) /\ i <= h /\ i \in 0 .. Len(OSG) /\ h \in 0 .. Len(OSG)
      BY ONLY <1>1, <2>2, <3>0, i \in 1 .. j, j \in 1 .. Len(OSG)
    <3>2. PICK c : c = P[i - 1] * Sector + y
      OBVIOUS
    <3>3. P[i] <= P[h] /\ P[i] \in Nat /\ P[h] \in Nat
      BY <3>1, PlacedRises DEF Placed
    <3>4. PICK g : g = P[i] * Sector
      OBVIOUS
    <3>5. g \in Nat /\ g <= a
      BY <1>2, <3>3, <3>4, Product
    <3>6. PICK p, u : p = P[i - 1] * Sector /\ u = SizeOf(k, i) * Sector
      OBVIOUS
    <3>7. p \in Nat /\ u \in Nat /\ g = p + u
      BY <3>1, <3>4, <3>6, PlaceIs
    <3>8. y \in 0 .. u - 1 /\ c = p + y
      BY <1>7, <3>2, <3>6
    <3>9. c \notin a .. a + n - 1
      BY ONLY <1>3, <3>5, <3>7, <3>8
    <3>10. d[c] = k[OSG[i].at * Sector + y] /\ c \in DOMAIN w
      BY <1>5, <1>7, <3>1, <3>2
    <3> QED
      BY <1>4, <1>5, <3>2, <3>9, <3>10
  <2> QED
    BY <2>1, <2>2
<1> QED
  BY <1>2, <1>4, <1>5, <1>6, <1>7 DEF Copies

\* The entry of the copy i, and those of the first j.
NewOne(k, P, i) == Entry(OSG[i].as, P[i - 1] + 1, k[OSG[i].at * Sector].length)

News(k, P, s, j) ==
  /\ s \in Seq({NewOne(k, P, i) : i \in 1 .. Len(OSG)}) /\ Len(s) = j
  /\ \A i \in 1 .. j : s[i] = NewOne(k, P, i)

LEMMA NewsNext ==
  ASSUME NEW k, NEW P, NEW j \in 1 .. Len(OSG), Len(OSG) \in Nat, NEW s, News(k, P, s, j - 1),
         NEW t, t = Append(s, NewOne(k, P, j))
  PROVE  News(k, P, t, j)
<1>1. PICK S, e, h : S = {NewOne(k, P, i) : i \in 1 .. Len(OSG)} /\ e = NewOne(k, P, j) /\ h = j - 1
  OBVIOUS
<1>2. s \in Seq(S) /\ Len(s) = h /\ e \in S /\ \A i \in 1 .. h : s[i] = NewOne(k, P, i)
  BY <1>1 DEF News
<1>3. t = Append(s, e)
  BY <1>1
<1>4. /\ t \in Seq(S) /\ Len(t) = Len(s) + 1
      /\ \A i \in 1 .. Len(s) : t[i] = s[i]
      /\ t[Len(s) + 1] = e
  BY ONLY <1>2, <1>3, AppendProperties
<1>5. Len(t) = j /\ t[j] = e
  BY <1>1, <1>2, <1>4
<1>6. ASSUME NEW i \in 1 .. j
      PROVE  t[i] = NewOne(k, P, i)
  <2>1. CASE i = j
    BY <1>1, <1>5, <2>1
  <2>2. CASE i # j
    <3>1. i \in 1 .. h
      BY <1>1, <2>2
    <3> QED
      BY <1>2, <1>4, <3>1
  <2> QED
    BY ONLY <2>1, <2>2
<1> QED
  BY <1>1, <1>4, <1>5, <1>6 DEF News

LEMMA OsgChain ==
  ASSUME shelf \in Shelves, NEW k, k = shelf["K02743"].data,
         NEW w, IsArea(w), \A c \in DOMAIN w : c \in Nat,
         NEW N, N = Len(OSG), N \in Nat,
         NEW f, f[0] = [data |-> w, idx |-> Blank, new |-> <<>>],
         \A j \in 1 .. N : f[j] = Copied(f[j - 1], OSG[j])
  PROVE  \E P : /\ Placed(k, P) /\ P[N] = f[N].idx
                /\ Copies(w, k, P, f[N].data, N) /\ News(k, P, f[N].new, N)
<1>1. PICK P : P = [i \in 0 .. N |-> f[i].idx]
  OBVIOUS
<1>2. \A i \in 0 .. N : P[i] = f[i].idx
  BY <1>1
<1>3. \A i \in 1 .. N : SizeOf(k, i) \in Nat \ {0}
  BY OsgIs
<1>4. ASSUME NEW j \in 1 .. N
      PROVE  /\ j - 1 \in 0 .. N /\ j \in 0 .. N
             /\ f[j].idx = f[j - 1].idx + SizeOf(k, j)
             /\ f[j].data = Write(f[j - 1].data, P[j - 1] * Sector, body(k, OSG[j].at))
             /\ f[j].new = Append(f[j - 1].new, NewOne(k, P, j))
  <2>1. j - 1 \in 0 .. N /\ j \in 0 .. N
    BY <1>4
  <2>2. P[j - 1] = f[j - 1].idx
    BY <1>2, <2>1
  <2>3. f[j] = Copied(f[j - 1], OSG[j])
    BY <1>4
  <2>4. PICK st, mod : st = f[j - 1] /\ mod = OSG[j]
    OBVIOUS
  <2>5. f[j] = [data |-> Write(st.data, st.idx * Sector, body(k, mod.at)),
                idx  |-> st.idx + SectorsOf(k[mod.at * Sector].length),
                new  |-> Append(st.new, Entry(mod.as, st.idx + 1, k[mod.at * Sector].length))]
    BY <2>3, <2>4 DEF Copied
  <2>6. /\ f[j].idx = st.idx + SectorsOf(k[mod.at * Sector].length)
        /\ f[j].data = Write(st.data, st.idx * Sector, body(k, mod.at))
        /\ f[j].new = Append(st.new, Entry(mod.as, st.idx + 1, k[mod.at * Sector].length))
    BY ONLY <2>5
  <2> QED
    BY <2>1, <2>2, <2>4, <2>6 DEF SizeOf, NewOne
<1>5. P[0] = Blank /\ P[0] \in Nat /\ f[0].data = w /\ f[0].new = <<>>
  <2>1. f[0].idx = Blank /\ f[0].data = w /\ f[0].new = <<>>
    OBVIOUS
  <2>2. 0 \in 0 .. N
    OBVIOUS
  <2> QED
    BY <1>2, <2>1, <2>2, ScriptsAssumption
<1>6. \A j \in 1 .. N : P[j] = P[j - 1] + SizeOf(k, j)
  BY <1>2, <1>4
<1>7. \A i \in 0 .. N : P[i] \in Nat
  <2>1. PICK Bad : Bad = {i \in 0 .. N : P[i] \notin Nat}
    OBVIOUS
  <2>2. SUFFICES ASSUME Bad # {}
                 PROVE  FALSE
    BY <2>1
  <2>3. PICK i \in Bad : \A j \in Bad : i <= j
    <3>1. Bad \in SUBSET Nat
      BY <2>1
    <3> QED
      BY <2>2, <3>1, Least
  <2>4. i \in 1 .. N /\ P[i] \notin Nat
    BY <1>5, <2>1
  <2>5. PICK h : h = i - 1
    OBVIOUS
  <2>6. h \in 0 .. N /\ ~(i <= h)
    BY <2>4, <2>5
  <2>7. P[h] \in Nat
    BY <2>1, <2>3, <2>6
  <2>8. P[i] = P[h] + SizeOf(k, i) /\ SizeOf(k, i) \in Nat
    BY <1>3, <1>6, <2>4, <2>5
  <2> QED
    BY ONLY <2>4, <2>7, <2>8
<1>8. Placed(k, P)
  BY <1>3, <1>5, <1>6, <1>7 DEF Placed
<1>9. Copies(w, k, P, f[0].data, 0) /\ News(k, P, f[0].new, 0)
  <2>1. Copies(w, k, P, w, 0)
    BY DEF Copies
  <2>2. PICK s, S : s = <<>> /\ S = {NewOne(k, P, i) : i \in 1 .. Len(OSG)}
    OBVIOUS
  <2>3. s \in Seq(S) /\ Len(s) = 0
    BY <2>2, EmptySeq
  <2>4. News(k, P, s, 0)
    BY <2>2, <2>3 DEF News
  <2> QED
    BY <1>5, <2>1, <2>2, <2>4
<1>10. ASSUME NEW j \in 1 .. N, NEW h, h = j - 1, Copies(w, k, P, f[h].data, h), News(k, P, f[h].new, h)
       PROVE  Copies(w, k, P, f[j].data, j) /\ News(k, P, f[j].new, j)
  <2>1. PICK d, b, s, t : d = f[h].data /\ b = f[j].data /\ s = f[h].new /\ t = f[j].new
    OBVIOUS
  <2>2. PICK a, n, g : a = P[j - 1] * Sector /\ n = SizeOf(k, j) * Sector /\ g = OSG[j].at * Sector
    OBVIOUS
  <2>3. j \in 1 .. Len(OSG)
    OBVIOUS
  <2>4. body(k, OSG[j].at) = Read(k, g, n) /\ g \in Nat
    <3>1. OSG[j].at \in Nat /\ body(k, OSG[j].at) = Read(k, OSG[j].at * Sector, SizeOf(k, j) * Sector)
      BY OsgIs
    <3>2. PICK q : q = OSG[j].at
      OBVIOUS
    <3>3. q * Sector \in Nat
      BY <3>1, <3>2, Product
    <3> QED
      BY <2>2, <3>1, <3>2, <3>3
  <2>5. a \in Nat /\ n \in Nat
    BY <1>8, <2>2, PlaceIs
  <2>6. PICK cells : cells = Read(k, g, n)
    OBVIOUS
  <2>7. b = Write(d, a, cells) /\ t = Append(s, NewOne(k, P, j))
    BY <1>4, <1>10, <2>1, <2>2, <2>4, <2>6
  <2>8. \A c \in DOMAIN d : c \in Nat
    BY <1>10, <2>1 DEF Copies
  <2>9. Pasted(b, d, a, k, g, n)
    BY ONLY <2>4, <2>5, <2>6, <2>7, <2>8, Copy
  <2>10. Pasted(b, d, P[j - 1] * Sector, k, OSG[j].at * Sector, SizeOf(k, j) * Sector)
    BY ONLY <2>2, <2>9
  <2>11. Copies(w, k, P, d, j - 1) /\ News(k, P, s, j - 1)
    BY <1>10, <2>1
  <2>12. \A c \in DOMAIN w : c \in Nat
    OBVIOUS
  <2>13. Copies(w, k, P, b, j)
    BY ONLY <1>8, <2>3, <2>10, <2>11, <2>12, CopiesNext
  <2>14. Len(OSG) \in Nat
    OBVIOUS
  <2>15. News(k, P, t, j)
    BY ONLY <2>3, <2>7, <2>11, <2>14, NewsNext
  <2> QED
    BY <2>1, <2>13, <2>15
<1>11. PICK Bad : Bad = {j \in 0 .. N : ~(Copies(w, k, P, f[j].data, j) /\ News(k, P, f[j].new, j))}
  OBVIOUS
<1>12. ASSUME Bad # {}
       PROVE  FALSE
  <2>1. PICK j \in Bad : \A x \in Bad : j <= x
    <3>1. Bad \in SUBSET Nat
      BY <1>11
    <3> QED
      BY <1>12, <3>1, Least
  <2>2. j \in 0 .. N /\ ~(Copies(w, k, P, f[j].data, j) /\ News(k, P, f[j].new, j)) /\ j # 0
    BY <1>9, <1>11
  <2>3. PICK h : h = j - 1
    OBVIOUS
  <2>4. h \in 0 .. N /\ ~(j <= h) /\ j \in 1 .. N
    BY <2>2, <2>3
  <2>5. Copies(w, k, P, f[h].data, h) /\ News(k, P, f[h].new, h)
    BY <1>11, <2>1, <2>4
  <2> QED
    BY <1>10, <2>2, <2>3, <2>4, <2>5
<1>13. Copies(w, k, P, f[N].data, N) /\ News(k, P, f[N].new, N) /\ P[N] = f[N].idx
  <2>1. N \in 0 .. N
    OBVIOUS
  <2> QED
    BY <1>2, <1>11, <1>12, <2>1
<1> QED
  BY <1>8, <1>13

\* The entries that are written: the number of them is new, and the new ones are
\* before the last three.
Listed(all, w, k, P, C, N) ==
  /\ Len(all) = C + N /\ DOMAIN all = 1 .. C + N
  /\ all[1] = Entry(w[0].name, C + N, w[0].length)
  /\ \A c \in 1 .. C - 4 : all[c + 1] = w[c]
  /\ \A i \in 1 .. N : all[C - 3 + i] = NewOne(k, P, i)
  /\ \A c \in C - 3 .. C - 1 : all[c + N + 1] = w[c]

LEMMA ListIs ==
  ASSUME NEW w, NEW k, NEW P, NEW C \in Nat, C >= 4, NEW ents, ReadsAs(ents, w, 0, C),
         w[0] = Entry(w[0].name, w[0].start, w[0].length), w[0].start = C,
         NEW N, N = Len(OSG), N \in Nat, NEW new, News(k, P, new, N),
         NEW all, all = SubSeq([ents EXCEPT ![1].start = @ + N], 1, Len(ents) - 3) \o new
                        \o SubSeq([ents EXCEPT ![1].start = @ + N], Len(ents) - 2, Len(ents))
  PROVE  Listed(all, w, k, P, C, N)
<1>1. ents = [i \in 1 .. C |-> w[0 + i - 1]] /\ Len(ents) = C
  BY DEF ReadsAs
<1>2. PICK fixed : fixed = [ents EXCEPT ![1].start = @ + N]
  OBVIOUS
<1>3. PICK first : first = Entry(w[0].name, C + N, w[0].length)
  OBVIOUS
<1>4. \A i \in 1 .. C : fixed[i] = IF i = 1 THEN first ELSE w[i - 1]
  <2>1. ASSUME NEW i \in 1 .. C, i # 1
        PROVE  fixed[i] = w[i - 1]
    <3>1. 0 + i - 1 = i - 1
      OBVIOUS
    <3>2. ents[i] = w[i - 1]
      BY <1>1, <3>1
    <3> QED
      BY ONLY <1>1, <1>2, <2>1, <3>2
  <2>2. fixed[1] = first
    <3>1. 1 \in DOMAIN ents /\ ents[1] = w[0]
      BY <1>1
    <3>2. PICK e, x, l : e = w[0] /\ x = w[0].name /\ l = w[0].length
      OBVIOUS
    <3>3. fixed[1] = [e EXCEPT !.start = @ + N]
      BY <1>2, <3>1, <3>2
    <3>4. e = Entry(x, C, l)
      BY <3>2
    <3>5. [e EXCEPT !.start = @ + N] = Entry(x, C + N, l)
      BY ONLY <3>4 DEF Entry
    <3> QED
      BY ONLY <1>3, <3>2, <3>3, <3>5
  <2> QED
    BY ONLY <2>1, <2>2
<1>5. PICK S : S = {fixed[i] : i \in 1 .. C} \cup {NewOne(k, P, i) : i \in 1 .. N}
  OBVIOUS
<1>6. new \in Seq(S) /\ Len(new) = N /\ \A i \in 1 .. N : new[i] = NewOne(k, P, i)
  <2>1. PICK T : T = {NewOne(k, P, i) : i \in 1 .. N}
    OBVIOUS
  <2>2. new \in Seq(T) /\ T \subseteq S
    BY <1>5, <2>1 DEF News
  <2>3. new \in Seq(S)
    BY ONLY <2>2, SeqMonotonic
  <2> QED
    BY <2>3 DEF News
<1>7. PICK A, m, B : A = C - 3 /\ m = C - 2 /\ B = A + N
  OBVIOUS
<1>8. A \in Nat /\ m \in Nat /\ A >= 1 /\ m = A + 1 /\ C = A + 3 /\ B \in Nat
  BY <1>7
<1>9. PICK s, z : s = SubSeq(fixed, 1, A) /\ z = SubSeq(fixed, m, C)
  OBVIOUS
<1>10. s \in Seq(S) /\ Len(s) = A /\ \A i \in 1 .. A : s[i] = fixed[i]
  <2>1. \A i \in 1 .. A : fixed[i] \in S
    BY <1>5, <1>8
  <2>2. 1 \in Int /\ A \in Int
    BY <1>8
  <2>3. /\ SubSeq(fixed, 1, A) \in Seq(S)
        /\ Len(SubSeq(fixed, 1, A)) = IF 1 <= A THEN A - 1 + 1 ELSE 0
        /\ \A i \in 1 .. A - 1 + 1 : SubSeq(fixed, 1, A)[i] = fixed[1 + i - 1]
    BY ONLY <2>1, <2>2, SubSeqProperties
  <2>4. Len(s) = A
    BY <1>8, <1>9, <2>3
  <2>5. ASSUME NEW i \in 1 .. A
        PROVE  s[i] = fixed[i]
    <3>1. i \in 1 .. A - 1 + 1 /\ 1 + i - 1 = i
      BY ONLY <1>8
    <3> QED
      BY <1>9, <2>3, <3>1
  <2> QED
    BY <1>9, <2>3, <2>4, <2>5
<1>11. z \in Seq(S) /\ Len(z) = 3 /\ \A i \in 1 .. 3 : z[i] = fixed[A + i]
  <2>1. \A i \in m .. C : fixed[i] \in S
    BY <1>5, <1>8
  <2>2. m \in Int /\ C \in Int
    BY <1>8
  <2>3. /\ SubSeq(fixed, m, C) \in Seq(S)
        /\ Len(SubSeq(fixed, m, C)) = IF m <= C THEN C - m + 1 ELSE 0
        /\ \A i \in 1 .. C - m + 1 : SubSeq(fixed, m, C)[i] = fixed[m + i - 1]
    BY ONLY <2>1, <2>2, SubSeqProperties
  <2>4. C - m + 1 = 3 /\ m <= C
    BY ONLY <1>8
  <2>5. ASSUME NEW i \in 1 .. 3
        PROVE  z[i] = fixed[A + i]
    <3>1. m + i - 1 = A + i
      BY <1>8
    <3> QED
      BY <1>9, <2>3, <2>4, <3>1
  <2> QED
    BY <1>9, <2>3, <2>4, <2>5
<1>12. PICK sn : sn = s \o new
  OBVIOUS
<1>13. /\ sn \in Seq(S) /\ Len(sn) = B
       /\ \A i \in 1 .. B : sn[i] = IF i <= A THEN s[i] ELSE new[i - A]
  <2>1. /\ s \o new \in Seq(S) /\ Len(s \o new) = Len(s) + Len(new)
        /\ \A i \in 1 .. Len(s) + Len(new) :
             (s \o new)[i] = IF i <= Len(s) THEN s[i] ELSE new[i - Len(s)]
    BY ONLY <1>6, <1>10, ConcatProperties
  <2>2. Len(s) = A /\ Len(new) = N /\ A + N = B
    BY <1>6, <1>7, <1>10
  <2> QED
    BY ONLY <1>12, <2>1, <2>2
<1>14. all = sn \o z
  <2>1. Len(ents) - 3 = A /\ Len(ents) - 2 = m /\ Len(ents) = C
    BY <1>1, <1>7
  <2>2. all = SubSeq(fixed, 1, Len(ents) - 3) \o new \o SubSeq(fixed, Len(ents) - 2, Len(ents))
    BY <1>2
  <2> QED
    BY ONLY <1>9, <1>12, <2>1, <2>2
<1>15. /\ all \in Seq(S) /\ Len(all) = B + 3
       /\ \A i \in 1 .. B + 3 : all[i] = IF i <= B THEN sn[i] ELSE z[i - B]
  <2>1. /\ sn \o z \in Seq(S) /\ Len(sn \o z) = Len(sn) + Len(z)
        /\ \A i \in 1 .. Len(sn) + Len(z) :
             (sn \o z)[i] = IF i <= Len(sn) THEN sn[i] ELSE z[i - Len(sn)]
    BY ONLY <1>11, <1>13, ConcatProperties
  <2>2. Len(sn) = B /\ Len(z) = 3
    BY <1>11, <1>13
  <2> QED
    BY ONLY <1>14, <2>1, <2>2
<1>16. B + 3 = C + N
  BY ONLY <1>7, <1>8, N \in Nat
<1>17. Len(all) = C + N /\ DOMAIN all = 1 .. C + N
  BY ONLY <1>15, <1>16, LenProperties
<1>18. ASSUME NEW i \in 1 .. A
       PROVE  all[i] = fixed[i]
  <2>1. i \in 1 .. B + 3 /\ i <= B /\ i \in 1 .. B /\ i <= A
    BY ONLY <1>7, <1>8, N \in Nat, i \in 1 .. A
  <2> QED
    BY ONLY <1>10, <1>13, <1>15, <2>1
<1>19. all[1] = first
  <2>1. 1 \in 1 .. A /\ 1 \in 1 .. C
    BY <1>8
  <2> QED
    BY ONLY <1>4, <1>18, <2>1
<1>20. ASSUME NEW c \in 1 .. C - 4
       PROVE  all[c + 1] = w[c]
  <2>1. c + 1 \in 1 .. A /\ c + 1 \in 1 .. C /\ c + 1 # 1 /\ (c + 1) - 1 = c
    BY ONLY <1>8, c \in 1 .. C - 4
  <2>2. PICK i : i = c + 1
    OBVIOUS
  <2>3. all[i] = fixed[i] /\ fixed[i] = w[i - 1]
    BY ONLY <1>4, <1>18, <2>1, <2>2
  <2> QED
    BY ONLY <2>1, <2>2, <2>3
<1>21. ASSUME NEW i \in 1 .. N
       PROVE  all[C - 3 + i] = NewOne(k, P, i)
  <2>1. PICK j : j = A + i
    OBVIOUS
  <2>2. j \in 1 .. B + 3 /\ j <= B /\ j \in 1 .. B /\ ~(j <= A) /\ j - A = i /\ C - 3 + i = j
    BY ONLY <1>7, <1>8, <2>1, N \in Nat, i \in 1 .. N
  <2> QED
    BY <1>6, <1>13, <1>15, <2>2
<1>22. ASSUME NEW c \in C - 3 .. C - 1
       PROVE  all[c + N + 1] = w[c]
  <2>1. PICK i, j : i = c - A + 1 /\ j = c + N + 1
    OBVIOUS
  <2>2. /\ j \in 1 .. B + 3 /\ ~(j <= B) /\ j - B = i /\ i \in 1 .. 3 /\ A + i = c + 1
        /\ c + 1 \in 1 .. C /\ c + 1 # 1 /\ (c + 1) - 1 = c
    BY ONLY <1>7, <1>8, <2>1, N \in Nat, c \in C - 3 .. C - 1
  <2>3. all[j] = z[i] /\ z[i] = fixed[A + i]
    BY ONLY <1>11, <1>15, <2>2
  <2>4. PICK x : x = c + 1
    OBVIOUS
  <2>5. fixed[x] = w[x - 1] /\ x - 1 = c /\ fixed[A + i] = fixed[x]
    BY <1>4, <2>2, <2>4
  <2> QED
    BY ONLY <2>1, <2>3, <2>5
<1> QED
  BY ONLY <1>3, <1>17, <1>19, <1>20, <1>21, <1>22 DEF Listed

\* What the script makes of w, whose directory has C entries.
Filed(w, k, b, P, C) ==
  /\ DOMAIN b = DOMAIN w /\ IsArea(b)
  /\ Placed(k, P) /\ P[Len(OSG)] <= Blank + BlankSectors
  /\ C \in Counts /\ C + Len(OSG) <= DirSectors * Sector
  /\ b[0] = Entry(w[0].name, C + Len(OSG), w[0].length)
  /\ \A c \in 1 .. C - 4 : b[c] = w[c]
  /\ \A i \in 1 .. Len(OSG) : b[C - 4 + i] = NewOne(k, P, i)
  /\ \A c \in C - 3 .. C - 1 : b[c + Len(OSG)] = w[c]
  /\ \A c \in DOMAIN w :
       c >= C + Len(OSG) /\ c \notin Blank * Sector .. P[Len(OSG)] * Sector - 1 => b[c] = w[c]
  /\ \A i \in 1 .. Len(OSG) : \A n \in 0 .. SizeOf(k, i) * Sector - 1 :
       /\ P[i - 1] * Sector + n \in DOMAIN w
       /\ b[P[i - 1] * Sector + n] = k[OSG[i].at * Sector + n]

LEMMA FiledIs ==
  ASSUME NEW w, NEW k, NEW P, Placed(k, P), P[Len(OSG)] <= Blank + BlankSectors,
         NEW M \in Nat, DOMAIN w = 0 .. M * Sector - 1, Blank + BlankSectors <= M,
         NEW C, C \in Counts, NEW N, N = Len(OSG), C + N <= DirSectors * Sector,
         NEW d, Copies(w, k, P, d, N), NEW all, Listed(all, w, k, P, C, N),
         NEW b, b = Write(d, 0, all)
  PROVE  Filed(w, k, b, P, C)
<1>1. /\ Blank \in Nat /\ BlankSectors \in Nat /\ DirSectors \in Nat /\ DirSectors <= Blank
  <2>1. Blank \in Nat /\ BlankSectors \in Nat /\ DirSectors \in 1 .. Blank
    BY ONLY ScriptsAssumption
  <2> QED
    BY ONLY <2>1
<1>2. N \in Nat /\ C \in Nat /\ C >= 4
  BY Between DEF Placed
<1>3. PICK D, Z, E, T : /\ D = DirSectors * Sector /\ Z = Blank * Sector
                        /\ E = P[N] * Sector /\ T = M * Sector
  OBVIOUS
<1>4. D \in Nat /\ Z \in Nat /\ E \in Nat /\ T \in Nat /\ D <= Z /\ E <= T
  <2>1. P[N] \in Nat /\ P[N] <= M
    <3>1. P[N] \in Nat
      BY <1>2 DEF Placed
    <3>2. PICK x : x = P[N]
      OBVIOUS
    <3>3. x \in Nat /\ x <= Blank + BlankSectors
      BY <3>1, <3>2
    <3> QED
      BY ONLY <1>1, <3>2, <3>3, M \in Nat, Blank + BlankSectors <= M
  <2> QED
    BY ONLY <1>1, <1>3, <2>1, Product
<1>5. /\ DOMAIN d = DOMAIN w /\ IsArea(d)
      /\ \A c \in DOMAIN w : c \notin Z .. E - 1 => d[c] = w[c]
      /\ \A i \in 1 .. N : \A n \in 0 .. SizeOf(k, i) * Sector - 1 :
           P[i - 1] * Sector + n \in DOMAIN w => d[P[i - 1] * Sector + n] = k[OSG[i].at * Sector + n]
  BY ONLY <1>3, Copies(w, k, P, d, N) DEF Copies
<1>6. b = [c \in DOMAIN d |-> IF c - 0 + 1 \in DOMAIN all THEN all[c - 0 + 1] ELSE d[c]]
  BY DEF Write
<1>7. DOMAIN b = DOMAIN w /\ IsArea(b)
  BY <1>5, <1>6 DEF IsArea
<1>8. C + N <= D
  BY <1>3
<1>9. ASSUME NEW c \in 0 .. C + N - 1
      PROVE  c \in DOMAIN w /\ ((c \in DOMAIN w) => b[c] = all[c + 1])
  <2>0. c \in DOMAIN w => b[c] = all[c + 1]
    <3>1. DOMAIN all = 1 .. C + N
      BY DEF Listed
    <3>2. c - 0 + 1 = c + 1 /\ c + 1 \in 1 .. C + N
      BY <1>2
    <3>3. PICK y : y = c - 0 + 1
      OBVIOUS
    <3>4. y = c + 1 /\ y \in DOMAIN all
      BY ONLY <3>1, <3>2, <3>3
    <3>5. c \in DOMAIN w => b[c] = all[y]
      BY ONLY <1>5, <1>6, <3>3, <3>4
    <3> QED
      BY ONLY <3>4, <3>5
  <2>1. D <= T
    <3>1. DirSectors <= M
      BY ONLY <1>1, M \in Nat, Blank + BlankSectors <= M
    <3> QED
      BY ONLY <1>1, <1>3, <3>1, Product
  <2>2. c \in 0 .. T - 1
    BY ONLY <1>2, <1>4, <1>8, <2>1, c \in 0 .. C + N - 1
  <2> QED
    BY <1>3, <2>0, <2>2
<1>10. ASSUME NEW c \in DOMAIN w, c >= C + N
       PROVE  b[c] = d[c]
  <2>1. DOMAIN all = 1 .. C + N
    BY DEF Listed
  <2>2. c \in Nat
    BY <1>3, <1>4
  <2>3. c - 0 + 1 \notin 1 .. C + N
    BY ONLY <1>2, <1>10, <2>2
  <2>4. c \in DOMAIN d /\ c - 0 + 1 \notin DOMAIN all
    BY ONLY <1>5, <1>10, <2>1, <2>3
  <2> QED
    BY ONLY <1>6, <2>4
<1>11. b[0] = Entry(w[0].name, C + N, w[0].length)
  <2>1. 0 \in 0 .. C + N - 1 /\ 0 + 1 = 1
    BY <1>2
  <2>2. b[0] = all[0 + 1]
    BY ONLY <1>9, <2>1
  <2> QED
    BY <2>1, <2>2 DEF Listed
<1>12. ASSUME NEW c \in 1 .. C - 4
       PROVE  b[c] = w[c]
  <2>1. c \in 0 .. C + N - 1
    BY ONLY <1>2, c \in 1 .. C - 4
  <2>2. b[c] = all[c + 1]
    BY ONLY <1>9, <2>1
  <2> QED
    BY <2>2 DEF Listed
<1>13. ASSUME NEW i \in 1 .. N
       PROVE  b[C - 4 + i] = NewOne(k, P, i)
  <2>1. PICK c : c = C - 4 + i
    OBVIOUS
  <2>2. c \in 0 .. C + N - 1 /\ c + 1 = C - 3 + i
    BY ONLY <1>2, <2>1, i \in 1 .. N
  <2>3. b[c] = all[c + 1]
    BY ONLY <1>9, <2>2
  <2> QED
    BY <2>1, <2>2, <2>3 DEF Listed
<1>14. ASSUME NEW c \in C - 3 .. C - 1
       PROVE  b[c + N] = w[c]
  <2>1. PICK x : x = c + N
    OBVIOUS
  <2>2. x \in 0 .. C + N - 1 /\ x + 1 = c + N + 1
    BY ONLY <1>2, <2>1, c \in C - 3 .. C - 1
  <2>3. b[x] = all[x + 1]
    BY ONLY <1>9, <2>2
  <2> QED
    BY <2>1, <2>2, <2>3 DEF Listed
<1>15. ASSUME NEW c \in DOMAIN w, c >= C + N, c \notin Z .. E - 1
       PROVE  b[c] = w[c]
  BY <1>5, <1>10, <1>15
<1>16. ASSUME NEW i \in 1 .. N, NEW n \in 0 .. SizeOf(k, i) * Sector - 1
       PROVE  /\ P[i - 1] * Sector + n \in DOMAIN w
              /\ b[P[i - 1] * Sector + n] = k[OSG[i].at * Sector + n]
  <2>1. PICK p, u, e : p = P[i - 1] * Sector /\ u = SizeOf(k, i) * Sector /\ e = P[i] * Sector
    OBVIOUS
  <2>2. p \in Nat /\ u \in Nat /\ e = p + u /\ Z <= p /\ e <= E
    BY <1>3, <2>1, PlaceIs
  <2>3. PICK c : c = p + n
    OBVIOUS
  <2>4. n \in 0 .. u - 1
    BY <2>1
  <2>5. c \in 0 .. T - 1 /\ c >= C + N
    BY ONLY <1>2, <1>4, <1>8, <2>2, <2>3, <2>4
  <2>6. c \in DOMAIN w
    BY <1>3, <2>5
  <2>7. b[c] = d[c]
    BY <1>10, <2>5, <2>6
  <2>8. d[c] = k[OSG[i].at * Sector + n]
    BY ONLY <1>5, <2>1, <2>3, <2>6
  <2> QED
    BY <2>1, <2>3, <2>6, <2>7, <2>8
<1> QED
  BY <1>3, <1>7, <1>8, <1>11, <1>12, <1>13, <1>14, <1>15, <1>16 DEF Filed

\* Every cell of the blank sectors that were filled is one of a copy.
LEMMA InCopy ==
  ASSUME NEW k, NEW P, Placed(k, P), NEW c \in Nat, Blank * Sector <= c,
         c < P[Len(OSG)] * Sector
  PROVE  \E i \in 1 .. Len(OSG) : \E n \in 0 .. SizeOf(k, i) * Sector - 1 : c = P[i - 1] * Sector + n
<1>1. PICK N : N = Len(OSG)
  OBVIOUS
<1>2. N \in Nat
  BY <1>1 DEF Placed
<1> DEFINE S == {j \in 0 .. N : c < P[j] * Sector}
<1>3. N \in S /\ S \in SUBSET Nat
  BY <1>1, <1>2
<1>4. PICK i \in S : \A m \in S : i <= m
  BY <1>3, Least
<1>5. i \in 0 .. N /\ c < P[i] * Sector
  OBVIOUS
<1>6. i # 0
  <2>1. P[0] * Sector = Blank * Sector /\ Blank * Sector \in Nat
    BY ScriptsAssumption, Product, GeometryAssumption DEF Placed
  <2> QED
    BY <1>5, <2>1
<1>7. i \in 1 .. N /\ i - 1 \in 0 .. N /\ ~(i <= i - 1)
  BY <1>2, <1>5, <1>6
<1>8. ~(c < P[i - 1] * Sector)
  BY <1>4, <1>7
<1>9. PICK p, u, e : p = P[i - 1] * Sector /\ u = SizeOf(k, i) * Sector /\ e = P[i] * Sector
  OBVIOUS
<1>10. p \in Nat /\ u \in Nat /\ e = p + u
  BY <1>1, <1>7, <1>9, PlaceIs
<1>11. PICK n : n = c - p
  OBVIOUS
<1>12. n \in 0 .. u - 1 /\ c = p + n
  BY ONLY <1>5, <1>8, <1>9, <1>10, <1>11, c \in Nat
<1> QED
  BY <1>1, <1>7, <1>9, <1>12

\* What is known when build_allres_osg.py has made b.
Grown(w, k, b, P, C) ==
  /\ shelf \in Shelves /\ k = shelf["K02743"].data /\ w = shelf["ALL"].data /\ AllOK(shelf["ALL"])
  /\ Laid(w, 0, DirSectors) /\ C = w[0].start
  /\ Filed(w, k, b, P, C)
  /\ \A i \in 1 .. Len(OSG) : /\ k[OSG[i].at * Sector].name = OSG[i].name
                              /\ \A c \in DirCells(w, 0) : w[c].name # OSG[i].name

\* The sizes that matter: N new entries behind C old ones, in D cells.
Sizes(w, b, P, C, N, D, M) ==
  /\ N = Len(OSG) /\ N \in Nat /\ C \in Nat /\ C >= 4 /\ D = DirSectors * Sector /\ D \in Nat
  /\ C + N <= D /\ D <= 1024 /\ D <= Blank * Sector
  /\ M = nsec(w) /\ M \in Nat /\ nsec(b) = M /\ DOMAIN w = 0 .. M * Sector - 1 /\ DOMAIN b = DOMAIN w
  /\ Blank \in Nat /\ BlankSectors \in Nat /\ DirSectors \in Nat \ {0} /\ DirSectors <= Blank
  /\ Blank + BlankSectors <= M /\ P[N] \in Nat /\ P[N] <= Blank + BlankSectors /\ Blank <= P[N]
  /\ DirCells(w, 0) = 0 .. C - 1 /\ DirCells(b, 0) = 0 .. C + N - 1
  /\ D <= M * Sector /\ M * Sector \in Nat /\ Blank * Sector \in Nat /\ P[N] * Sector \in Nat
  /\ 0 * Sector = 0

LEMMA SizesIs ==
  ASSUME NEW w, NEW k, NEW b, NEW P, NEW C, Grown(w, k, b, P, C)
  PROVE  \E N, D, M : Sizes(w, b, P, C, N, D, M)
<1>1. PICK N, D, M : N = Len(OSG) /\ D = DirSectors * Sector /\ M = nsec(w)
  OBVIOUS
<1>2. Filed(w, k, b, P, C) /\ Laid(w, 0, DirSectors) /\ C = w[0].start /\ w = shelf["ALL"].data
  BY DEF Grown
<1>3. Placed(k, P) /\ P[N] <= Blank + BlankSectors /\ C \in Counts /\ C + N <= D /\ DOMAIN b = DOMAIN w
  BY <1>1, <1>2 DEF Filed
<1>4. N \in Nat /\ C \in Nat /\ C >= 4 /\ P[N] \in Nat
  <2>1. N \in Nat
    BY <1>1, <1>3 DEF Placed
  <2>2. N \in 0 .. N
    BY ONLY <2>1
  <2>3. P[N] \in Nat
    BY <1>1, <1>3, <2>2 DEF Placed
  <2>4. C \in Counts
    BY <1>3
  <2>5. C \in Nat /\ C >= 4
    BY ONLY <2>4, Between
  <2> QED
    BY <2>1, <2>3, <2>5
<1>5. Blank \in Nat /\ BlankSectors \in Nat /\ DirSectors \in 1 .. Blank /\ D <= 1024
  BY <1>1, ScriptsAssumption
<1>6. DirSectors \in Nat \ {0} /\ DirSectors <= Blank
  BY ONLY <1>5
<1>7. M \in Nat /\ M * Sector \in Nat /\ DOMAIN w = 0 .. M * Sector - 1
  BY <1>1, <1>2, LaidIs
<1>8. nsec(b) = M
  BY <1>3, <1>7, AreaSize
<1>9. Blank + BlankSectors <= M
  BY <1>1, <1>2 DEF AllOK, Grown
<1>10. Blank <= P[N]
  <2>1. 0 \in 0 .. N /\ N \in 0 .. N /\ 0 <= N /\ P[0] = Blank
    BY <1>3, <1>4 DEF Placed
  <2> QED
    BY <1>1, <1>3, <2>1, PlacedRises
<1>11. 0 * Sector = 0
  BY GeometryAssumption
<1>12. b[0] = Entry(w[0].name, C + N, w[0].length)
  BY <1>1, <1>2 DEF Filed
<1>13. b[0].start = C + N
  BY ONLY <1>12 DEF Entry
<1>14. 0 + C - 1 = C - 1 /\ 0 + (C + N) - 1 = C + N - 1
  BY <1>4
<1>15. DirCells(w, 0) = 0 .. C - 1 /\ DirCells(b, 0) = 0 .. C + N - 1
  BY <1>2, <1>11, <1>13, <1>14 DEF DirCells
<1>16. DirSectors <= M
  BY ONLY <1>5, <1>6, <1>7, <1>9
<1>17. D \in Nat /\ D <= Blank * Sector /\ D <= M * Sector /\ Blank * Sector \in Nat /\ P[N] * Sector \in Nat
  <2>1. DirSectors \in Nat /\ Blank \in Nat /\ M \in Nat /\ P[N] \in Nat
    BY <1>4, <1>5, <1>6, <1>7
  <2>2. DirSectors * Sector \in Nat /\ DirSectors * Sector <= Blank * Sector
    BY ONLY <1>6, <2>1, Product
  <2>3. DirSectors * Sector <= M * Sector
    BY ONLY <1>16, <2>1, Product
  <2>4. Blank * Sector \in Nat /\ P[N] * Sector \in Nat
    BY ONLY <2>1, Product
  <2> QED
    BY ONLY <1>1, <2>2, <2>3, <2>4
<1>18. Sizes(w, b, P, C, N, D, M)
  BY ONLY <1>1, <1>3, <1>4, <1>5, <1>6, <1>7, <1>8, <1>9, <1>10, <1>11, <1>15, <1>17 DEF Sizes
<1> QED
  BY <1>18

\* A cell of an old entry, of a new one, of a copy, or as it was.
LEMMA GrownEntry ==
  ASSUME NEW w, NEW k, NEW b, NEW P, NEW C, Grown(w, k, b, P, C),
         NEW N, NEW D, NEW M, Sizes(w, b, P, C, N, D, M), NEW c \in 1 .. C + N - 1
  PROVE  \/ \E d \in 1 .. C - 1 : b[c] = w[d] /\ (d = c \/ d \in C - 3 .. C - 1)
         \/ \E i \in 1 .. N : b[c] = NewOne(k, P, i)
<1>1. /\ \A x \in 1 .. C - 4 : b[x] = w[x]
      /\ \A i \in 1 .. N : b[C - 4 + i] = NewOne(k, P, i)
      /\ \A x \in C - 3 .. C - 1 : b[x + N] = w[x]
  <2>1. Filed(w, k, b, P, C)
    BY DEF Grown
  <2>2. N = Len(OSG)
    BY DEF Sizes
  <2> QED
    BY ONLY <2>1, <2>2 DEF Filed
<1>2. N \in Nat /\ C \in Nat /\ C >= 4
  BY DEF Sizes
<1>3. CASE c <= C - 4
  <2>1. c \in 1 .. C - 4 /\ c \in 1 .. C - 1
    BY ONLY <1>2, <1>3, c \in 1 .. C + N - 1
  <2> QED
    BY <1>1, <2>1
<1>4. CASE c > C - 4 /\ c <= C - 4 + N
  <2>1. PICK i : i = c - (C - 4)
    OBVIOUS
  <2>2. i \in 1 .. N /\ C - 4 + i = c
    BY ONLY <1>2, <1>4, <2>1, c \in 1 .. C + N - 1
  <2>3. b[C - 4 + i] = NewOne(k, P, i)
    BY <1>1, <2>2
  <2> QED
    BY <2>2, <2>3
<1>5. CASE c > C - 4 + N
  <2>1. PICK d : d = c - N
    OBVIOUS
  <2>2. d \in C - 3 .. C - 1 /\ d + N = c /\ d \in 1 .. C - 1
    BY ONLY <1>2, <1>5, <2>1, c \in 1 .. C + N - 1
  <2>3. b[d + N] = w[d]
    BY <1>1, <2>2
  <2> QED
    BY <2>2, <2>3
<1>6. c <= C - 4 \/ (c > C - 4 /\ c <= C - 4 + N) \/ c > C - 4 + N
  BY ONLY <1>2, c \in 1 .. C + N - 1
<1> QED
  BY <1>3, <1>4, <1>5, <1>6

LEMMA GrownCopy ==
  ASSUME NEW w, NEW k, NEW b, NEW P, NEW C, Grown(w, k, b, P, C),
         NEW N, NEW D, NEW M, Sizes(w, b, P, C, N, D, M),
         NEW c \in Nat, c \in Blank * Sector .. P[N] * Sector - 1
  PROVE  \E i \in 1 .. N : \E n \in 0 .. SizeOf(k, i) * Sector - 1 :
           c = P[i - 1] * Sector + n /\ b[c] = k[OSG[i].at * Sector + n]
<1>1. Placed(k, P) /\ N = Len(OSG)
  BY DEF Grown, Filed, Sizes
<1>2. Blank * Sector <= c /\ c < P[Len(OSG)] * Sector
  <2>1. Blank * Sector \in Nat /\ P[N] * Sector \in Nat
    BY DEF Sizes
  <2>2. Blank * Sector <= c /\ c < P[N] * Sector
    BY ONLY <2>1, c \in Nat, c \in Blank * Sector .. P[N] * Sector - 1
  <2> QED
    BY <1>1, <2>2
<1>3. PICK i \in 1 .. Len(OSG) : \E n \in 0 .. SizeOf(k, i) * Sector - 1 : c = P[i - 1] * Sector + n
  BY <1>1, <1>2, InCopy
<1>4. PICK n \in 0 .. SizeOf(k, i) * Sector - 1 : c = P[i - 1] * Sector + n
  BY <1>3
<1>5. b[P[i - 1] * Sector + n] = k[OSG[i].at * Sector + n]
  BY <1>1 DEF Grown, Filed
<1> QED
  BY <1>1, <1>4, <1>5

LEMMA GrownCell ==
  ASSUME NEW w, NEW k, NEW b, NEW P, NEW C, Grown(w, k, b, P, C),
         NEW N, NEW D, NEW M, Sizes(w, b, P, C, N, D, M), NEW c \in DOMAIN b
  PROVE  CellOK(b[c]) /\ (b[c].kind = "entry" <=> c \in DirCells(b, 0))
<1>1. /\ N \in Nat /\ C \in Nat /\ C >= 4 /\ N = Len(OSG) /\ C + N <= D /\ D \in Nat
      /\ c \in DOMAIN w /\ M * Sector \in Nat /\ c \in 0 .. M * Sector - 1
      /\ DirCells(w, 0) = 0 .. C - 1 /\ DirCells(b, 0) = 0 .. C + N - 1
      /\ D <= Blank * Sector /\ Blank * Sector \in Nat /\ P[N] * Sector \in Nat
  BY DEF Sizes
<1>2. Laid(w, 0, DirSectors) /\ shelf \in Shelves /\ k = shelf["K02743"].data /\ Placed(k, P)
  BY DEF Grown, Filed
<1>3. c \in Nat
  BY ONLY <1>1
<1>4. ASSUME NEW d \in 0 .. C - 1
      PROVE  /\ CellOK(w[d]) /\ w[d].kind = "entry" /\ w[d].name # "" /\ w[d].length \in Nat
  <2>1. d \in DirCells(w, 0)
    BY ONLY <1>1
  <2>2. d \in DOMAIN w /\ w[d].kind = "entry" /\ w[d].name # "" /\ w[d].length \in Nat
    BY ONLY <1>2, <2>1, EntryFields
  <2>3. CellOK(w[d])
    BY <1>2, <2>2, LaidIs
  <2> QED
    BY <2>2, <2>3
<1>5. CASE c = 0
  <2>1. b[0] = Entry(w[0].name, C + N, w[0].length)
    BY <1>1 DEF Grown, Filed
  <2>2. 0 \in 0 .. C - 1 /\ C + N \in Nat /\ c \in 0 .. C + N - 1
    BY ONLY <1>1, <1>5
  <2>3. w[0].name # "" /\ w[0].length \in Nat
    BY <1>4, <2>2
  <2>4. CellOK(Entry(w[0].name, C + N, w[0].length))
    BY ONLY <2>2, <2>3, EntryOK
  <2>5. Entry(w[0].name, C + N, w[0].length).kind = "entry"
    BY DEF Entry
  <2> QED
    BY <1>1, <1>5, <2>1, <2>2, <2>4, <2>5
<1>6. CASE c \in 1 .. C + N - 1
  <2>1. c \in DirCells(b, 0)
    BY <1>1, <1>6
  <2>2. CASE \E d \in 1 .. C - 1 : b[c] = w[d]
    <3>1. PICK d \in 1 .. C - 1 : b[c] = w[d]
      BY <2>2
    <3>2. d \in 0 .. C - 1
      OBVIOUS
    <3> QED
      BY <1>4, <2>1, <3>1, <3>2
  <2>3. CASE \E i \in 1 .. N : b[c] = NewOne(k, P, i)
    <3>1. PICK i \in 1 .. N : b[c] = NewOne(k, P, i)
      BY <2>3
    <3>2. i \in 1 .. Len(OSG)
      BY <1>1
    <3>3. OSG[i].as # "" /\ ModuleCells(k, OSG[i].at, OSG[i].at * Sector, SizeOf(k, i) * Sector)
      BY ONLY <1>2, <3>2, OsgIs
    <3>4. k[OSG[i].at * Sector].length \in Nat
      BY <3>3 DEF ModuleCells
    <3>5. P[i - 1] \in Nat /\ P[i - 1] + 1 \in Nat
      BY <1>2, <3>2, PlaceIs
    <3>6. CellOK(NewOne(k, P, i))
      BY <3>3, <3>4, <3>5, EntryOK DEF NewOne
    <3>7. NewOne(k, P, i).kind = "entry"
      BY DEF NewOne, Entry
    <3> QED
      BY <2>1, <3>1, <3>6, <3>7
  <2> QED
    BY <1>6, <2>2, <2>3, GrownEntry
<1>7. CASE c \in Blank * Sector .. P[N] * Sector - 1
  <2>1. c \notin DirCells(b, 0)
    BY <1>1, <1>3, <1>7
  <2>2. PICK i \in 1 .. N : \E n \in 0 .. SizeOf(k, i) * Sector - 1 :
           c = P[i - 1] * Sector + n /\ b[c] = k[OSG[i].at * Sector + n]
    BY <1>3, <1>7, GrownCopy
  <2>3. PICK n \in 0 .. SizeOf(k, i) * Sector - 1 : b[c] = k[OSG[i].at * Sector + n]
    BY <2>2
  <2>4. i \in 1 .. Len(OSG)
    BY <1>1
  <2>5. ModuleCells(k, OSG[i].at, OSG[i].at * Sector, SizeOf(k, i) * Sector)
    BY ONLY <1>2, <2>4, OsgIs
  <2>6. CellOK(k[OSG[i].at * Sector + n]) /\ k[OSG[i].at * Sector + n].kind # "entry"
    BY <2>5 DEF ModuleCells
  <2> QED
    BY <2>1, <2>3, <2>6
<1>8. CASE c >= C + N /\ c \notin Blank * Sector .. P[N] * Sector - 1
  <2>1. b[c] = w[c]
    <3>1. Filed(w, k, b, P, C)
      BY DEF Grown
    <3>2. c \in DOMAIN w /\ N = Len(OSG)
      BY <1>1
    <3> QED
      BY ONLY <1>8, <3>1, <3>2 DEF Filed
  <2>2. c \notin DirCells(b, 0) /\ c \notin DirCells(w, 0)
    BY <1>1, <1>3, <1>8
  <2>3. CellOK(w[c]) /\ (w[c].kind = "entry" <=> c \in DirCells(w, 0))
    <3>1. c \in DOMAIN w /\ Laid(w, 0, DirSectors)
      BY <1>1, <1>2
    <3>2. CellOK(w[c])
      BY ONLY <3>1, LaidIs
    <3>3. w[c].kind = "entry" <=> c \in DirCells(w, 0)
      BY ONLY <3>1, DirIs
    <3> QED
      BY <3>2, <3>3
  <2> QED
    BY <2>1, <2>2, <2>3
<1>9. c = 0 \/ c \in 1 .. C + N - 1 \/ c >= C + N
  BY ONLY <1>1, <1>3
<1> QED
  BY <1>5, <1>6, <1>7, <1>8, <1>9

\* What sector t has in common with w: it is as it was, or it is of the directory,
\* of the header of a copy, or of the rest of one.
SectorNow(w, k, b, P, N, t) ==
  \/ b[t * Sector] = w[t * Sector] /\ t >= DirSectors /\ t \notin Blank .. P[N] - 1
  \/ t < DirSectors /\ b[t * Sector].kind # "head" /\ w[t * Sector].kind # "head"
  \/ /\ w[t * Sector].kind # "head" /\ t >= DirSectors
     /\ \E i \in 1 .. N : t = P[i - 1] /\ b[t * Sector] = k[OSG[i].at * Sector]
  \/ /\ w[t * Sector].kind # "head" /\ t >= DirSectors
     /\ b[t * Sector].kind = "data" /\ b[t * Sector].name = ""

LEMMA HeaderAt ==
  ASSUME NEW w, NEW di, NEW room, Laid(w, di, room), NEW t \in Nat, t * Sector \in DOMAIN w
  PROVE  t \in 0 .. nsec(w) - 1 /\ (w[t * Sector].kind = "head" <=> t \in headers(w))
<1>1. nsec(w) \in Nat /\ t < nsec(w)
  BY LaidIs
<1>2. t \in 0 .. nsec(w) - 1
  BY ONLY <1>1, t \in Nat
<1> QED
  BY <1>2 DEF headers

\* No module was in the blank sectors, nor in those of the directory.
LEMMA BlankIs ==
  ASSUME NEW w, NEW k, NEW b, NEW P, NEW C, Grown(w, k, b, P, C),
         NEW N, NEW D, NEW M, Sizes(w, b, P, C, N, D, M), NEW t \in headers(w)
  PROVE  /\ t \in Nat /\ t >= DirSectors /\ t \notin Blank .. P[N] - 1
         /\ Behind(w, t) \in Nat /\ t < Behind(w, t) /\ Behind(w, t) <= M
         /\ Behind(w, t) <= Blank \/ Blank + BlankSectors <= t
         /\ w[t * Sector].name \notin {m.as : m \in ToSet(OSG)}
         /\ w[t * Sector].name \notin Specials \cup Range(Typeable)
<1>1. Laid(w, 0, DirSectors) /\ AllOK(shelf["ALL"]) /\ w = shelf["ALL"].data
  BY DEF Grown
<1>2. HeaderOK(w, t)
  BY <1>1, HeaderIs
<1>3. t \in Nat /\ Behind(w, t) \in Nat /\ t < Behind(w, t) /\ Behind(w, t) <= M
  BY <1>2 DEF HeaderOK, Sizes
<1>4. 0 + DirSectors <= t \/ Behind(w, t) <= 0
  BY <1>1, LaidHeader
<1>5. DirSectors \in Nat /\ P[N] \in Nat /\ P[N] <= Blank + BlankSectors /\ Blank \in Nat /\ BlankSectors \in Nat
  BY DEF Sizes
<1>6. Behind(w, t) <= Blank \/ Blank + BlankSectors <= t
  BY <1>1 DEF AllOK
<1>7. w[t * Sector].name \notin {m.as : m \in ToSet(OSG)}
  BY <1>1 DEF AllOK
<1>8. w[t * Sector].name \notin Specials \cup Range(Typeable)
  BY <1>1, LaidHeader
<1>9. t >= DirSectors /\ t \notin Blank .. P[N] - 1
  BY ONLY <1>3, <1>4, <1>5, <1>6
<1> QED
  BY <1>3, <1>6, <1>7, <1>8, <1>9

LEMMA GrownSector ==
  ASSUME NEW w, NEW k, NEW b, NEW P, NEW C, Grown(w, k, b, P, C),
         NEW N, NEW D, NEW M, Sizes(w, b, P, C, N, D, M), NEW t \in Nat, t * Sector \in DOMAIN b
  PROVE  SectorNow(w, k, b, P, N, t)
<1>1. /\ N \in Nat /\ C \in Nat /\ C >= 4 /\ N = Len(OSG) /\ C + N <= D /\ D \in Nat
      /\ t * Sector \in DOMAIN w /\ DOMAIN b = DOMAIN w /\ D = DirSectors * Sector
      /\ DirCells(w, 0) = 0 .. C - 1 /\ DirCells(b, 0) = 0 .. C + N - 1
      /\ DirSectors \in Nat /\ Blank \in Nat /\ P[N] \in Nat
      /\ D <= Blank * Sector /\ Blank * Sector \in Nat /\ P[N] * Sector \in Nat
      /\ DirSectors <= Blank /\ nsec(w) = M /\ nsec(b) = M
  BY ONLY Sizes(w, b, P, C, N, D, M), t * Sector \in DOMAIN b DEF Sizes
<1>2. Laid(w, 0, DirSectors) /\ shelf \in Shelves /\ k = shelf["K02743"].data /\ Placed(k, P)
  BY DEF Grown, Filed
<1>3. t * Sector \in Nat
  BY Product, GeometryAssumption
<1>4. w[t * Sector].kind = "head" => t >= DirSectors /\ t \notin Blank .. P[N] - 1
  <2>1. w[t * Sector].kind = "head" <=> t \in headers(w)
    BY <1>1, <1>2, HeaderAt
  <2> QED
    BY <2>1, BlankIs
<1>5. CASE t < DirSectors
  <2>1. w[t * Sector].kind # "head"
    BY ONLY <1>1, <1>4, <1>5, t \in Nat
  <2>2. CASE t * Sector < C + N
    <3>1. t * Sector \in 0 .. C + N - 1
      BY ONLY <1>1, <1>3, <2>2
    <3>2. t * Sector \in DirCells(b, 0)
      BY <1>1, <3>1
    <3>3. b[t * Sector].kind = "entry"
      BY <3>2, GrownCell
    <3> QED
      BY <1>5, <2>1, <3>3 DEF SectorNow
  <2>3. CASE ~(t * Sector < C + N)
    <3>1. t * Sector < D
      BY <1>1, <1>5, Product
    <3>2. t * Sector >= C + N /\ t * Sector \notin Blank * Sector .. P[N] * Sector - 1
      BY ONLY <1>1, <1>3, <2>3, <3>1
    <3>3. b[t * Sector] = w[t * Sector]
      BY <1>1, <3>2 DEF Grown, Filed
    <3> QED
      BY <1>5, <2>1, <3>3 DEF SectorNow
  <2> QED
    BY <2>2, <2>3
<1>6. CASE t >= DirSectors /\ t \notin Blank .. P[N] - 1
  <2>1. D <= t * Sector
    BY <1>1, <1>6, Product
  <2>2. t < Blank \/ P[N] <= t
    BY ONLY <1>1, <1>6, t \in Nat
  <2>3. t * Sector < Blank * Sector \/ P[N] * Sector <= t * Sector
    BY <1>1, <2>2, Product
  <2>4. t * Sector >= C + N /\ t * Sector \notin Blank * Sector .. P[N] * Sector - 1
    BY ONLY <1>1, <1>3, <2>1, <2>3
  <2>5. b[t * Sector] = w[t * Sector]
    BY <1>1, <2>4 DEF Grown, Filed
  <2> QED
    BY <1>6, <2>5 DEF SectorNow
<1>7. CASE t \in Blank .. P[N] - 1
  <2>1. w[t * Sector].kind # "head" /\ t >= DirSectors
    BY ONLY <1>1, <1>4, <1>7, t \in Nat
  <2>2. Blank <= t /\ t < P[N]
    BY ONLY <1>1, <1>7, t \in Nat
  <2>3. Blank * Sector <= t * Sector /\ t * Sector < P[N] * Sector
    BY <1>1, <2>2, Product
  <2>4. t * Sector \in Blank * Sector .. P[N] * Sector - 1
    BY ONLY <1>1, <1>3, <2>3
  <2>5. PICK i \in 1 .. N : \E n \in 0 .. SizeOf(k, i) * Sector - 1 :
           t * Sector = P[i - 1] * Sector + n /\ b[t * Sector] = k[OSG[i].at * Sector + n]
    BY <1>3, <2>4, GrownCopy
  <2>6. PICK n \in 0 .. SizeOf(k, i) * Sector - 1 :
           t * Sector = P[i - 1] * Sector + n /\ b[t * Sector] = k[OSG[i].at * Sector + n]
    BY <2>5
  <2>7. i \in 1 .. Len(OSG)
    BY <1>1
  <2>8. /\ P[i - 1] \in Nat /\ P[i - 1] * Sector \in Nat /\ SizeOf(k, i) * Sector \in Nat
    BY <1>2, <2>7, PlaceIs
  <2>9. PICK p, m : p = P[i - 1] /\ m = SizeOf(k, i) * Sector
    OBVIOUS
  <2>10. p * Sector \in Nat /\ m \in Nat /\ n \in 0 .. m - 1 /\ t * Sector = p * Sector + n /\ p \in Nat
    BY <2>6, <2>8, <2>9
  <2>11. t * Sector \in p * Sector .. p * Sector + m - 1
    BY ONLY <2>10
  <2>12. PICK u \in Nat : t = p + u /\ t * Sector = p * Sector + u * Sector /\ u * Sector \in 0 .. m - 1
    BY ONLY <2>10, <2>11, t \in Nat, SectorIn
  <2>13. u * Sector = n /\ u * Sector \in Nat
    BY ONLY <2>10, <2>12
  <2>14. ModuleCells(k, OSG[i].at, OSG[i].at * Sector, SizeOf(k, i) * Sector)
    BY ONLY <1>2, <2>7, OsgIs
  <2>15. CASE u = 0
    <3>1. n = 0 /\ t = p
      BY <2>10, <2>12, <2>13, <2>15, GeometryAssumption
    <3>2. OSG[i].at \in Nat
      BY ONLY <1>2, <2>7, OsgIs
    <3>3. OSG[i].at * Sector \in Nat
      BY <3>2, Product, GeometryAssumption
    <3>4. PICK f : f = OSG[i].at * Sector
      OBVIOUS
    <3>5. f + n = f
      BY ONLY <3>1, <3>3, <3>4
    <3>6. t = P[i - 1] /\ b[t * Sector] = k[OSG[i].at * Sector]
      BY <2>6, <2>9, <3>1, <3>4, <3>5
    <3> QED
      BY <2>1, <3>6 DEF SectorNow
  <2>16. CASE u # 0
    <3>1. k[OSG[i].at * Sector + u * Sector].kind = "data" /\ k[OSG[i].at * Sector + u * Sector].name = ""
      BY ONLY <2>9, <2>12, <2>14, <2>16 DEF ModuleCells
    <3>2. b[t * Sector].kind = "data" /\ b[t * Sector].name = ""
      BY <2>6, <2>13, <3>1
    <3> QED
      BY <2>1, <3>2 DEF SectorNow
  <2> QED
    BY <2>15, <2>16
<1>8. t < DirSectors \/ t >= DirSectors
  BY ONLY <1>1, t \in Nat
<1> QED
  BY <1>5, <1>6, <1>7, <1>8

\* Where the copies begin.
LEMMA CopyAt ==
  ASSUME NEW w, NEW k, NEW b, NEW P, NEW C, Grown(w, k, b, P, C),
         NEW N, NEW D, NEW M, Sizes(w, b, P, C, N, D, M), NEW i \in 1 .. N
  PROVE  /\ P[i - 1] \in Nat /\ P[i] \in Nat /\ Blank <= P[i - 1] /\ DirSectors <= P[i - 1]
         /\ P[i - 1] < P[i] /\ P[i] <= P[N] /\ P[i - 1] < M
         /\ P[i - 1] * Sector \in DOMAIN b /\ P[i - 1] \in headers(b)
         /\ b[P[i - 1] * Sector] = k[OSG[i].at * Sector] /\ Behind(b, P[i - 1]) = P[i]
         /\ b[P[i - 1] * Sector].name = OSG[i].name
         /\ b[P[i - 1] * Sector].name \notin Specials \cup Range(Typeable)
<1>1. /\ N \in Nat /\ N = Len(OSG) /\ i \in 1 .. Len(OSG) /\ DirSectors \in Nat /\ Blank \in Nat
      /\ DirSectors <= Blank /\ P[N] \in Nat /\ P[N] <= Blank + BlankSectors /\ BlankSectors \in Nat
      /\ Blank + BlankSectors <= M /\ M \in Nat /\ DOMAIN b = 0 .. M * Sector - 1 /\ nsec(b) = M
      /\ M * Sector \in Nat
  BY DEF Sizes
<1>2. shelf \in Shelves /\ k = shelf["K02743"].data /\ Placed(k, P)
  BY DEF Grown, Filed
<1>3. /\ P[i - 1] \in Nat /\ P[i] \in Nat /\ Blank <= P[i - 1] /\ P[i - 1] < P[i]
      /\ P[i] <= P[Len(OSG)] /\ P[i] = P[i - 1] + SizeOf(k, i)
  BY <1>1, <1>2, PlaceIs
<1>4. PICK p, q, e : p = P[i - 1] /\ q = P[i] /\ e = P[N]
  OBVIOUS
<1>5. p \in Nat /\ q \in Nat /\ Blank <= p /\ p < q /\ q <= e /\ e \in Nat /\ e <= Blank + BlankSectors
  BY <1>1, <1>3, <1>4
<1>6. DirSectors <= p /\ p < M /\ p \in 0 .. M - 1
  BY ONLY <1>1, <1>5
<1>7. p * Sector \in Nat /\ p * Sector < M * Sector
  BY <1>1, <1>5, <1>6, Product
<1>8. p * Sector \in 0 .. M * Sector - 1
  BY ONLY <1>1, <1>7
<1>9. p * Sector \in DOMAIN b
  BY <1>1, <1>8
<1>10. ModuleCells(k, OSG[i].at, OSG[i].at * Sector, SizeOf(k, i) * Sector)
       /\ OSG[i].at \in Nat /\ k[OSG[i].at * Sector].name \notin Specials \cup Range(Typeable)
  BY ONLY <1>1, <1>2, OsgIs
<1>11. b[p * Sector] = k[OSG[i].at * Sector]
  <2>1. PICK m, f : m = SizeOf(k, i) * Sector /\ f = OSG[i].at * Sector
    OBVIOUS
  <2>2. m \in Nat /\ m # 0
    BY <1>10, <2>1 DEF ModuleCells
  <2>3. 0 \in 0 .. m - 1
    BY ONLY <2>2
  <2>4. b[P[i - 1] * Sector + 0] = k[f + 0]
    BY <1>1, <2>1, <2>3 DEF Grown, Filed
  <2>5. f \in Nat
    BY <1>10, <2>1, Product, GeometryAssumption
  <2>6. p * Sector + 0 = p * Sector /\ f + 0 = f
    BY ONLY <1>7, <2>5
  <2>7. b[p * Sector] = k[f]
    BY ONLY <1>4, <2>4, <2>6
  <2> QED
    BY <2>1, <2>7
<1>12. k[OSG[i].at * Sector].kind = "head"
  BY <1>10 DEF ModuleCells
<1>13. p \in headers(b)
  BY <1>1, <1>6, <1>11, <1>12 DEF headers
<1>14. Behind(b, p) = P[i]
  BY <1>3, <1>4, <1>11 DEF Behind, SizeOf
<1>15. k[OSG[i].at * Sector].name = OSG[i].name
  BY <1>1 DEF Grown
<1> QED
  BY <1>1, <1>3, <1>4, <1>6, <1>9, <1>10, <1>11, <1>13, <1>14, <1>15

\* The headers are those that there were, and those of the copies.
LEMMA GrownHeader ==
  ASSUME NEW w, NEW k, NEW b, NEW P, NEW C, Grown(w, k, b, P, C),
         NEW N, NEW D, NEW M, Sizes(w, b, P, C, N, D, M), NEW t \in headers(b)
  PROVE  \/ t \in headers(w) /\ b[t * Sector] = w[t * Sector] /\ Behind(b, t) = Behind(w, t)
         \/ \E i \in 1 .. N : t = P[i - 1]
<1>1. t \in Nat /\ t * Sector \in DOMAIN b /\ b[t * Sector].kind = "head" /\ Laid(w, 0, DirSectors)
      /\ DOMAIN b = DOMAIN w
  <2>1. M \in Nat /\ nsec(b) = M /\ DOMAIN b = 0 .. M * Sector - 1 /\ M * Sector \in Nat /\ DOMAIN b = DOMAIN w
    BY DEF Sizes
  <2>2. t \in 0 .. M - 1 /\ b[t * Sector].kind = "head"
    BY <2>1 DEF headers
  <2>3. t \in Nat /\ t < M
    BY ONLY <2>1, <2>2
  <2>4. t * Sector \in Nat /\ t * Sector < M * Sector
    BY <2>1, <2>3, Product
  <2>5. t * Sector \in 0 .. M * Sector - 1
    BY ONLY <2>1, <2>4
  <2> QED
    BY <2>1, <2>2, <2>3, <2>5 DEF Grown
<1>2. SectorNow(w, k, b, P, N, t)
  BY <1>1, GrownSector
<1>3. w[t * Sector].kind = "head" => t \in headers(w)
  BY <1>1, HeaderAt
<1>4. CASE b[t * Sector] = w[t * Sector]
  BY <1>1, <1>3, <1>4 DEF Behind
<1> QED
  BY <1>1, <1>2, <1>4 DEF SectorNow

\* No module of w was touched.
LEMMA GrownModule ==
  ASSUME NEW w, NEW k, NEW b, NEW P, NEW C, Grown(w, k, b, P, C),
         NEW N, NEW D, NEW M, Sizes(w, b, P, C, N, D, M), NEW t \in headers(w), NEW c \in Cells(w, t)
  PROVE  b[c] = w[c]
<1>1. /\ N \in Nat /\ C \in Nat /\ N = Len(OSG) /\ C + N <= D /\ D \in Nat
      /\ D = DirSectors * Sector /\ Blank \in Nat /\ P[N] \in Nat /\ BlankSectors \in Nat
      /\ Blank * Sector \in Nat /\ P[N] * Sector \in Nat /\ P[N] <= Blank + BlankSectors
  BY DEF Sizes
<1>2. Laid(w, 0, DirSectors)
  BY DEF Grown
<1>3. c \in DOMAIN w /\ c \notin 0 * Sector .. (0 + DirSectors) * Sector - 1 /\ c \in Nat
  BY <1>2, NotDir, LaidIs
<1>4. 0 * Sector = 0 /\ 0 + DirSectors = DirSectors
  <2>1. 0 * Sector = 0 /\ DirSectors \in Nat
    BY DEF Sizes
  <2> QED
    BY ONLY <2>1
<1>5. c >= D
  <2>1. c \notin 0 .. D - 1
    BY <1>1, <1>3, <1>4
  <2> QED
    BY ONLY <1>1, <1>3, <2>1
<1>6. /\ t \in Nat /\ Behind(w, t) \in Nat
      /\ Behind(w, t) <= Blank \/ Blank + BlankSectors <= t
  BY BlankIs
<1>7. PICK a, e : a = t * Sector /\ e = Behind(w, t) * Sector
  OBVIOUS
<1>8. a \in Nat /\ e \in Nat /\ c \in a .. e - 1
  BY <1>6, <1>7, Product, GeometryAssumption DEF Cells
<1>9. Behind(w, t) <= Blank \/ P[N] <= t
  BY ONLY <1>1, <1>6
<1>10. e <= Blank * Sector \/ P[N] * Sector <= a
  BY <1>1, <1>6, <1>7, <1>9, Product
<1>11. c >= C + N /\ c \notin Blank * Sector .. P[N] * Sector - 1
  BY ONLY <1>1, <1>3, <1>5, <1>8, <1>10
<1> QED
  <2>1. Filed(w, k, b, P, C)
    BY DEF Grown
  <2> QED
    BY ONLY <1>1, <1>3, <1>11, <2>1 DEF Filed

LEMMA GrownOrder ==
  ASSUME NEW w, NEW k, NEW b, NEW P, NEW C, Grown(w, k, b, P, C),
         NEW N, NEW D, NEW M, Sizes(w, b, P, C, N, D, M),
         NEW s \in headers(b), NEW t \in headers(b), s < t
  PROVE  Behind(b, s) <= t
<1>1. /\ N \in Nat /\ N = Len(OSG) /\ Blank \in Nat /\ BlankSectors \in Nat /\ P[N] \in Nat
      /\ P[N] <= Blank + BlankSectors
  BY DEF Sizes
<1>2. Laid(w, 0, DirSectors) /\ Placed(k, P)
  BY DEF Grown, Filed
<1>3. CASE s \in headers(w) /\ Behind(b, s) = Behind(w, s)
  <2>1. CASE t \in headers(w)
    <3>1. Behind(w, s) <= t
      BY <1>2, <1>3, <2>1 DEF Laid
    <3> QED
      BY <1>3, <3>1
  <2>2. CASE \E i \in 1 .. N : t = P[i - 1]
    <3>1. PICK i \in 1 .. N : t = P[i - 1]
      BY <2>2
    <3>2. P[i - 1] \in Nat /\ P[i] \in Nat /\ Blank <= P[i - 1] /\ P[i - 1] < P[i] /\ P[i] <= P[N]
      BY CopyAt
    <3>3. /\ s \in Nat /\ Behind(w, s) \in Nat
          /\ Behind(w, s) <= Blank \/ Blank + BlankSectors <= s
      BY <1>3, BlankIs
    <3>4. PICK q : q = P[i]
      OBVIOUS
    <3>5. q \in Nat /\ t < q /\ q <= P[N] /\ Blank <= t /\ t \in Nat
      BY <3>1, <3>2, <3>4
    <3>6. Behind(w, s) <= t
      BY ONLY <1>1, <3>3, <3>5, s < t
    <3> QED
      BY <1>3, <3>6
  <2> QED
    BY <2>1, <2>2, GrownHeader
<1>4. CASE \E i \in 1 .. N : s = P[i - 1]
  <2>1. PICK i \in 1 .. N : s = P[i - 1]
    BY <1>4
  <2>2. /\ P[i - 1] \in Nat /\ P[i] \in Nat /\ Blank <= P[i - 1] /\ P[i - 1] < P[i] /\ P[i] <= P[N]
        /\ Behind(b, P[i - 1]) = P[i]
    BY CopyAt
  <2>3. PICK q : q = P[i]
    OBVIOUS
  <2>4. s \in Nat /\ q \in Nat /\ Blank <= s /\ s < q /\ q <= P[N] /\ Behind(b, s) = q
    BY <2>1, <2>2, <2>3
  <2>5. CASE t \in headers(w)
    <3>1. /\ t \in Nat /\ Behind(w, t) \in Nat /\ t < Behind(w, t)
          /\ Behind(w, t) <= Blank \/ Blank + BlankSectors <= t
      BY <2>5, BlankIs
    <3>2. q <= t
      BY ONLY <1>1, <2>4, <3>1, s < t
    <3> QED
      BY <2>4, <3>2
  <2>6. CASE \E j \in 1 .. N : t = P[j - 1]
    <3>1. PICK j \in 1 .. N : t = P[j - 1]
      BY <2>6
    <3>2. CASE j <= i
      <4>1. i - 1 \in 0 .. Len(OSG) /\ j - 1 \in 0 .. Len(OSG) /\ j - 1 <= i - 1
        BY ONLY <1>1, <3>2, i \in 1 .. N, j \in 1 .. N
      <4>2. P[j - 1] <= P[i - 1]
        BY <1>2, <4>1, PlacedRises
      <4>3. t <= s /\ t \in Nat
        BY <2>1, <3>1, <4>2, CopyAt
      <4> QED
        BY ONLY <2>4, <4>3, s < t
    <3>3. CASE ~(j <= i)
      <4>1. i \in 0 .. Len(OSG) /\ j - 1 \in 0 .. Len(OSG) /\ i <= j - 1
        BY ONLY <1>1, <3>3, i \in 1 .. N, j \in 1 .. N
      <4>2. P[i] <= P[j - 1]
        BY <1>2, <4>1, PlacedRises
      <4> QED
        BY <2>3, <2>4, <3>1, <4>2
    <3> QED
      BY <3>2, <3>3
  <2> QED
    BY <2>5, <2>6, GrownHeader
<1> QED
  BY <1>3, <1>4, GrownHeader

LEMMA GrownHeaderOK ==
  ASSUME NEW w, NEW k, NEW b, NEW P, NEW C, Grown(w, k, b, P, C),
         NEW N, NEW D, NEW M, Sizes(w, b, P, C, N, D, M), NEW t \in headers(b)
  PROVE  /\ Behind(b, t) <= nsec(b) /\ 0 + DirSectors <= t
         /\ b[t * Sector].name \notin Specials \cup Range(Typeable)
<1>1. /\ N \in Nat /\ Blank \in Nat /\ BlankSectors \in Nat /\ P[N] \in Nat
      /\ P[N] <= Blank + BlankSectors /\ Blank + BlankSectors <= M /\ M \in Nat /\ nsec(b) = M
      /\ DirSectors \in Nat
  BY DEF Sizes
<1>2. CASE t \in headers(w) /\ b[t * Sector] = w[t * Sector] /\ Behind(b, t) = Behind(w, t)
  <2>1. /\ t \in Nat /\ t >= DirSectors /\ Behind(w, t) <= M
        /\ w[t * Sector].name \notin Specials \cup Range(Typeable)
    BY <1>2, BlankIs
  <2>2. 0 + DirSectors <= t
    BY ONLY <1>1, <2>1
  <2> QED
    BY <1>1, <1>2, <2>1, <2>2
<1>3. CASE \E i \in 1 .. N : t = P[i - 1]
  <2>1. PICK i \in 1 .. N : t = P[i - 1]
    BY <1>3
  <2>2. /\ P[i - 1] \in Nat /\ P[i] \in Nat /\ DirSectors <= P[i - 1] /\ P[i] <= P[N]
        /\ Behind(b, P[i - 1]) = P[i]
        /\ b[P[i - 1] * Sector].name \notin Specials \cup Range(Typeable)
    BY CopyAt
  <2>3. PICK q : q = P[i]
    OBVIOUS
  <2>4. t \in Nat /\ q \in Nat /\ DirSectors <= t /\ q <= P[N] /\ Behind(b, t) = q
    BY <2>1, <2>2, <2>3
  <2>5. q <= M /\ 0 + DirSectors <= t
    BY ONLY <1>1, <2>4
  <2> QED
    BY <1>1, <2>1, <2>2, <2>4, <2>5
<1> QED
  BY <1>2, <1>3, GrownHeader

LEMMA GrownLaid ==
  ASSUME NEW w, NEW k, NEW b, NEW P, NEW C, Grown(w, k, b, P, C),
         NEW N, NEW D, NEW M, Sizes(w, b, P, C, N, D, M)
  PROVE  Laid(b, 0, DirSectors)
<1>1. /\ N \in Nat /\ C \in Nat /\ C >= 4 /\ D \in Nat /\ C + N <= D /\ D <= 1024
      /\ D = DirSectors * Sector /\ DirSectors \in Nat \ {0} /\ DirSectors <= Blank /\ Blank \in Nat
      /\ BlankSectors \in Nat /\ Blank + BlankSectors <= M /\ M \in Nat /\ nsec(b) = M
      /\ DOMAIN b = DOMAIN w /\ DOMAIN w = 0 .. M * Sector - 1 /\ 0 * Sector = 0 /\ N = Len(OSG)
  BY DEF Sizes
<1>2. nsec(b) \in Nat /\ b = [c \in 0 .. nsec(b) * Sector - 1 |-> b[c]]
  <2>1. b = [c \in DOMAIN b |-> b[c]]
    BY DEF Grown, Filed, IsArea
  <2>2. DOMAIN b = 0 .. nsec(b) * Sector - 1
    BY <1>1
  <2> QED
    BY <1>1, <2>1, <2>2
<1>3. 0 \in Nat /\ DirSectors \in Nat \ {0} /\ 0 + DirSectors <= nsec(b)
  BY ONLY <1>1
<1>4. b[0 * Sector].start \in Counts /\ b[0 * Sector].start <= DirSectors * Sector
  <2>1. b[0] = Entry(w[0].name, C + N, w[0].length)
    <3>1. Filed(w, k, b, P, C)
      BY DEF Grown
    <3>2. b[0] = Entry(w[0].name, C + Len(OSG), w[0].length)
      BY ONLY <3>1 DEF Filed
    <3> QED
      BY ONLY <1>1, <3>2
  <2>2. b[0].start = C + N
    BY ONLY <2>1 DEF Entry
  <2>3. C \in Nat /\ N \in Nat /\ D \in Nat /\ C >= 4 /\ C + N <= D /\ D <= 1024
    BY <1>1
  <2>4. C + N \in Counts
    <3>1. C + N \in Nat /\ C + N >= 4 /\ C + N <= 1024
      BY ONLY <2>3
    <3> QED
      BY ONLY <3>1, IsCount
  <2>5. b[0 * Sector].start = C + N
    BY ONLY <1>1, <2>2
  <2>6. C + N <= DirSectors * Sector
    BY ONLY <1>1
  <2> QED
    BY ONLY <2>4, <2>5, <2>6
<1>5. \A c \in DOMAIN b : CellOK(b[c]) /\ (b[c].kind = "entry" <=> c \in DirCells(b, 0))
  BY GrownCell
<1>6. \A t \in headers(b) : /\ Behind(b, t) <= nsec(b) /\ 0 + DirSectors <= t
                            /\ b[t * Sector].name \notin Specials \cup Range(Typeable)
  BY GrownHeaderOK
<1>7. \A s, t \in headers(b) : s < t => Behind(b, s) <= t
  BY GrownOrder
<1> QED
  BY ONLY <1>2, <1>3, <1>4, <1>5, <1>6, <1>7 DEF Laid

\* No sector outside the directory has the name of another entry.
LEMMA GrownAlone ==
  ASSUME NEW w, NEW k, NEW b, NEW P, NEW C, Grown(w, k, b, P, C), AllAlone(w, 0, DirSectors),
         NEW N, NEW D, NEW M, Sizes(w, b, P, C, N, D, M)
  PROVE  AllAlone(b, 0, DirSectors)
<1>1. /\ N \in Nat /\ C \in Nat /\ C >= 4 /\ N = Len(OSG) /\ Blank \in Nat /\ DirSectors \in Nat
      /\ DirSectors <= Blank /\ DirCells(w, 0) = 0 .. C - 1 /\ DirCells(b, 0) = 0 .. C + N - 1
      /\ 0 * Sector = 0 /\ DOMAIN b = DOMAIN w /\ nsec(w) = M
  BY DEF Sizes
<1>2. Laid(w, 0, DirSectors) /\ shelf \in Shelves /\ k = shelf["K02743"].data
  BY DEF Grown
<1>3. ASSUME NEW c \in DirCells(b, 0) \ {0 * Sector}
      PROVE  Alone(b, 0, DirSectors, b[c])
  <2>1. c \in 1 .. C + N - 1
    BY ONLY <1>1, <1>3
  <2>2. CASE \E d \in 1 .. C - 1 : b[c] = w[d]
    <3>1. PICK d \in 1 .. C - 1 : b[c] = w[d]
      BY <2>2
    <3>2. d \in DirCells(w, 0) /\ d # 0 * Sector
      BY ONLY <1>1, d \in 1 .. C - 1
    <3>3. PICK e : e = w[d]
      OBVIOUS
    <3>4. Alone(w, 0, DirSectors, e) /\ e.name # ""
      <4>1. w[d].name # ""
        BY ONLY <1>2, <3>2, EntryFields
      <4> QED
        BY <3>2, <3>3, <4>1 DEF AllAlone
    <3>5. e.start \in Nat /\ e.start > DirSectors
      BY <3>4 DEF Alone
    <3>6. ASSUME NEW m \in 1 .. DirSectors - 1, (0 + e.start - 1) * Sector + m * Sector \in DOMAIN b
          PROVE  b[(0 + e.start - 1) * Sector + m * Sector].name # e.name
      <4>1. PICK s, p, t : s = e.start /\ p = 0 + s - 1 /\ t = p + m
        OBVIOUS
      <4>0. s \in Nat /\ s > DirSectors
        BY ONLY <3>5, <4>1
      <4>2. p \in Nat /\ m \in Nat /\ t \in Nat /\ t >= DirSectors
        <5>1. p = 0 + s - 1 /\ t = p + m
          BY ONLY <4>1
        <5>2. DirSectors \in Nat
          BY ONLY <1>1
        <5> QED
          BY ONLY <4>0, <5>1, <5>2, m \in 1 .. DirSectors - 1
      <4>3. t * Sector = (0 + e.start - 1) * Sector + m * Sector
        <5>1. (p + m) * Sector = p * Sector + m * Sector
          BY ONLY <4>2, Product
        <5> QED
          BY ONLY <4>1, <5>1
      <4>4. t * Sector \in DOMAIN b
        BY <3>6, <4>3
      <4>5. w[t * Sector].name # e.name
        BY <1>1, <3>4, <3>6, <4>3, <4>4 DEF Alone
      <4>6. SectorNow(w, k, b, P, N, t)
        BY <4>2, <4>4, GrownSector
      <4>7. b[t * Sector].name # e.name
        <5>1. ~(t < DirSectors)
          BY ONLY <1>1, <4>2
        <5>2. CASE \E i \in 1 .. N : t = P[i - 1]
          <6>1. PICK i \in 1 .. N : t = P[i - 1]
            BY <5>2
          <6>2. b[t * Sector].name = OSG[i].name
            BY <6>1, CopyAt
          <6>3. w[d].name # OSG[i].name
            BY <1>1, <3>2 DEF Grown
          <6> QED
            BY <3>3, <6>2, <6>3
        <5> QED
          BY <3>4, <4>5, <4>6, <5>1, <5>2 DEF SectorNow
      <4> QED
        BY <4>3, <4>7
    <3> QED
      BY <3>1, <3>3, <3>5, <3>6 DEF Alone
  <2>3. CASE \E i \in 1 .. N : b[c] = NewOne(k, P, i)
    <3>1. PICK i \in 1 .. N : b[c] = NewOne(k, P, i)
      BY <2>3
    <3>2. PICK e, p : e = b[c] /\ p = P[i - 1]
      OBVIOUS
    <3>3. e.start = p + 1 /\ e.name = OSG[i].as
      BY <3>1, <3>2 DEF NewOne, Entry
    <3>4. p \in Nat /\ DirSectors <= p
      BY <3>2, CopyAt
    <3>5. e.start \in Nat /\ e.start > DirSectors /\ 0 + e.start - 1 = p
      BY ONLY <1>1, <3>3, <3>4
    <3>6. OSG[i].as # "" /\ OSG[i] \in ToSet(OSG) /\ i \in DOMAIN OSG
      <4>1. i \in 1 .. Len(OSG)
        BY <1>1
      <4> QED
        BY ONLY <1>2, <4>1, OsgIs
    <3>7. ASSUME NEW m \in 1 .. DirSectors - 1, (0 + e.start - 1) * Sector + m * Sector \in DOMAIN b
          PROVE  b[(0 + e.start - 1) * Sector + m * Sector].name # e.name
      <4>1. PICK t : t = p + m
        OBVIOUS
      <4>2. m \in Nat /\ t \in Nat /\ t >= DirSectors /\ t # p
        BY ONLY <1>1, <3>4, <4>1, m \in 1 .. DirSectors - 1
      <4>3. t * Sector = (0 + e.start - 1) * Sector + m * Sector
        BY <3>4, <3>5, <4>1, <4>2, Product
      <4>4. t * Sector \in DOMAIN b
        BY <3>7, <4>3
      <4>5. SectorNow(w, k, b, P, N, t)
        BY <4>2, <4>4, GrownSector
      <4>6. ~(t < DirSectors)
        BY ONLY <1>1, <4>2
      <4>7. CASE b[t * Sector] = w[t * Sector]
        <5>1. CASE w[t * Sector].kind = "head"
          <6>1. t \in headers(w)
            BY <1>1, <1>2, <4>2, <4>4, <5>1, HeaderAt
          <6>2. w[t * Sector].name \notin {x.as : x \in ToSet(OSG)}
            BY <6>1, BlankIs
          <6> QED
            BY <3>3, <3>6, <4>3, <4>7, <6>2
        <5>2. CASE w[t * Sector].kind # "head"
          <6>1. t * Sector \in DOMAIN w /\ CellOK(w[t * Sector])
            BY <1>1, <1>2, <4>4, LaidIs
          <6>2. w[t * Sector].kind # "entry"
            <7>1. DirCells(w, 0) \subseteq 0 * Sector .. (0 + DirSectors) * Sector - 1
              BY ONLY <1>2, DirIs
            <7>2. 0 + DirSectors = DirSectors
              BY <1>1
            <7>3. DirSectors * Sector <= t * Sector /\ DirSectors * Sector \in Nat /\ t * Sector \in Nat
              BY <1>1, <4>2, Product
            <7>4. t * Sector \notin DirCells(w, 0)
              BY <1>1, <7>1, <7>2, <7>3
            <7> QED
              BY ONLY <1>2, <6>1, <7>4, DirIs
          <6>3. w[t * Sector].name = ""
            BY ONLY <5>2, <6>1, <6>2, NoName
          <6> QED
            BY <3>3, <3>6, <4>3, <4>7, <6>3
        <5> QED
          BY <5>1, <5>2
      <4>8. CASE \E j \in 1 .. N : t = P[j - 1]
        <5>1. PICK j \in 1 .. N : t = P[j - 1]
          BY <4>8
        <5>2. b[t * Sector].name = OSG[j].name
          BY <5>1, CopyAt
        <5>3. i # j
          BY <3>2, <4>2, <5>1
        <5>4. j \in DOMAIN OSG
          <6>1. j \in 1 .. Len(OSG)
            BY <1>1
          <6> QED
            BY ONLY <1>2, <6>1, OsgIs
        <5>5. OSG[i].as # OSG[j].name
          BY <3>6, <5>3, <5>4, ScriptsAssumption
        <5> QED
          BY <3>3, <4>3, <5>2, <5>5
      <4> QED
        BY <3>3, <3>6, <4>3, <4>5, <4>6, <4>7, <4>8 DEF SectorNow
    <3> QED
      BY <3>2, <3>5, <3>7 DEF Alone
  <2> QED
    BY <2>1, <2>2, <2>3, GrownEntry
<1> QED
  BY <1>3 DEF AllAlone

\* A new entry is for the module that was copied.
LEMMA NewIsFor ==
  ASSUME NEW i \in DOMAIN OSG
  PROVE  AsCopied(OSG[i].as) = OSG[i].name
<1>1. PICK S : S = ToSet(OSG)
  OBVIOUS
<1>2. OSG[i] \in S
  BY <1>1 DEF ToSet
<1>3. ASSUME NEW m \in S, m.as = OSG[i].as
      PROVE  m = OSG[i]
  <2>1. PICK j \in DOMAIN OSG : m = OSG[j]
    BY <1>1 DEF ToSet
  <2>2. OSG[i].as \in {OSG[j].as, OSG[j].name}
    BY <1>3, <2>1
  <2>3. i = j
    BY ONLY <2>2, ScriptsAssumption
  <2> QED
    BY <2>1, <2>3
<1>4. (CHOOSE m \in S : m.as = OSG[i].as) = OSG[i]
  BY ONLY <1>2, <1>3
<1>5. \E m \in S : m.as = OSG[i].as
  BY ONLY <1>2
<1> QED
  BY ONLY <1>1, <1>4, <1>5 DEF AsCopied

==============================================================================
