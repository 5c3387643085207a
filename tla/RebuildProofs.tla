----------------------------- MODULE RebuildProofs -----------------------------
(***************************************************************************)
(* Theorems about the rounds of mkasm.py and the passes of rebuild.sh, for  *)
(* any ROM, any behaviour of the assembler, any number of rounds, and any   *)
(* passes.                                                                  *)
(***************************************************************************)
EXTENDS Rebuild, FiniteSetTheorems, SequenceTheorems, TLAPS

Below == {p \in Nat \X Nat : p[1] < p[2]}

LEMMA BelowWellFounded == IsWellFoundedOn(Below, Nat)
<1>1. Below = OpToRel(<, Nat)
  BY Zenon DEF Below, OpToRel
<1> QED
  BY <1>1, NatLessThanWellFounded

LEMMA Least ==
  ASSUME NEW S \in SUBSET Nat, S # {}
  PROVE  \E n \in S : \A m \in S : n <= m
<1>1. PICK n \in S : \A m \in S : <<m, n>> \notin Below
  BY BelowWellFounded, WFMin
<1>2. ASSUME NEW m \in S
      PROVE  n <= m
  <2>1. <<m, n>> \in Nat \X Nat
    OBVIOUS
  <2>2. ~(m < n)
    BY <1>1, <2>1 DEF Below
  <2> QED
    BY <2>2
<1> QED
  BY <1>2

\* A set that is inside a finite one, and in which something is new, is larger.
LEMMA Grows ==
  ASSUME NEW S, NEW T, NEW x \in T \ S, S \subseteq T, IsFiniteSet(T)
  PROVE  /\ IsFiniteSet(S)
         /\ Cardinality(S) \in Nat /\ Cardinality(T) \in Nat
         /\ Cardinality(S) + 1 <= Cardinality(T)
<1>1. IsFiniteSet(S) /\ S \cup {x} \in SUBSET T
  BY FS_Subset
<1>2. Cardinality(S \cup {x}) = Cardinality(S) + 1
  BY <1>1, FS_AddElement
<1>3. Cardinality(S \cup {x}) <= Cardinality(T)
  BY <1>1, FS_Subset
<1> QED
  BY <1>1, <1>2, <1>3, FS_CardinalityType

------------------------------------------------------------------------------

\* Every variable of the rounds has its type.
THEOREM RoundTripTypeCorrect == RoundTripSpec => []RoundTripTypeOK
<1>1. Init => RoundTripTypeOK
  BY RomAssumption DEF Init, RoundTripTypeOK
<1>2. RoundTripTypeOK /\ [Repair]_vars => RoundTripTypeOK'
  <2> SUFFICES ASSUME RoundTripTypeOK, [Repair]_vars
               PROVE  RoundTripTypeOK'
    OBVIOUS
  <2> USE DEF RoundTripTypeOK
  <2>0. MaxRounds \in Nat
    BY RomAssumption
  <2>1. CASE RepairErrors
    <3>1. PICK named \in (SUBSET Rejected) \ {{}} :
            \E blame \in [named -> Assembled] : force' = force \cup {blame[i] : i \in named}
      BY <2>1 DEF RepairErrors
    <3>2. PICK blame \in [named -> Assembled] : force' = force \cup {blame[i] : i \in named}
      BY <3>1
    <3>3. \A i \in named : blame[i] \in Instrs
      BY <3>2 DEF Assembled
    <3>4. force' \subseteq Instrs
      BY <3>2, <3>3
    <3> QED
      BY <2>0, <2>1, <3>4 DEF RepairErrors, Round
  <2>2. CASE LinkFails
    BY <2>2 DEF LinkFails
  <2>3. CASE Identical
    BY <2>3 DEF Identical
  <2>4. CASE RepairDifferences
    BY <2>0, <2>4 DEF RepairDifferences, Links, Round, Differs
  <2>5. CASE GiveUp
    BY <2>5 DEF GiveUp
  <2>6. CASE UNCHANGED vars
    BY <2>6 DEF vars
  <2> QED
    BY <2>1, <2>2, <2>3, <2>4, <2>5, <2>6 DEF Repair
<1> QED
  BY <1>1, <1>2, PTL DEF RoundTripSpec

------------------------------------------------------------------------------

\* What is made words stays so, from the instructions with a label inside on.
StraddlersForced == {i \in Instrs : Straddles(i)} \subseteq force

LEMMA ForceGrows ==
  ASSUME [Repair]_vars
  PROVE  force \subseteq force'
  BY DEF Repair, RepairErrors, LinkFails, Identical, RepairDifferences, GiveUp, vars

LEMMA StraddlersStay == RoundTripSpec => []StraddlersForced
<1>1. Init => StraddlersForced
  BY DEF Init, StraddlersForced
<1>2. StraddlersForced /\ [Repair]_vars => StraddlersForced'
  BY ForceGrows DEF StraddlersForced, Straddles, Labels, Relative, InRom, Covers
<1> QED
  BY <1>1, <1>2, PTL DEF RoundTripSpec

\* The labels that the listing uses stand in it, those inside a line of text
\* excepted, whatever the assembler has rejected or moved (mkasm.py).
THEOREM EveryLabelStands == RoundTripSpec => []LabelsStand
<1>1. StraddlersForced => LabelsStand
  <2> SUFFICES ASSUME StraddlersForced, NEW a \in Used, a \notin Placed
               PROVE  a \in Text
    BY DEF LabelsStand
  <2>1. a \in Labels /\ a \in InRom
    BY DEF Used, Labels
  <2>2. a \notin Words /\ a \notin Instrs /\ \A i \in force : a \notin Covers(i)
    BY <2>1 DEF Placed
  <2>3. ASSUME NEW i \in Instrs, a \in Covers(i)
        PROVE  FALSE
    <3>1. Straddles(i)
      BY <2>1, <2>2, <2>3 DEF Straddles
    <3>2. i \in force
      BY <3>1 DEF StraddlersForced
    <3> QED
      BY <2>2, <2>3, <3>2
  <2> QED
    BY <2>1, <2>2, <2>3 DEF InRom
<1> QED
  BY <1>1, StraddlersStay, PTL

------------------------------------------------------------------------------

\* The first instruction that is encoded otherwise lies where it lay: every set of
\* instructions that the differences lead to holds it.
LEMMA FirstWrongIsHit ==
  ASSUME RoundTripTypeOK, Wrong # {}, NEW hit \in Differs
  PROVE  \E i \in hit : i \in Instrs \ force
<1>1. Wrong \in SUBSET Nat /\ Wrong \subseteq Instrs \ force
  BY RomAssumption DEF Wrong, Assembled
<1>2. PICK i \in Wrong : \A j \in Wrong : i <= j
  BY <1>1, Least
<1>3. ~Moved(i)
  <2>1. \A j \in Wrong : ~(j < i)
    BY <1>1, <1>2
  <2> QED
    BY <2>1 DEF Moved
<1>4. i \in Instrs
  BY <1>1
<1>5. i \in hit
  BY <1>2, <1>3, <1>4 DEF Differs
<1> QED
  BY <1>1, <1>2, <1>5

\* A round that goes on makes something words that was not.
LEMMA RoundForces ==
  ASSUME RoundTripTypeOK, RoundTripTypeOK', RepairErrors \/ (RepairDifferences /\ it' # it)
  PROVE  /\ it' = it + 1
         /\ Cardinality(force) \in Nat /\ Cardinality(force') \in Nat
         /\ Cardinality(force) + 1 <= Cardinality(force')
<1>1. it' = it + 1 /\ \E x : x \in force' \ force
  <2>1. CASE RepairErrors
    <3>1. PICK named \in (SUBSET Rejected) \ {{}} :
            \E blame \in [named -> Assembled] : force' = force \cup {blame[i] : i \in named}
      BY <2>1 DEF RepairErrors
    <3>2. PICK blame \in [named -> Assembled] : force' = force \cup {blame[i] : i \in named}
      BY <3>1
    <3>3. PICK i \in named : TRUE
      BY <3>1
    <3>4. blame[i] \in force' /\ blame[i] \notin force
      BY <3>2, <3>3 DEF Assembled
    <3> QED
      BY <2>1, <3>4 DEF RepairErrors
  <2>2. CASE RepairDifferences /\ it' # it
    <3>1. PICK hit \in Differs : force' = force \cup hit /\ it' = it + 1
      BY <2>2 DEF RepairDifferences
    <3>2. Wrong # {}
      BY <2>2 DEF RepairDifferences
    <3>3. \E i \in hit : i \in Instrs \ force
      BY <3>1, <3>2, FirstWrongIsHit
    <3> QED
      BY <3>1, <3>3
  <2> QED
    BY <2>1, <2>2
<1>2. PICK x : x \in force' \ force
  BY <1>1
<1>3. IsFiniteSet(force')
  BY RomAssumption, FS_Subset DEF RoundTripTypeOK
<1>4. force \subseteq force'
  BY ForceGrows DEF Repair
<1> QED
  BY <1>1, <1>2, <1>3, <1>4, Grows

\* The rounds make progress: as many instructions are words as rounds are over, a
\* difference always leads to one that can be made words, and the rounds run out
\* only in a ROM with as many instructions (mkasm.py, its loop of 40 rounds).
THEOREM RoundsProgress == RoundTripSpec => []RepairProgresses
<1>1. RoundTripTypeOK /\ Init => RepairProgresses
  BY RomAssumption, FS_Subset, FS_CardinalityType DEF Init, RepairProgresses, RoundTripTypeOK
<1>2. RoundTripTypeOK /\ RoundTripTypeOK' /\ RepairProgresses /\ [Repair]_vars => RepairProgresses'
  <2> SUFFICES ASSUME RoundTripTypeOK, RoundTripTypeOK', RepairProgresses, [Repair]_vars
               PROVE  RepairProgresses'
    OBVIOUS
  <2>1. CASE RepairErrors
    <3>1. it \in Nat /\ result' = "running"
      BY <2>1 DEF RepairErrors, Round, RoundTripTypeOK
    <3> QED
      BY <2>1, <3>1, RoundForces DEF RepairProgresses
  <2>2. CASE LinkFails \/ Identical
    BY <2>2 DEF LinkFails, Identical, RepairProgresses
  <2>3. CASE RepairDifferences
    <3>1. PICK hit \in Differs :
            IF hit \subseteq force
            THEN result' = "mismatch" /\ UNCHANGED <<force, it>>
            ELSE force' = force \cup hit /\ it' = it + 1 /\ UNCHANGED result
      BY <2>3 DEF RepairDifferences
    <3>2. ~(hit \subseteq force)
      BY <2>3, FirstWrongIsHit DEF RepairDifferences
    <3>3. it \in Nat /\ it' = it + 1 /\ result' = "running"
      BY <2>3, <3>1, <3>2 DEF RepairDifferences, Links, Round, RoundTripTypeOK
    <3>4. it' # it
      BY <3>3
    <3> QED
      BY <2>3, <3>3, <3>4, RoundForces DEF RepairProgresses
  <2>4. CASE GiveUp
    <3>1. /\ Cardinality(force) \in Nat /\ Cardinality(Instrs) \in Nat
          /\ Cardinality(force) <= Cardinality(Instrs)
      BY RomAssumption, FS_Subset, FS_CardinalityType DEF RoundTripTypeOK
    <3>2. it = MaxRounds /\ it <= Cardinality(force) /\ MaxRounds \in Nat
      BY <2>4, RomAssumption DEF GiveUp, RepairProgresses
    <3>3. MaxRounds <= Cardinality(Instrs)
      BY <3>1, <3>2
    <3> QED
      BY <2>4, <3>3 DEF GiveUp, RepairProgresses
  <2>5. CASE UNCHANGED vars
    BY <2>5 DEF vars, RepairProgresses
  <2> QED
    BY <2>1, <2>2, <2>3, <2>4, <2>5 DEF Repair
<1> QED
  BY <1>1, <1>2, RoundTripTypeCorrect, PTL DEF RoundTripSpec
------------------------------------------------------------------------------
(* The passes leave the rounds alone: what holds of the rounds holds of the *)
(* whole.                                                                   *)

\* The composition implements the rounds: every step of it is one of theirs, or
\* changes only the listing (rebuild.sh).
THEOREM RebuildIsRoundTrip == Spec => RoundTripSpec
<1>1. RebuildInit => Init
  BY DEF RebuildInit
<1>2. [Next]_allVars => [Repair]_vars
  BY DEF Next, Mkasm, RunPass, allVars, vars
<1> QED
  BY <1>1, <1>2, PTL DEF Spec, RoundTripSpec

\* Every label that a listing uses stands in it (mkasm.py under rebuild.sh).
THEOREM RebuildLabelsStand == Spec => []LabelsStand
  BY RebuildIsRoundTrip, EveryLabelStands, PTL

\* Every round of the repair makes progress (mkasm.py under rebuild.sh).
THEOREM RebuildProgresses == Spec => []RepairProgresses
  BY RebuildIsRoundTrip, RoundsProgress, PTL
------------------------------------------------------------------------------
(* Sequences of lines.                                                      *)

LineShape(l) == l = [kind |-> l.kind, at |-> l.at, text |-> l.text, note |-> l.note]

Lines(out) ==
  /\ Len(out) \in Nat /\ DOMAIN out = 1 .. Len(out)
  /\ out \in Seq({out[i] : i \in 1 .. Len(out)})
  /\ \A i \in 1 .. Len(out) : LineShape(out[i])

LEMMA Greatest ==
  ASSUME NEW n \in Nat, NEW S \in SUBSET (1 .. n), S # {}
  PROVE  \E i \in S : \A j \in S : j <= i
<1>1. PICK T : T = {m \in Nat : \A j \in S : j <= m}
  OBVIOUS
<1>2. n \in T /\ T \in SUBSET Nat
  BY <1>1
<1>3. PICK m \in T : \A k \in T : m <= k
  BY <1>2, Least
<1>4. m \in Nat /\ \A j \in S : j <= m
  BY <1>1
<1>5. ASSUME m \notin S
      PROVE  FALSE
  <2>1. PICK s \in S : TRUE
    OBVIOUS
  <2>2. m - 1 \in Nat
    BY <1>4, <2>1
  <2>3. \A j \in S : j <= m - 1
    BY <1>4, <1>5
  <2>4. m <= m - 1
    BY <1>1, <1>3, <2>2, <2>3
  <2> QED
    BY <1>4, <2>4
<1> QED
  BY <1>4, <1>5

LEMMA SeqLines ==
  ASSUME NEW S, NEW out \in Seq(S), \A i \in 1 .. Len(out) : LineShape(out[i])
  PROVE  Lines(out)
<1>1. Len(out) \in Nat /\ DOMAIN out = 1 .. Len(out) /\ out \in [1 .. Len(out) -> S]
  BY LenProperties
<1>2. out \in [1 .. Len(out) -> {out[i] : i \in 1 .. Len(out)}]
  BY <1>1
<1> QED
  BY <1>1, <1>2, SeqDef DEF Lines

LEMMA Joined ==
  ASSUME NEW a, NEW b, Lines(a), Lines(b)
  PROVE  /\ Lines(a \o b) /\ Len(a \o b) = Len(a) + Len(b)
         /\ \A i \in 1 .. Len(a) + Len(b) : (a \o b)[i] = IF i <= Len(a) THEN a[i] ELSE b[i - Len(a)]
<1>1. PICK S : S = {a[i] : i \in 1 .. Len(a)} \cup {b[i] : i \in 1 .. Len(b)}
  OBVIOUS
<1>2. a \in Seq(S) /\ b \in Seq(S)
  BY <1>1, SeqMonotonic DEF Lines
<1>3. /\ a \o b \in Seq(S) /\ Len(a \o b) = Len(a) + Len(b)
      /\ \A i \in 1 .. Len(a) + Len(b) : (a \o b)[i] = IF i <= Len(a) THEN a[i] ELSE b[i - Len(a)]
  BY <1>2, ConcatProperties
<1>4. ASSUME NEW i \in 1 .. Len(a) + Len(b)
      PROVE  LineShape((a \o b)[i])
  <2>1. Len(a) \in Nat /\ Len(b) \in Nat
    BY DEF Lines
  <2>2. CASE i <= Len(a)
    BY <1>3, <2>1, <2>2 DEF Lines
  <2>3. CASE ~(i <= Len(a))
    <3>1. i - Len(a) \in 1 .. Len(b) /\ (a \o b)[i] = b[i - Len(a)]
      BY <1>3, <2>1, <2>3
    <3> QED
      BY <3>1 DEF Lines
  <2> QED
    BY <2>2, <2>3
<1> QED
  BY <1>3, <1>4, SeqLines

LEMMA PartOf ==
  ASSUME NEW a, Lines(a), NEW m \in 1 .. Len(a) + 1, NEW n \in 0 .. Len(a)
  PROVE  /\ Lines(SubSeq(a, m, n)) /\ Len(SubSeq(a, m, n)) = IF m <= n THEN n - m + 1 ELSE 0
         /\ \A i \in 1 .. n - m + 1 : SubSeq(a, m, n)[i] = a[m + i - 1]
<1>0. Len(a) \in Nat /\ m \in Int /\ n \in Int
  BY DEF Lines
<1>1. PICK S : S = {a[i] : i \in 1 .. Len(a)}
  OBVIOUS
<1>2. \A i \in m .. n : a[i] \in S
  BY <1>0, <1>1
<1>3. PICK s : s = SubSeq(a, m, n)
  OBVIOUS
<1>4. /\ s \in Seq(S) /\ Len(s) = IF m <= n THEN n - m + 1 ELSE 0
      /\ \A i \in 1 .. n - m + 1 : s[i] = a[m + i - 1]
  BY <1>0, <1>2, <1>3, SubSeqProperties
<1>5. ASSUME NEW i \in 1 .. Len(s)
      PROVE  LineShape(s[i])
  <2>1. i \in 1 .. n - m + 1
    BY <1>0, <1>4
  <2>2. m + i - 1 \in 1 .. Len(a) /\ s[i] = a[m + i - 1]
    BY <1>0, <1>4, <2>1
  <2> QED
    BY <2>2 DEF Lines
<1>6. Lines(s)
  BY <1>4, <1>5, SeqLines
<1> QED
  BY <1>3, <1>4, <1>6

LEMMA OneMore ==
  ASSUME NEW a, Lines(a), NEW line, LineShape(line)
  PROVE  /\ Lines(Append(a, line)) /\ Len(Append(a, line)) = Len(a) + 1
         /\ \A i \in 1 .. Len(a) : Append(a, line)[i] = a[i]
         /\ Append(a, line)[Len(a) + 1] = line
<1>1. PICK S : S = {a[i] : i \in 1 .. Len(a)} \cup {line}
  OBVIOUS
<1>2. a \in Seq(S) /\ line \in S
  BY <1>1, SeqMonotonic DEF Lines
<1>3. PICK s : s = Append(a, line)
  OBVIOUS
<1>4. /\ s \in Seq(S) /\ Len(s) = Len(a) + 1
      /\ \A i \in 1 .. Len(a) : s[i] = a[i]
      /\ s[Len(a) + 1] = line
  BY <1>2, <1>3, AppendProperties
<1>5. \A i \in 1 .. Len(s) : LineShape(s[i])
  BY <1>4 DEF Lines
<1>6. Lines(s)
  BY <1>4, <1>5, SeqLines
<1> QED
  BY <1>3, <1>4, <1>6

LEMMA CommentsAre ==
  ASSUME NEW block, Len(block) \in Nat
  PROVE  /\ Lines(Comments(block)) /\ Len(Comments(block)) \in Nat
         /\ \A i \in 1 .. Len(Comments(block)) : Comments(block)[i].kind = "comment"
<1>1. PICK n, c : n = Len(block) /\ c = Comments(block)
  OBVIOUS
<1>2. c = [i \in 1 .. n |-> [kind |-> "comment", at |-> 0, text |-> block[i], note |-> ""]]
  BY <1>1 DEF Comments
<1>3. c \in [1 .. n -> {c[i] : i \in 1 .. n}] /\ n \in Nat
  BY <1>1, <1>2
<1>4. c \in Seq({c[i] : i \in 1 .. n})
  BY <1>3, SeqDef
<1>5. Len(c) = n
  <2>1. PICK m : m = Len(c)
    OBVIOUS
  <2>2. m \in Nat /\ DOMAIN c = 1 .. m
    BY <1>4, <2>1, LenProperties
  <2>3. \A i \in Nat : i \in 1 .. m <=> i \in 1 .. n
    BY <1>2, <2>2
  <2>4. m <= n /\ n <= m
    BY <1>3, <2>2, <2>3
  <2> QED
    BY <1>3, <2>1, <2>2, <2>4
<1>6. \A i \in 1 .. n : LineShape(c[i]) /\ c[i].kind = "comment"
  BY <1>2 DEF LineShape
<1> QED
  BY <1>1, <1>3, <1>4, <1>5, <1>6, SeqLines
------------------------------------------------------------------------------
(* What a pass makes of a listing.                                          *)

\* The same line, but for its note.
SameLine(x, y) ==
  LineShape(x) /\ LineShape(y) /\ x.kind = y.kind /\ x.at = y.at /\ x.text = y.text

\* The first n lines of a listing stand in `out` at the places f, in their order,
\* and everything else is comments.
StandsAt(f, out, listed, n) ==
  /\ f \in [1 .. n -> 1 .. Len(out)]
  /\ \A a, b \in 1 .. n : a < b => f[a] < f[b]
  /\ \A a \in 1 .. n : SameLine(out[f[a]], listed[a])
  /\ \A i \in 1 .. Len(out) : (\E a \in 1 .. n : f[a] = i) \/ out[i].kind = "comment"

Embeds(out, listed, n) == Lines(out) /\ \E f : StandsAt(f, out, listed, n)

\* n lines of comments come in after the p-th line.
Grown(out, new, p, n) ==
  /\ Lines(out) /\ Lines(new) /\ p \in 0 .. Len(out) /\ n \in Nat /\ Len(new) = Len(out) + n
  /\ \A i \in 1 .. p : new[i] = out[i]
  /\ \A i \in p + 1 .. p + n : new[i].kind = "comment"
  /\ \A i \in p + 1 .. Len(out) : new[i + n] = out[i]

LEMMA GrownEmbeds ==
  ASSUME NEW out, NEW new, NEW listed, NEW k \in Nat, Embeds(out, listed, k),
         NEW p, NEW n, Grown(out, new, p, n)
  PROVE  Embeds(new, listed, k)
<1>1. PICK f : StandsAt(f, out, listed, k)
  BY DEF Embeds
<1>2. /\ Len(out) \in Nat /\ n \in Nat /\ p \in 0 .. Len(out) /\ Len(new) = Len(out) + n
      /\ Lines(new)
  BY DEF Grown, Lines
<1>3. PICK g : g = [a \in 1 .. k |-> IF f[a] <= p THEN f[a] ELSE f[a] + n]
  OBVIOUS
<1>4. \A a \in 1 .. k : f[a] \in 1 .. Len(out)
  BY <1>1 DEF StandsAt
<1>5. g \in [1 .. k -> 1 .. Len(new)]
  <2>1. \A a \in 1 .. k : g[a] \in 1 .. Len(new)
    BY <1>2, <1>3, <1>4
  <2> QED
    BY <1>3, <2>1
<1>6. ASSUME NEW a \in 1 .. k, NEW b \in 1 .. k, a < b
      PROVE  g[a] < g[b]
  <2>1. f[a] < f[b] /\ f[a] \in 1 .. Len(out) /\ f[b] \in 1 .. Len(out)
    BY <1>1, <1>4, <1>6 DEF StandsAt
  <2> QED
    BY <1>2, <1>3, <2>1
<1>7. ASSUME NEW i \in 1 .. Len(out)
      PROVE  new[IF i <= p THEN i ELSE i + n] = out[i]
  <2>1. CASE i <= p
    <3>1. i \in 1 .. p
      BY <1>2, <2>1
    <3> QED
      BY <2>1, <3>1 DEF Grown
  <2>2. CASE ~(i <= p)
    <3>1. i \in p + 1 .. Len(out)
      BY <1>2, <2>2
    <3> QED
      BY <2>2, <3>1 DEF Grown
  <2> QED
    BY <2>1, <2>2
<1>8. ASSUME NEW a \in 1 .. k
      PROVE  SameLine(new[g[a]], listed[a])
  <2>1. new[g[a]] = out[f[a]]
    BY <1>3, <1>4, <1>7
  <2> QED
    BY <1>1, <2>1 DEF StandsAt
<1>9. ASSUME NEW i \in 1 .. Len(new)
      PROVE  (\E a \in 1 .. k : g[a] = i) \/ new[i].kind = "comment"
  <2>1. CASE i <= p
    <3>1. i \in 1 .. Len(out) /\ new[i] = out[i]
      BY <1>2, <1>7, <2>1
    <3>2. \A a \in 1 .. k : f[a] = i => g[a] = i
      BY <1>3, <2>1
    <3> QED
      BY <1>1, <3>1, <3>2 DEF StandsAt
  <2>2. CASE i > p /\ i <= p + n
    <3>1. i \in p + 1 .. p + n
      BY <1>2, <2>2
    <3> QED
      BY <3>1 DEF Grown
  <2>3. CASE i > p + n
    <3>1. PICK j : j = i - n
      OBVIOUS
    <3>2. j \in 1 .. Len(out) /\ ~(j <= p) /\ i = j + n
      BY <1>2, <2>3, <3>1
    <3>3. new[i] = out[j]
      BY <1>7, <3>2
    <3>4. \A a \in 1 .. k : f[a] = j => g[a] = i
      BY <1>3, <3>2
    <3> QED
      BY <1>1, <3>2, <3>3, <3>4 DEF StandsAt
  <2> QED
    BY <1>2, <2>1, <2>2, <2>3
<1>10. StandsAt(g, new, listed, k)
  BY <1>5, <1>6, <1>8, <1>9 DEF StandsAt
<1> QED
  BY <1>2, <1>10 DEF Embeds

LEMMA CommentsAtEnd ==
  ASSUME NEW out, Lines(out), NEW block, Len(block) \in Nat
  PROVE  \E n : Grown(out, out \o Comments(block), Len(out), n)
<1>1. PICK c, n, new : c = Comments(block) /\ n = Len(c) /\ new = out \o c
  OBVIOUS
<1>2. Lines(c) /\ n \in Nat /\ \A i \in 1 .. n : c[i].kind = "comment"
  BY <1>1, CommentsAre
<1>3. /\ Lines(new) /\ Len(new) = Len(out) + n
      /\ \A i \in 1 .. Len(out) + n : new[i] = IF i <= Len(out) THEN out[i] ELSE c[i - Len(out)]
  BY <1>1, <1>2, Joined
<1>4. PICK p : p = Len(out)
  OBVIOUS
<1>5. p \in Nat
  BY <1>4 DEF Lines
<1>6. \A i \in 1 .. p : new[i] = out[i]
  BY <1>2, <1>3, <1>4, <1>5
<1>7. ASSUME NEW i \in p + 1 .. p + n
      PROVE  new[i].kind = "comment"
  <2>1. i - p \in 1 .. n /\ new[i] = c[i - p]
    BY <1>2, <1>3, <1>4, <1>5
  <2> QED
    BY <1>2, <2>1
<1>8. Grown(out, new, p, n)
  BY <1>2, <1>3, <1>4, <1>5, <1>6, <1>7 DEF Grown
<1> QED
  BY <1>1, <1>4, <1>8

LEMMA AboveLabelsGrows ==
  ASSUME NEW out, Lines(out), NEW block, Len(block) \in Nat
  PROVE  \E p, n : Grown(out, AboveLabels(out, block), p, n)
<1>0. PICK len, other : len = Len(out) /\ other = {i \in DOMAIN out : out[i].kind # "label"}
  OBVIOUS
<1>1. PICK p : p = IF other = {} THEN 0 ELSE CHOOSE i \in other : \A j \in other : j <= i
  OBVIOUS
<1>2. len \in Nat /\ p \in 0 .. len
  <2>1. len \in Nat /\ other \in SUBSET (1 .. len)
    BY <1>0 DEF Lines
  <2>2. CASE other = {}
    BY <1>1, <2>1, <2>2
  <2>3. CASE other # {}
    <3>1. \E i \in other : \A j \in other : j <= i
      BY <2>1, <2>3, Greatest
    <3>2. p \in other
      BY <1>1, <2>3, <3>1
    <3> QED
      BY <2>1, <3>2
  <2> QED
    BY <2>2, <2>3
<1>3. PICK labels, first, c : /\ labels = SubSeq(out, p + 1, len) /\ first = SubSeq(out, 1, p)
                              /\ c = Comments(block)
  OBVIOUS
<1> DEFINE n == Len(c)
<1> DEFINE mid == first \o c
<1> DEFINE new == mid \o labels
<1>4. /\ Lines(labels) /\ Len(labels) = len - p
      /\ \A i \in 1 .. len - p : labels[i] = out[p + i]
  <2>1. p + 1 \in 1 .. len + 1 /\ len \in 0 .. len
    BY <1>2
  <2>2. /\ Lines(labels) /\ Len(labels) = IF p + 1 <= len THEN len - (p + 1) + 1 ELSE 0
        /\ \A i \in 1 .. len - (p + 1) + 1 : labels[i] = out[p + 1 + i - 1]
    BY <1>0, <1>3, <2>1, PartOf
  <2> QED
    BY <1>2, <2>2
<1>5. Lines(first) /\ Len(first) = p /\ \A i \in 1 .. p : first[i] = out[i]
  <2>1. 1 \in 1 .. len + 1
    BY <1>2
  <2>2. /\ Lines(first) /\ Len(first) = IF 1 <= p THEN p - 1 + 1 ELSE 0
        /\ \A i \in 1 .. p - 1 + 1 : first[i] = out[1 + i - 1]
    BY <1>0, <1>2, <1>3, <2>1, PartOf
  <2> QED
    BY <1>2, <2>2
<1>6. Lines(c) /\ n \in Nat /\ \A i \in 1 .. n : c[i].kind = "comment"
  BY <1>3, CommentsAre
<1>7. AboveLabels(out, block) = new
  <2>1. LabelsAtEnd(out) = labels
    BY <1>0, <1>1, <1>3 DEF LabelsAtEnd
  <2>2. len - Len(labels) = p
    BY <1>2, <1>4
  <2> QED
    BY <1>0, <1>3, <2>1, <2>2 DEF AboveLabels
<1>8. /\ Lines(mid) /\ Len(mid) = p + n
      /\ \A i \in 1 .. p + n : mid[i] = IF i <= p THEN first[i] ELSE c[i - p]
  BY <1>5, <1>6, Joined
<1>9. /\ Lines(new) /\ Len(new) = p + n + (len - p)
      /\ \A i \in 1 .. p + n + (len - p) : new[i] = IF i <= p + n THEN mid[i] ELSE labels[i - (p + n)]
  <2> HIDE DEF mid, n
  <2>1. /\ Lines(mid \o labels) /\ Len(mid \o labels) = Len(mid) + Len(labels)
        /\ \A i \in 1 .. Len(mid) + Len(labels) :
             (mid \o labels)[i] = IF i <= Len(mid) THEN mid[i] ELSE labels[i - Len(mid)]
    BY <1>4, <1>8, Joined
  <2> QED
    BY <1>4, <1>8, <2>1
<1> HIDE DEF n, mid, new
<1>10. \A i \in 1 .. p : new[i] = out[i]
  BY <1>2, <1>5, <1>6, <1>8, <1>9
<1>11. ASSUME NEW i \in p + 1 .. p + n
       PROVE  new[i].kind = "comment"
  <2>1. i - p \in 1 .. n /\ i \in 1 .. p + n /\ ~(i <= p) /\ i \in 1 .. p + n + (len - p) /\ i <= p + n
    BY <1>2, <1>6
  <2>2. new[i] = c[i - p]
    BY <1>8, <1>9, <2>1
  <2> QED
    BY <1>6, <2>1, <2>2
<1>12. ASSUME NEW i \in p + 1 .. len
       PROVE  new[i + n] = out[i]
  <2>0. p \in Nat /\ n \in Nat /\ len \in Nat /\ i \in Nat /\ p < i /\ i <= len
    BY <1>2, <1>6
  <2>1. /\ i + n \in 1 .. p + n + (len - p) /\ ~(i + n <= p + n)
        /\ i + n - (p + n) = i - p /\ i - p \in 1 .. len - p /\ p + (i - p) = i
    BY <2>0
  <2>2. new[i + n] = labels[i - p]
    <3>1. PICK j : j = i + n
      OBVIOUS
    <3>2. j \in 1 .. p + n + (len - p) /\ ~(j <= p + n) /\ j - (p + n) = i - p
      BY <1>2, <1>6, <3>1
    <3>3. new[j] = labels[j - (p + n)]
      BY <1>9, <3>2
    <3> QED
      BY <3>1, <3>2, <3>3
  <2>3. labels[i - p] = out[i]
    BY <1>4, <2>1
  <2> QED
    BY <2>2, <2>3
<1>13. Grown(out, new, p, n)
  <2>1. Len(new) = len + n /\ p \in 0 .. Len(out)
    BY <1>0, <1>2, <1>6, <1>9
  <2> QED
    BY <1>0, <1>6, <1>9, <1>10, <1>11, <1>12, <2>1 DEF Grown
<1> QED
  BY <1>7, <1>13

\* What a pass must be like for its blocks to be blocks of comments.
PassIs(pass) ==
  /\ Len(pass.banner) \in Nat
  /\ \A a \in DOMAIN pass.headers : Len(pass.headers[a]) \in Nat
  /\ \A a \in DOMAIN pass.tables : Len(pass.tables[a]) \in Nat
  /\ \A a \in DOMAIN pass.anchored : Len(pass.anchored[a]) \in Nat

LEMMA AppendedEmbeds ==
  ASSUME NEW out, NEW listed, NEW k \in Nat, Embeds(out, listed, k),
         NEW block, Len(block) \in Nat
  PROVE  Embeds(out \o Comments(block), listed, k)
<1>1. Lines(out)
  BY DEF Embeds
<1>2. PICK n : Grown(out, out \o Comments(block), Len(out), n)
  BY <1>1, CommentsAtEnd
<1> QED
  BY <1>2, GrownEmbeds

LEMMA HeaderEmbeds ==
  ASSUME NEW out, NEW listed, NEW k \in Nat, Embeds(out, listed, k),
         NEW pass, NEW block, Len(block) \in Nat
  PROVE  Embeds(InsertHeader(pass, out, block), listed, k)
<1>1. Lines(out)
  BY DEF Embeds
<1>2. PICK p, n : Grown(out, AboveLabels(out, block), p, n)
  BY <1>1, AboveLabelsGrows
<1>3. Embeds(AboveLabels(out, block), listed, k)
  BY <1>2, GrownEmbeds
<1>4. Embeds(out \o Comments(block), listed, k)
  BY AppendedEmbeds
<1> QED
  BY <1>3, <1>4 DEF InsertHeader

LEMMA TableEmbeds ==
  ASSUME NEW out, NEW listed, NEW k \in Nat, Embeds(out, listed, k),
         NEW pass, NEW block, Len(block) \in Nat
  PROVE  Embeds(InsertTable(pass, out, block), listed, k)
BY HeaderEmbeds, AppendedEmbeds DEF InsertTable

LEMMA LineEmbeds ==
  ASSUME NEW out, NEW listed, NEW k \in Nat, Embeds(out, listed, k),
         NEW line, SameLine(line, listed[k + 1])
  PROVE  Embeds(Append(out, line), listed, k + 1)
<1>1. PICK f : StandsAt(f, out, listed, k)
  BY DEF Embeds
<1>2. PICK new, len : new = Append(out, line) /\ len = Len(out)
  OBVIOUS
<1>3. /\ len \in Nat /\ Lines(new) /\ Len(new) = len + 1
      /\ \A i \in 1 .. len : new[i] = out[i]
      /\ new[len + 1] = line
  <2>1. Lines(out) /\ LineShape(line)
    BY DEF Embeds, SameLine
  <2> QED
    BY <1>2, <2>1, OneMore DEF Lines
<1>4. PICK g : g = [a \in 1 .. k + 1 |-> IF a = k + 1 THEN len + 1 ELSE f[a]]
  OBVIOUS
<1>5. \A a \in 1 .. k + 1 : a = k + 1 \/ a \in 1 .. k
  OBVIOUS
<1>6. /\ \A a \in 1 .. k : f[a] \in 1 .. len /\ a \in 1 .. k + 1 /\ a # k + 1
      /\ k + 1 \in 1 .. k + 1
  BY <1>1, <1>2 DEF StandsAt
<1>7. (\A a \in 1 .. k : g[a] = f[a]) /\ g[k + 1] = len + 1
  BY <1>4, <1>6
<1>8. g \in [1 .. k + 1 -> 1 .. Len(new)]
  <2>1. \A a \in 1 .. k + 1 : g[a] \in 1 .. Len(new)
    BY <1>3, <1>5, <1>6, <1>7
  <2> QED
    BY <1>4, <2>1
<1>9. ASSUME NEW a \in 1 .. k + 1, NEW b \in 1 .. k + 1, a < b
      PROVE  g[a] < g[b]
  <2>1. a \in 1 .. k
    BY <1>9
  <2>2. CASE b = k + 1
    BY <1>3, <1>6, <1>7, <2>1, <2>2
  <2>3. CASE b # k + 1
    <3>1. b \in 1 .. k
      BY <2>3
    <3> QED
      BY <1>1, <1>7, <1>9, <2>1, <3>1 DEF StandsAt
  <2> QED
    BY <2>2, <2>3
<1>10. ASSUME NEW a \in 1 .. k + 1
       PROVE  SameLine(new[g[a]], listed[a])
  <2>1. CASE a = k + 1
    BY <1>3, <1>7, <2>1
  <2>2. CASE a \in 1 .. k
    <3>1. new[g[a]] = out[f[a]]
      BY <1>3, <1>6, <1>7, <2>2
    <3> QED
      BY <1>1, <2>2, <3>1 DEF StandsAt
  <2> QED
    BY <1>5, <2>1, <2>2
<1>11. ASSUME NEW i \in 1 .. Len(new)
       PROVE  (\E a \in 1 .. k + 1 : g[a] = i) \/ new[i].kind = "comment"
  <2>1. CASE i = len + 1
    BY <1>6, <1>7, <2>1
  <2>2. CASE i # len + 1
    <3>1. i \in 1 .. len /\ new[i] = out[i]
      BY <1>3, <2>2
    <3>2. (\E a \in 1 .. k : f[a] = i) \/ out[i].kind = "comment"
      BY <1>1, <1>2, <3>1 DEF StandsAt
    <3> QED
      BY <1>6, <1>7, <3>1, <3>2
  <2> QED
    BY <2>1, <2>2
<1>12. StandsAt(g, new, listed, k + 1)
  BY <1>8, <1>9, <1>10, <1>11 DEF StandsAt
<1> QED
  BY <1>2, <1>3, <1>12 DEF Embeds

LEMMA StepEmbeds ==
  ASSUME NEW out, NEW listed, Lines(listed), NEW k \in Nat, k + 1 \in 1 .. Len(listed),
         Embeds(out, listed, k), NEW pass, PassIs(pass), NEW hexlike
  PROVE  Embeds(Step(pass, hexlike, listed, out, listed[k + 1]), listed, k + 1)
<1>0. PICK line : line = listed[k + 1]
  OBVIOUS
<1>1. LineShape(line)
  BY <1>0 DEF Lines
<1>2. PICK marked : marked = Marked(pass, line, hexlike)
  OBVIOUS
<1>3. PICK above : above = IF line.kind = "label" /\ line.at \in DOMAIN pass.tables
                           THEN InsertTable(pass, out, pass.tables[line.at])
                           ELSE IF marked /\ line.at \in DOMAIN pass.headers
                                THEN InsertHeader(pass, out, pass.headers[line.at])
                           ELSE out
  OBVIOUS
<1>4. Embeds(above, listed, k)
  BY <1>3, TableEmbeds, HeaderEmbeds DEF PassIs
<1>5. PICK noted : noted = IF marked /\ line.at \in DOMAIN pass.notes THEN Noted(pass, line)
                           ELSE IF line.kind = "rule" /\ line.at \in DOMAIN pass.regions
                                THEN [line EXCEPT !.note = pass.regions[line.at]]
                           ELSE line
  OBVIOUS
<1>6. SameLine(noted, line)
  <2>1. \A note : SameLine([line EXCEPT !.note = note], line)
    BY <1>1 DEF SameLine, LineShape
  <2>2. SameLine(line, line)
    BY <1>1 DEF SameLine
  <2> QED
    BY <1>5, <2>1, <2>2 DEF Noted
<1>7. PICK so_far : so_far = Append(above, noted)
  OBVIOUS
<1>8. Embeds(so_far, listed, k + 1)
  BY <1>0, <1>4, <1>6, <1>7, LineEmbeds
<1>9. so_far \o <<>> = so_far
  BY <1>8, ConcatEmptySeq DEF Embeds, Lines
<1>10. CASE line.kind = "rule" /\ line.at \in DOMAIN pass.anchored
  <2>1. PICK block : block = pass.anchored[line.at]
    OBVIOUS
  <2>2. Step(pass, hexlike, listed, out, line) =
          so_far \o (IF Recent(block[1], so_far, Len(block) + 3) THEN <<>> ELSE Comments(block))
    BY <1>2, <1>3, <1>5, <1>7, <1>10, <2>1 DEF Step
  <2>3. Embeds(so_far \o Comments(block), listed, k + 1)
    BY <1>8, <1>10, <2>1, AppendedEmbeds DEF PassIs
  <2> QED
    BY <1>0, <1>8, <1>9, <2>2, <2>3
<1>11. CASE line.kind = "org" /\ pass.banner # <<>>
  <2>1. PICK block : block = pass.banner
    OBVIOUS
  <2>2. Step(pass, hexlike, listed, out, line) =
          so_far \o (IF \E i \in (1 .. 8) \cap DOMAIN listed : listed[i].text = block[1] THEN <<>>
                     ELSE Comments(block))
    BY <1>2, <1>3, <1>5, <1>7, <1>11, <2>1 DEF Step
  <2>3. Embeds(so_far \o Comments(block), listed, k + 1)
    BY <1>8, <2>1, AppendedEmbeds DEF PassIs
  <2> QED
    BY <1>0, <1>8, <1>9, <2>2, <2>3
<1>12. CASE ~(line.kind = "rule" /\ line.at \in DOMAIN pass.anchored)
            /\ ~(line.kind = "org" /\ pass.banner # <<>>)
  <2>1. Step(pass, hexlike, listed, out, line) = so_far \o <<>>
    BY <1>2, <1>3, <1>5, <1>7, <1>12 DEF Step
  <2> QED
    BY <1>0, <1>8, <1>9, <2>1
<1> QED
  BY <1>10, <1>11, <1>12

\* The function that Annotated is defined with exists.
LEMMA AnnotatedIs ==
  ASSUME NEW pass, NEW hexlike, NEW listed, Len(listed) \in Nat
  PROVE  \E out : /\ out[0] = <<>>
                  /\ \A n \in 1 .. Len(listed) :
                       out[n] = Step(pass, hexlike, listed, out[n - 1], listed[n])
                  /\ Annotated(pass, hexlike, listed) = out[Len(listed)]
<1> DEFINE Is(out, m) ==
      out = [n \in 0 .. m |-> IF n = 0 THEN <<>>
                              ELSE Step(pass, hexlike, listed, out[n - 1], listed[n])]
<1>1. \A m \in Nat : \E out : Is(out, m)
  <2> DEFINE Missing == {m \in Nat : ~\E out : Is(out, m)}
  <2> SUFFICES ASSUME Missing # {}
               PROVE  FALSE
    OBVIOUS
  <2>1. PICK m \in Nat : m \in Missing /\ \A k \in Missing : m <= k
    <3>1. Missing \in SUBSET Nat
      OBVIOUS
    <3> HIDE DEF Missing
    <3> QED
      BY <3>1, Least
  <2>2. CASE m = 0
    <3> DEFINE out == [n \in 0 .. 0 |-> <<>>]
    <3>1. Is(out, 0)
      OBVIOUS
    <3> QED
      BY <2>1, <2>2, <3>1
  <2>3. CASE m # 0
    <3>1. m - 1 \in Nat /\ m - 1 \notin Missing
      BY <2>1, <2>3
    <3>2. PICK out : Is(out, m - 1)
      BY <3>1
    <3> DEFINE more == [n \in 0 .. m |-> IF n = m THEN Step(pass, hexlike, listed, out[m - 1], listed[m])
                                         ELSE out[n]]
    <3>3. \A n \in 0 .. m : more[n] = IF n = 0 THEN <<>>
                                      ELSE Step(pass, hexlike, listed, more[n - 1], listed[n])
      BY <2>1, <2>3, <3>2
    <3>4. Is(more, m)
      BY <3>3
    <3> QED
      BY <2>1, <3>4
  <2> QED
    BY <2>2, <2>3
<1>2. PICK out : out = CHOOSE g : Is(g, Len(listed))
  OBVIOUS
<1>3. Is(out, Len(listed))
  BY <1>1, <1>2
<1>4. Annotated(pass, hexlike, listed) = out[Len(listed)]
  BY <1>2 DEF Annotated
<1>5. /\ out[0] = <<>>
      /\ \A n \in 1 .. Len(listed) : out[n] = Step(pass, hexlike, listed, out[n - 1], listed[n])
  BY <1>3
<1> QED
  BY <1>4, <1>5

LEMMA NothingEmbeds ==
  ASSUME NEW listed
  PROVE  Embeds(<<>>, listed, 0)
<1>1. PICK out, f : out = <<>> /\ f = [a \in 1 .. 0 |-> 1]
  OBVIOUS
<1>2. out \in Seq({}) /\ Len(out) = 0
  BY <1>1, EmptySeq
<1>3. Lines(out)
  <2>1. \A i \in 1 .. Len(out) : LineShape(out[i])
    BY <1>2
  <2> QED
    BY <1>2, <2>1, SeqLines
<1>4. StandsAt(f, out, listed, 0)
  <2>1. 1 .. 0 = {} /\ 1 .. Len(out) = {}
    BY <1>2
  <2>2. f \in [1 .. 0 -> 1 .. Len(out)]
    BY <1>1, <2>1
  <2> QED
    BY <2>1, <2>2 DEF StandsAt
<1> QED
  BY <1>1, <1>3, <1>4 DEF Embeds

\* A pass leaves every line in its place and adds nothing but comments.
LEMMA PassEmbeds ==
  ASSUME NEW listed, Lines(listed), NEW pass, PassIs(pass), NEW hexlike
  PROVE  Embeds(Annotated(pass, hexlike, listed), listed, Len(listed))
<1>1. PICK len : len = Len(listed)
  OBVIOUS
<1>2. len \in Nat
  BY <1>1 DEF Lines
<1>3. PICK out : /\ out[0] = <<>>
                 /\ \A n \in 1 .. len : out[n] = Step(pass, hexlike, listed, out[n - 1], listed[n])
                 /\ Annotated(pass, hexlike, listed) = out[len]
  BY <1>1, <1>2, AnnotatedIs
<1>4. PICK Bad : Bad = {n \in 0 .. len : ~Embeds(out[n], listed, n)}
  OBVIOUS
<1>5. ASSUME Bad # {}
      PROVE  FALSE
  <2>1. Bad \in SUBSET Nat
    BY <1>2, <1>4
  <2>2. PICK n \in Bad : \A k \in Bad : n <= k
    BY <1>5, <2>1, Least
  <2>3. n \in 0 .. len /\ ~Embeds(out[n], listed, n)
    BY <1>4
  <2>4. n # 0
    BY <1>3, <2>3, NothingEmbeds
  <2>5. PICK k : k = n - 1
    OBVIOUS
  <2>6. k \in Nat /\ k \in 0 .. len /\ n = k + 1 /\ k + 1 \in 1 .. len /\ ~(n <= k)
    BY <1>2, <2>3, <2>4, <2>5
  <2>7. Embeds(out[k], listed, k)
    BY <1>4, <2>2, <2>6
  <2>8. out[k + 1] = Step(pass, hexlike, listed, out[k], listed[k + 1])
    <3>1. out[n] = Step(pass, hexlike, listed, out[n - 1], listed[n])
      BY <1>3, <2>6
    <3> QED
      BY <2>5, <2>6, <3>1
  <2>9. Embeds(out[k + 1], listed, k + 1)
    BY <1>1, <2>6, <2>7, <2>8, StepEmbeds
  <2> QED
    BY <2>3, <2>6, <2>9
<1>6. Embeds(out[len], listed, len)
  BY <1>2, <1>4, <1>5
<1> QED
  BY <1>1, <1>3, <1>6

\* What stands in a listing that stands in another one stands there too.
LEMMA EmbedsAgain ==
  ASSUME NEW listed, NEW n \in Nat, NEW middle, Embeds(middle, listed, n),
         NEW out, Embeds(out, middle, Len(middle))
  PROVE  Embeds(out, listed, n)
<1>1. PICK f : StandsAt(f, middle, listed, n)
  BY DEF Embeds
<1>2. PICK m : m = Len(middle)
  OBVIOUS
<1>3. PICK g : StandsAt(g, out, middle, m)
  BY <1>2 DEF Embeds
<1>4. PICK h : h = [a \in 1 .. n |-> g[f[a]]]
  OBVIOUS
<1>5. \A a \in 1 .. n : f[a] \in 1 .. m /\ h[a] = g[f[a]]
  BY <1>1, <1>2, <1>4 DEF StandsAt
<1>6. h \in [1 .. n -> 1 .. Len(out)]
  <2>1. \A a \in 1 .. n : h[a] \in 1 .. Len(out)
    BY <1>3, <1>5 DEF StandsAt
  <2> QED
    BY <1>4, <2>1
<1>7. \A a, b \in 1 .. n : a < b => h[a] < h[b]
  BY <1>1, <1>3, <1>5 DEF StandsAt
<1>8. ASSUME NEW a \in 1 .. n
      PROVE  SameLine(out[h[a]], listed[a])
  <2>1. SameLine(middle[f[a]], listed[a]) /\ SameLine(out[g[f[a]]], middle[f[a]])
    BY <1>1, <1>3, <1>5 DEF StandsAt
  <2> QED
    BY <1>5, <2>1 DEF SameLine
<1>9. ASSUME NEW i \in 1 .. Len(out)
      PROVE  (\E a \in 1 .. n : h[a] = i) \/ out[i].kind = "comment"
  <2>1. CASE \E b \in 1 .. m : g[b] = i
    <3>1. PICK b \in 1 .. m : g[b] = i
      BY <2>1
    <3>2. CASE \E a \in 1 .. n : f[a] = b
      BY <1>5, <3>1, <3>2
    <3>3. CASE middle[b].kind = "comment"
      <4>1. SameLine(out[i], middle[b])
        BY <1>3, <3>1 DEF StandsAt
      <4> QED
        BY <3>3, <4>1 DEF SameLine
    <3> QED
      BY <1>1, <1>2, <3>2, <3>3 DEF StandsAt
  <2>2. CASE out[i].kind = "comment"
    BY <2>2
  <2> QED
    BY <1>3, <2>1, <2>2 DEF StandsAt
<1>10. StandsAt(h, out, listed, n)
  BY <1>6, <1>7, <1>8, <1>9 DEF StandsAt
<1> QED
  BY <1>10 DEF Embeds
------------------------------------------------------------------------------
(* The listing that mkasm.py writes.                                        *)

Fresh(l) == LineShape(l) /\ l.note = "" /\ l.kind # "comment"
AllFresh(s) == Lines(s) /\ \A i \in 1 .. Len(s) : Fresh(s[i])

LEMMA FreshJoined ==
  ASSUME NEW a, NEW b, AllFresh(a), AllFresh(b)
  PROVE  AllFresh(a \o b)
<1>1. /\ Lines(a \o b) /\ Len(a \o b) = Len(a) + Len(b) /\ Len(a) \in Nat /\ Len(b) \in Nat
      /\ \A i \in 1 .. Len(a) + Len(b) : (a \o b)[i] = IF i <= Len(a) THEN a[i] ELSE b[i - Len(a)]
  BY Joined DEF AllFresh, Lines
<1>2. ASSUME NEW i \in 1 .. Len(a) + Len(b)
      PROVE  Fresh((a \o b)[i])
  <2>1. CASE i <= Len(a)
    BY <1>1, <2>1 DEF AllFresh
  <2>2. CASE ~(i <= Len(a))
    <3>1. i - Len(a) \in 1 .. Len(b) /\ (a \o b)[i] = b[i - Len(a)]
      BY <1>1, <2>2
    <3> QED
      BY <3>1 DEF AllFresh
  <2> QED
    BY <2>1, <2>2
<1> QED
  BY <1>1, <1>2 DEF AllFresh

LEMMA FreshNone == AllFresh(<<>>)
<1>1. PICK s : s = <<>>
  OBVIOUS
<1>2. s \in Seq({}) /\ Len(s) = 0
  BY <1>1, EmptySeq
<1>3. \A i \in 1 .. Len(s) : LineShape(s[i]) /\ Fresh(s[i])
  BY <1>2
<1>4. Lines(s)
  BY <1>2, <1>3, SeqLines
<1> QED
  BY <1>1, <1>3, <1>4 DEF AllFresh

LEMMA FreshOne ==
  ASSUME NEW kind, kind # "comment", NEW at
  PROVE  AllFresh(<<Line(kind, at)>>)
<1>1. PICK line, s : line = Line(kind, at) /\ s = <<line>>
  OBVIOUS
<1>2. Fresh(line)
  BY <1>1 DEF Fresh, Line, LineShape
<1>3. s \in Seq({line}) /\ Len(s) = 1 /\ s[1] = line
  BY <1>1
<1>4. \A i \in 1 .. Len(s) : Fresh(s[i])
  BY <1>2, <1>3
<1>5. Lines(s)
  BY <1>3, <1>4, SeqLines DEF Fresh
<1> QED
  BY <1>1, <1>4, <1>5 DEF AllFresh

LEMMA LinesAtFresh ==
  ASSUME NEW a
  PROVE  AllFresh(LinesAt(a))
<1>1. PICK rule : rule = IF a \in Starts THEN <<Line("rule", a)>> ELSE <<>>
  OBVIOUS
<1>2. PICK label : label = IF a \in Placed THEN <<Line("label", a)>> ELSE <<>>
  OBVIOUS
<1>3. AllFresh(rule) /\ AllFresh(label)
  BY <1>1, <1>2, FreshOne, FreshNone
<1>4. AllFresh(rule \o label)
  BY <1>3, FreshJoined
<1>5. PICK long, code, word, data : /\ long = <<Line("long", a)>> /\ code = <<Line("code", a)>>
                                    /\ word = <<Line("word", a)>> /\ data = <<Line("data", a)>>
  OBVIOUS
<1>6. AllFresh(long) /\ AllFresh(code) /\ AllFresh(word) /\ AllFresh(data) /\ AllFresh(<<>>)
  BY <1>5, FreshOne, FreshNone
<1>7. PICK both : both = (IF a \in LongForm THEN long ELSE <<>>) \o code
  OBVIOUS
<1>8. AllFresh(both)
  BY <1>6, <1>7, FreshJoined
<1>9. PICK forced : forced = {i \in force : a \in Covers(i)}
  OBVIOUS
<1>10. PICK line : line = IF a \in Assembled THEN both
                          ELSE IF forced # {} THEN word
                          ELSE IF a \in Words \cup Rows THEN data ELSE <<>>
  OBVIOUS
<1>11. LinesAt(a) = (rule \o label) \o line
  BY <1>1, <1>2, <1>5, <1>7, <1>9, <1>10 DEF LinesAt
<1>12. AllFresh(line)
  BY <1>6, <1>8, <1>10
<1> QED
  BY <1>4, <1>11, <1>12, FreshJoined

\* The function that FlattenSeq is defined with exists.
LEMMA FlattenIs ==
  ASSUME NEW seqs, Len(seqs) \in Nat, Len(seqs) # 0
  PROVE  \E f : /\ \A i \in 1 .. Len(seqs) : f[i] = IF i = 1 THEN seqs[i] ELSE f[i - 1] \o seqs[i]
                /\ FlattenSeq(seqs) = f[Len(seqs)]
<1> DEFINE Is(f, m) == f = [i \in 1 .. m |-> IF i = 1 THEN seqs[i] ELSE f[i - 1] \o seqs[i]]
<1>1. \A m \in Nat : \E f : Is(f, m)
  <2> DEFINE Missing == {m \in Nat : ~\E f : Is(f, m)}
  <2> SUFFICES ASSUME Missing # {}
               PROVE  FALSE
    OBVIOUS
  <2>1. PICK m \in Nat : m \in Missing /\ \A k \in Missing : m <= k
    <3>1. Missing \in SUBSET Nat
      OBVIOUS
    <3> HIDE DEF Missing
    <3> QED
      BY <3>1, Least
  <2>2. CASE m = 0
    <3> DEFINE f == [i \in 1 .. 0 |-> seqs[1]]
    <3>1. Is(f, 0)
      OBVIOUS
    <3> QED
      BY <2>1, <2>2, <3>1
  <2>3. CASE m # 0
    <3>0. PICK k : k = m - 1
      OBVIOUS
    <3>1. k \in Nat /\ ~(m <= k)
      BY <2>1, <2>3, <3>0
    <3>2. PICK f : Is(f, k)
      <4> HIDE DEF Is
      <4> QED
        BY <2>1, <3>1
    <3> DEFINE more == [i \in 1 .. m |-> IF i = m
                                         THEN IF m = 1 THEN seqs[m] ELSE f[m - 1] \o seqs[m]
                                         ELSE f[i]]
    <3>3. ASSUME NEW i \in 1 .. m
          PROVE  more[i] = IF i = 1 THEN seqs[i] ELSE more[i - 1] \o seqs[i]
      <4>1. CASE i = m
        <5>1. CASE m = 1
          BY <4>1, <5>1
        <5>2. CASE m # 1
          <6>0. more[i] = f[m - 1] \o seqs[m]
            BY <4>1, <5>2
          <6>1. more[i] = f[k] \o seqs[m]
            BY <3>0, <6>0
          <6>2. k \in 1 .. m /\ k # m
            BY <2>1, <2>3, <3>0, <5>2
          <6>3. more[k] = f[k]
            BY <6>2
          <6> QED
            BY <3>0, <4>1, <5>2, <6>1, <6>3
        <5> QED
          BY <5>1, <5>2
      <4>2. CASE i # m
        <5>1. i \in 1 .. k
          BY <2>1, <3>0, <4>2
        <5>2. f[i] = IF i = 1 THEN seqs[i] ELSE f[i - 1] \o seqs[i]
          BY <3>2, <5>1
        <5>3. more[i] = f[i]
          BY <4>2
        <5>4. i # 1 => i - 1 \in 1 .. m /\ i - 1 # m
          BY <2>1
        <5>5. i # 1 => more[i - 1] = f[i - 1]
          BY <5>4
        <5> QED
          BY <5>2, <5>3, <5>5
      <4> QED
        BY <4>1, <4>2
    <3>4. Is(more, m)
      BY <3>3
    <3> QED
      BY <2>1, <3>4
  <2> QED
    BY <2>2, <2>3
<1>2. PICK f : f = CHOOSE g : Is(g, Len(seqs))
  OBVIOUS
<1>3. Is(f, Len(seqs))
  BY <1>1, <1>2
<1>4. FlattenSeq(seqs) = f[Len(seqs)]
  BY <1>2 DEF FlattenSeq
<1> QED
  BY <1>3, <1>4

LEMMA FlattenFresh ==
  ASSUME NEW seqs, Len(seqs) \in Nat, Len(seqs) # 0, \A i \in 1 .. Len(seqs) : AllFresh(seqs[i])
  PROVE  AllFresh(FlattenSeq(seqs))
<1>1. PICK len : len = Len(seqs)
  OBVIOUS
<1>2. PICK f : /\ \A i \in 1 .. len : f[i] = IF i = 1 THEN seqs[i] ELSE f[i - 1] \o seqs[i]
               /\ FlattenSeq(seqs) = f[len]
  BY <1>1, FlattenIs
<1>3. PICK Bad : Bad = {i \in 1 .. len : ~AllFresh(f[i])}
  OBVIOUS
<1>4. ASSUME Bad # {}
      PROVE  FALSE
  <2>1. Bad \in SUBSET Nat
    BY <1>3
  <2>2. PICK i \in Bad : \A k \in Bad : i <= k
    BY <1>4, <2>1, Least
  <2>3. i \in 1 .. len /\ ~AllFresh(f[i]) /\ AllFresh(seqs[i])
    BY <1>1, <1>3
  <2>4. i # 1
    BY <1>2, <2>3
  <2>5. i - 1 \in 1 .. len /\ ~(i <= i - 1)
    BY <1>1, <2>3, <2>4
  <2>6. AllFresh(f[i - 1])
    BY <1>3, <2>2, <2>5
  <2>7. f[i] = f[i - 1] \o seqs[i]
    BY <1>2, <2>3, <2>4
  <2> QED
    BY <2>3, <2>6, <2>7, FreshJoined
<1>5. len \in 1 .. len
  BY <1>1
<1> QED
  BY <1>2, <1>3, <1>4, <1>5

LEMMA BuiltFresh == AllFresh(Built)
<1>1. End \in Nat
  <2>1. End \in InRom
    BY RomEnds DEF End
  <2> QED
    BY <2>1, RomEnds
<1>2. PICK len : len = End + 1
  OBVIOUS
<1>3. PICK seqs : seqs = [n \in 1 .. len |-> LinesAt(n - 1)]
  OBVIOUS
<1>4. Len(seqs) = len /\ len \in Nat /\ len # 0
  <2>1. len \in Nat /\ len # 0
    BY <1>1, <1>2
  <2>2. seqs \in [1 .. len -> {seqs[i] : i \in 1 .. len}]
    BY <1>3
  <2>3. seqs \in Seq({seqs[i] : i \in 1 .. len})
    BY <2>1, <2>2, SeqDef
  <2>4. PICK m : m = Len(seqs)
    OBVIOUS
  <2>5. m \in Nat /\ DOMAIN seqs = 1 .. m
    BY <2>3, <2>4, LenProperties
  <2>6. \A i \in Nat : i \in 1 .. m <=> i \in 1 .. len
    BY <1>3, <2>5
  <2>7. m <= len /\ len <= m
    BY <2>1, <2>5, <2>6
  <2> QED
    BY <2>1, <2>4, <2>5, <2>7
<1>5. \A i \in 1 .. Len(seqs) : AllFresh(seqs[i])
  BY <1>3, <1>4, LinesAtFresh
<1>6. AllFresh(FlattenSeq(seqs))
  BY <1>4, <1>5, FlattenFresh
<1>7. AllFresh(<<Line("org", 0)>>)
  BY FreshOne
<1>8. Built = <<Line("org", 0)>> \o FlattenSeq(seqs)
  BY <1>2, <1>3 DEF Built
<1> QED
  BY <1>6, <1>7, <1>8, FreshJoined

LEMMA BuiltEmbeds == Embeds(Built, Built, Len(Built))
<1>1. PICK s, n : s = Built /\ n = Len(s)
  OBVIOUS
<1>2. Lines(s) /\ n \in Nat /\ \A i \in 1 .. n : LineShape(s[i])
  BY <1>1, BuiltFresh DEF AllFresh, Lines
<1>3. PICK f : f = [i \in 1 .. n |-> i]
  OBVIOUS
<1>4. StandsAt(f, s, s, n)
  BY <1>1, <1>2, <1>3 DEF StandsAt, SameLine
<1> QED
  BY <1>1, <1>2, <1>4 DEF Embeds
------------------------------------------------------------------------------
(* CommentsOnly.                                                            *)

\* The first n places, in their order, are n places.
LEMMA PlacesCounted ==
  ASSUME NEW f, NEW n \in Nat, \A a, b \in 1 .. n : a < b => f[a] < f[b],
         \A a \in 1 .. n : f[a] \in Nat
  PROVE  Cardinality({f[a] : a \in 1 .. n}) = n
<1>1. PICK T, g : T = {f[a] : a \in 1 .. n} /\ g = [a \in 1 .. n |-> f[a]]
  OBVIOUS
<1>2. g \in [1 .. n -> T] /\ (\A t \in T : \E a \in 1 .. n : g[a] = t)
  BY <1>1
<1>3. ASSUME NEW a \in 1 .. n, NEW b \in 1 .. n, g[a] = g[b]
      PROVE  a = b
  <2>1. f[a] = f[b] /\ f[a] \in Nat
    BY <1>1, <1>3
  <2>2. ~(a < b) /\ ~(b < a)
    BY <2>1
  <2> QED
    BY <2>2
<1>4. g \in Bijection(1 .. n, T)
  BY <1>2, <1>3 DEF Bijection, Injection, Surjection, IsInjective
<1>5. ExistsBijection(1 .. n, T)
  BY <1>4 DEF ExistsBijection
<1> QED
  BY <1>1, <1>5, FS_CountingElements

\* A line without its note, and how many kept lines there are up to a place.
Bare(line) == [line EXCEPT !.note = ""]
UpTo(kept, i) == Cardinality({j \in kept : j <= i})
KeptOf(out) == {i \in DOMAIN out : out[i].kind # "comment"}

LEMMA BareLine ==
  ASSUME NEW x, NEW y, SameLine(x, y), Fresh(y)
  PROVE  Bare(x) = y
<1>1. PICK kind, at, text, note : kind = x.kind /\ at = x.at /\ text = x.text /\ note = x.note
  OBVIOUS
<1>2. x = [kind |-> kind, at |-> at, text |-> text, note |-> note]
  BY <1>1 DEF SameLine, LineShape
<1>3. y = [kind |-> kind, at |-> at, text |-> text, note |-> ""]
  BY <1>1 DEF SameLine, LineShape, Fresh
<1>4. PICK z : z = [x EXCEPT !.note = ""]
  OBVIOUS
<1>5. z.kind = kind /\ z.at = at /\ z.text = text /\ z.note = ""
  BY <1>2, <1>4
<1>6. y.kind = kind /\ y.at = at /\ y.text = text /\ y.note = ""
  BY <1>3
<1>7. DOMAIN z = {"kind", "at", "text", "note"} /\ z = [c \in DOMAIN z |-> z[c]]
  BY <1>2, <1>4
<1>8. DOMAIN y = {"kind", "at", "text", "note"} /\ y = [c \in DOMAIN y |-> y[c]]
  BY <1>3
<1>9. z["kind"] = y["kind"] /\ z["at"] = y["at"] /\ z["text"] = y["text"] /\ z["note"] = y["note"]
  BY <1>5, <1>6
<1>10. \A c \in {"kind", "at", "text", "note"} : z[c] = y[c]
  BY <1>9
<1>11. z = y
  BY <1>7, <1>8, <1>10
<1> QED
  BY <1>4, <1>11 DEF Bare

LEMMA KeptAre ==
  ASSUME NEW out, NEW listed, AllFresh(listed), NEW n, n = Len(listed), Embeds(out, listed, n),
         NEW kept, kept = KeptOf(out)
  PROVE  /\ Cardinality(kept) = n
         /\ \A i \in kept : Bare(out[i]) = listed[UpTo(kept, i)]
<1>1. PICK f : StandsAt(f, out, listed, n)
  BY DEF Embeds
<1>2. n \in Nat /\ Len(out) \in Nat /\ DOMAIN out = 1 .. Len(out)
  BY DEF AllFresh, Lines, Embeds
<1>3. /\ \A a \in 1 .. n : f[a] \in 1 .. Len(out) /\ f[a] \in Nat
      /\ \A a, b \in 1 .. n : a < b => f[a] < f[b]
  BY <1>1, <1>2 DEF StandsAt
<1>4. \A a \in 1 .. n : SameLine(out[f[a]], listed[a]) /\ Fresh(listed[a])
  BY <1>1 DEF StandsAt, AllFresh
<1>5. kept = {f[a] : a \in 1 .. n}
  <2>1. \A a \in 1 .. n : f[a] \in kept
    BY <1>2, <1>3, <1>4 DEF SameLine, Fresh, KeptOf
  <2>2. \A i \in kept : \E a \in 1 .. n : f[a] = i
    BY <1>1, <1>2 DEF StandsAt, KeptOf
  <2> QED
    BY <2>1, <2>2
<1>6. Cardinality(kept) = n
  BY <1>2, <1>3, <1>5, PlacesCounted
<1>7. ASSUME NEW k \in 1 .. n
      PROVE  /\ Cardinality({j \in kept : j <= f[k]}) = k
             /\ Bare(out[f[k]]) = listed[k]
  <2>1. PICK upto : upto = {f[a] : a \in 1 .. k}
    OBVIOUS
  <2>2. k \in Nat /\ (\A a \in 1 .. k : a \in 1 .. n)
    BY <1>2
  <2>3. Cardinality(upto) = k
    BY <1>3, <2>1, <2>2, PlacesCounted
  <2>4. ASSUME NEW a \in 1 .. n
        PROVE  f[a] <= f[k] <=> a \in 1 .. k
    <3>1. CASE a < k
      BY <1>2, <1>3, <3>1
    <3>2. CASE a = k
      BY <1>2, <1>3, <3>2
    <3>3. CASE k < a
      <4>1. f[k] < f[a] /\ f[k] \in Nat /\ f[a] \in Nat
        BY <1>3, <3>3
      <4> QED
        BY <1>2, <3>3, <4>1
    <3> QED
      BY <1>2, <3>1, <3>2, <3>3
  <2>5. {j \in kept : j <= f[k]} = upto
    BY <1>5, <2>1, <2>2, <2>4
  <2>6. Bare(out[f[k]]) = listed[k]
    BY <1>4, BareLine
  <2> QED
    BY <2>3, <2>5, <2>6
<1>8. ASSUME NEW i \in kept
      PROVE  Bare(out[i]) = listed[UpTo(kept, i)]
  <2>1. PICK k \in 1 .. n : f[k] = i
    BY <1>5
  <2>2. /\ Cardinality({j \in kept : j <= f[k]}) = k
        /\ Bare(out[f[k]]) = listed[k]
    BY <1>7
  <2> QED
    BY <2>1, <2>2 DEF UpTo
<1> QED
  BY <1>6, <1>8

LEMMA BuiltStays ==
  ASSUME force' = force
  PROVE  Built' = Built
<1>1. Assembled' = Assembled
  BY DEF Assembled
<1>2. Placed' = Placed
  BY DEF Placed, Labels, Relative, InRom, Covers
<1>3. ASSUME NEW a
      PROVE  LinesAt(a)' = LinesAt(a)
  BY <1>1, <1>2 DEF LinesAt
<1>4. PICK seqs : seqs = [n \in 1 .. End + 1 |-> LinesAt(n - 1)]
  OBVIOUS
<1>5. [n \in 1 .. End + 1 |-> LinesAt(n - 1)]' = seqs
  BY <1>3, <1>4 DEF End, InRom, Covers
<1> QED
  BY <1>4, <1>5 DEF Built

\* The listing is mkasm.py's as soon as it is identical, and stands in what the
\* passes have made of it.
ListingStands ==
  /\ \A p \in DOMAIN passes : PassIs(passes[p])
  /\ ran # {} => result = "identical"
  /\ result = "identical" => Embeds(listing, Built, Len(Built))

LEMMA ListingStandsAlways == Spec => []ListingStands
<1>1. ASSUME RebuildInit
      PROVE  ListingStands
  <2>1. \A p \in DOMAIN passes : PassIs(passes[p])
    BY <1>1, PassesAssumption DEF RebuildInit, PassIs
  <2> QED
    BY <1>1, <2>1 DEF RebuildInit, Init, ListingStands
<1>2. ASSUME ListingStands, [Next]_allVars
      PROVE  ListingStands'
  <2>1. CASE Mkasm
    <3>1. result = "running" /\ ran' = ran /\ ran = {} /\ passes' = passes
      BY <1>2, <2>1
      DEF Mkasm, Repair, RepairErrors, LinkFails, Links, Identical, RepairDifferences, GiveUp, Round,
          ListingStands
    <3>2. ASSUME result' = "identical"
          PROVE  Embeds(listing', Built', Len(Built'))
      <4>1. force' = force /\ listing' = Built
        BY <2>1, <3>1, <3>2
        DEF Mkasm, Repair, RepairErrors, LinkFails, Links, Identical, RepairDifferences, GiveUp, Round
      <4>2. Built' = Built
        BY <4>1, BuiltStays
      <4> QED
        BY <4>1, <4>2, BuiltEmbeds
    <3> QED
      BY <1>2, <3>1, <3>2 DEF ListingStands
  <2>2. CASE \E p \in DOMAIN passes : RunPass(p)
    <3>1. PICK p \in DOMAIN passes : RunPass(p)
      BY <2>2
    <3>2. /\ result = "identical" /\ result' = result /\ force' = force /\ passes' = passes
          /\ listing' = Annotated(passes[p], HexLike, listing)
      BY <3>1 DEF RunPass, vars
    <3>3. Embeds(listing, Built, Len(Built)) /\ PassIs(passes[p])
      BY <1>2, <3>1, <3>2 DEF ListingStands
    <3>4. Embeds(listing', listing, Len(listing))
      BY <3>2, <3>3, PassEmbeds DEF Embeds
    <3>5. PICK built, len : built = Built /\ len = Len(built)
      OBVIOUS
    <3>6. len \in Nat
      BY <3>5, BuiltFresh DEF AllFresh, Lines
    <3>7. Embeds(listing', built, len)
      BY <3>3, <3>4, <3>5, <3>6, EmbedsAgain
    <3>8. Built' = built
      BY <3>2, <3>5, BuiltStays
    <3> QED
      BY <1>2, <3>2, <3>5, <3>7, <3>8 DEF ListingStands
  <2>3. CASE UNCHANGED allVars
    <3>1. Built' = Built
      BY <2>3, BuiltStays DEF allVars, vars
    <3> QED
      BY <1>2, <2>3, <3>1 DEF ListingStands, allVars, vars
  <2> QED
    BY <1>2, <2>1, <2>2, <2>3 DEF Next
<1> QED
  BY <1>1, <1>2, PTL DEF Spec

\* However many passes of annotate_*.py have run, in whatever order and however
\* often, the listing is the one that mkasm.py has assembled, with comments and
\* notes put in (rebuild.sh).
THEOREM PassesOnlyComment == Spec => []CommentsOnly
<1>1. ListingStands => CommentsOnly
  <2> SUFFICES ASSUME ListingStands, ran # {}
               PROVE  CommentsOnly
    BY DEF CommentsOnly
  <2>1. PICK out, built, len : out = listing /\ built = Built /\ len = Len(Built)
    OBVIOUS
  <2>2. PICK kept : kept = KeptOf(out)
    OBVIOUS
  <2>3. Embeds(out, built, len) /\ AllFresh(built) /\ len = Len(built)
    BY <2>1, BuiltFresh DEF ListingStands
  <2>4. /\ Cardinality(kept) = len
        /\ \A i \in kept : Bare(out[i]) = built[UpTo(kept, i)]
    BY <2>2, <2>3, KeptAre
  <2>5. /\ Cardinality(kept) = len
        /\ \A i \in kept : [out[i] EXCEPT !.note = ""]
                             = built[Cardinality({j \in kept : j <= i})]
    BY <2>4 DEF Bare, UpTo
  <2>6. /\ Cardinality(kept) = Len(Built)
        /\ \A i \in kept : [listing[i] EXCEPT !.note = ""]
                             = Built[Cardinality({j \in kept : j <= i})]
    BY <2>1, <2>5
  <2>7. kept = {i \in DOMAIN listing : listing[i].kind # "comment"}
    BY <2>1, <2>2 DEF KeptOf
  <2> QED
    BY <2>6, <2>7 DEF CommentsOnly
<1> QED
  BY <1>1, ListingStandsAlways, PTL
==============================================================================
