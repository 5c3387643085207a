------------------------------- MODULE RoundTrip -------------------------------
(***************************************************************************)
(* tools/mkasm.py: a listing of a ROM that assembles to the same bytes.     *)
(* The listing is built, assembled, linked and compared; instructions that  *)
(* the assembler rejects or encodes otherwise are written as words from     *)
(* then on, and the next round begins, for at most MaxRounds rounds.        *)
(*                                                                          *)
(* The ROM is a set of words.  The assembler and linker are external: each  *)
(* instruction is encoded as it was ("same"), in other bytes of the same    *)
(* length ("other"), in another length, which moves what follows            *)
(* ("moves"), or not at all ("rejected").  No instruction of the Z8000 is   *)
(* the beginning of another one, so a wrong encoding differs within the     *)
(* words of the instruction itself.                                         *)
(***************************************************************************)
EXTENDS Naturals, FiniteSets

CONSTANTS
  Instrs,     \* the addresses at which objdump sees an instruction
  Size,       \* their lengths in words
  Target,     \* the address a PC-relative instruction names, or itself
  LongForm,   \* the instructions with a .long_addr line before them
  Words,      \* the addresses of the words of data segments
  Text,       \* the addresses of the words of text segments
  Rows,       \* those of them that begin a line
  MaxRounds   \* rounds of the loop (40 in the code)

Covers(i) == i .. i + Size[i] - 1

ASSUME RomAssumption ==
  /\ Instrs \subseteq Nat /\ IsFiniteSet(Instrs)
  /\ Size \in [Instrs -> Nat \ {0}]
  /\ Target \in [Instrs -> Nat]
  /\ LongForm \subseteq Instrs /\ Rows \subseteq Text
  /\ \A i, j \in Instrs : i # j => Covers(i) \cap Covers(j) = {}
  /\ MaxRounds \in Nat

Encodings == {"same", "other", "moves", "rejected"}

VARIABLES
  encodes,   \* what the assembler makes of each instruction
  force,     \* force_word: the instructions written as words
  it,        \* rounds that are over
  result     \* "running", or how the program ended

vars == <<encodes, force, it, result>>

\* The targets of PC-relative instructions, as far as they are in the ROM.
Relative == {i \in Instrs : Target[i] # i}
InRom == (UNION {Covers(i) : i \in Instrs}) \cup Words \cup Text
Labels == {Target[i] : i \in Relative} \cap InRom

\* An instruction with a label inside, where no instruction begins.
Straddles(i) == (Covers(i) \cap Labels) \ Instrs # {}

\* The labels that the listing puts before a line: of every word, of the first
\* byte of a line of text, of an instruction, of a word of a forced one.
Placed == Labels \cap (Words \cup Rows \cup Instrs \cup UNION {Covers(i) : i \in force})

\* What the listing leaves to the assembler, and the labels it uses there.
Assembled == Instrs \ force
Used == {Target[i] : i \in Relative \cap Assembled} \cap Labels

\* Mutant of Init: labels inside an instruction are not looked for.
InitUnforced ==
  /\ encodes \in [Instrs -> Encodings]
  /\ force = {}
  /\ it = 0
  /\ result = "running"

Init ==
  /\ encodes \in [Instrs -> Encodings]
  /\ force = {i \in Instrs : Straddles(i)}
  /\ it = 0
  /\ result = "running"

Rejected == {i \in Assembled : encodes[i] = "rejected"}
Wrong == {i \in Assembled : encodes[i] \in {"other", "moves"}}
Moved(i) == \E j \in Wrong : encodes[j] = "moves" /\ j < i

Round == result = "running" /\ it < MaxRounds

\* The instructions that the error for i makes words: the one whose line is
\* named.  If that is the .long_addr line, the line before it is tried first.
Blamed(i) ==
  {i} \cup {j \in Assembled : /\ i \in LongForm /\ i \notin Labels
                              /\ j + Size[j] = i}

\* Mutant of RepairErrors: only the instructions that were named are looked up.
RepairErrorsAgain ==
  /\ Round /\ Rejected # {}
  /\ it' = it + 1
  /\ UNCHANGED <<encodes, force, result>>

\* The assembler reports errors, for all the lines it rejects or for some.
RepairErrors ==
  /\ Round /\ Rejected # {}
  /\ \E named \in (SUBSET Rejected) \ {{}} :
       \E blame \in [named -> Assembled] :
         /\ \A i \in named : blame[i] \in Blamed(i)
         /\ force' = force \cup {blame[i] : i \in named}
  /\ it' = it + 1
  /\ UNCHANGED <<encodes, result>>

\* A label that is nowhere: the linker fails without naming a line.
LinkFails ==
  /\ Round /\ Rejected = {} /\ ~(Used \subseteq Placed)
  /\ result' = "unrepairable"
  /\ UNCHANGED <<encodes, force, it>>

Links == Round /\ Rejected = {} /\ Used \subseteq Placed

Identical ==
  /\ Links /\ Wrong = {}
  /\ result' = "identical"
  /\ UNCHANGED <<encodes, force, it>>

\* The instructions that cover a difference: the wrong ones, and any that were
\* moved.
Differs == {hit \in SUBSET Instrs : \A i \in Instrs :
              ~Moved(i) => (i \in hit <=> i \in Wrong)}

RepairDifferences ==
  /\ Links /\ Wrong # {}
  /\ \E hit \in Differs :
       IF hit \subseteq force
       THEN result' = "mismatch" /\ UNCHANGED <<force, it>>
       ELSE force' = force \cup hit /\ it' = it + 1 /\ UNCHANGED result
  /\ UNCHANGED encodes

GiveUp ==
  /\ result = "running" /\ it = MaxRounds
  /\ result' = "unconverged"
  /\ UNCHANGED <<encodes, force, it>>

Repair ==
  \/ RepairErrors
  \/ LinkFails
  \/ Identical
  \/ RepairDifferences
  \/ GiveUp

RoundTripSpec == Init /\ [][Repair]_vars

------------------------------------------------------------------------------

\* Every variable has its type.
RoundTripTypeOK ==
  /\ encodes \in [Instrs -> Encodings]
  /\ force \subseteq Instrs
  /\ it \in 0 .. MaxRounds
  /\ result \in {"running", "identical", "unrepairable", "mismatch", "unconverged"}

\* Every label that the assembler is to resolve stands somewhere in the listing,
\* except one inside a line of text, whatever was made words in the meantime
\* ("A label must land on an instruction start; if it falls mid-instruction ...
\* force that instruction", tools/mkasm.py:178-180).
LabelsStand ==
  Used \ Placed \subseteq Text

\* Every round makes at least one more instruction words, so the loop of 40
\* rounds is enough for 39 bad instructions; and a difference always leads to an
\* instruction that can be repaired ("any instruction the assembler rejects or
\* re-encodes differently is repaired ... by an iterative loop",
\* tools/mkasm.py:13-14).
RepairProgresses ==
  /\ it <= Cardinality(force)
  /\ result # "mismatch"
  /\ result = "unconverged" => Cardinality(Instrs) >= MaxRounds
==============================================================================
