------------------------------- MODULE Annotate -------------------------------
(***************************************************************************)
(* The passes tools/annotate_*.py over a listing of mkasm.py: notes at the  *)
(* end of lines, and blocks of comments before them.  A pass reads the      *)
(* listing line by line into a new one and looks back over the last lines   *)
(* it has written to see whether a block is there already.                  *)
(*                                                                          *)
(* A line has a kind: "org" (.org 0), "rule" (the separator of a segment),  *)
(* "label", "code" (an instruction and its marker "! addr: bytes"), "word"  *)
(* (a word of a repaired instruction, "! addr: mnemonic"), "long"           *)
(* (.long_addr), "data" or "comment"; an address; a text and a note.  Texts *)
(* are values, of which Width is the number of characters, and a block of   *)
(* comments is a sequence of them.                                          *)
(***************************************************************************)
EXTENDS Naturals, SequencesExt

CONSTANT Width

Line(kind, at) == [kind |-> kind, at |-> at, text |-> "", note |-> ""]

Comments(block) ==
  [i \in 1 .. Len(block) |-> [kind |-> "comment", at |-> 0, text |-> block[i], note |-> ""]]

\* A pass: its style; its NOTE, a function from addresses to notes, "" for a
\* line that is to have none; HEADER and LABEL_HDR, functions from addresses
\* to blocks; the blocks it puts after the separator of a segment; REGIONNOTE,
\* notes on separators; its BANNER.
NoBlocks == [a \in {} |-> <<>>]
Pass(style, notes, headers, tables) ==
  [style |-> style, notes |-> notes, headers |-> headers, tables |-> tables,
   anchored |-> NoBlocks, regions |-> NoBlocks, banner |-> <<>>]

\* The last n lines.
LastLines(out, n) == SubSeq(out, IF Len(out) > n THEN Len(out) - n + 1 ELSE 1, Len(out))
Recent(text, out, n) == text \in {l.text : l \in ToSet(LastLines(out, n))}

\* The labels at the end are taken off and put back below the block.
LabelsAtEnd(out) ==
  LET other == {i \in DOMAIN out : out[i].kind # "label"}
      n == IF other = {} THEN 0 ELSE CHOOSE i \in other : \A j \in other : j <= i
  IN  SubSeq(out, n + 1, Len(out))

\* Mutant of AboveLabels: the labels are not put back.
InsteadOfLabels(out, block) ==
  LET labels == LabelsAtEnd(out)
  IN  SubSeq(out, 1, Len(out) - Len(labels)) \o Comments(block)

AboveLabels(out, block) ==
  LET labels == LabelsAtEnd(out)
  IN  SubSeq(out, 1, Len(out) - Len(labels)) \o Comments(block) \o labels

\* Mutant of KeyOf: a block is known by the line that rules it off.
FirstLine(pass, block) == block[1]

\* The line a block is known by, and how many lines it is looked for in: the last
\* one in annotate_baa.py and annotate_boot.py, elsewhere the first of the longest,
\* which in most blocks is the separator that others have too.
KeyOf(pass, block) ==
  IF pass.style # "replace" THEN block[Len(block)]
  ELSE block[CHOOSE i \in DOMAIN block : \A j \in DOMAIN block :
               \/ Width[block[j]] < Width[block[i]]
               \/ Width[block[j]] = Width[block[i]] /\ i <= j]

\* Mutant of WindowOf: one line more.
WindowMore(pass, block) == Len(block) + (IF pass.style = "replace" THEN 7 ELSE 5)

WindowOf(pass, block) == Len(block) + (IF pass.style = "replace" THEN 6 ELSE 4)

\* Mutant of InsertHeader: a block is put in whether it is there or not.
InsertHeaderAlways(pass, out, block) == AboveLabels(out, block)

\* insert_header, insert_block
InsertHeader(pass, out, block) ==
  IF Recent(KeyOf(pass, block), out, WindowOf(pass, block)) THEN out
  ELSE IF pass.style = "boot" THEN out \o Comments(block)
  ELSE AboveLabels(out, block)

\* LABEL_HDR, TABLE_HDR
TableWindow == 6
InsertTable(pass, out, block) ==
  IF pass.style # "replace" THEN InsertHeader(pass, out, block)
  ELSE IF Recent(block[1], out, TableWindow) THEN out
  ELSE out \o Comments(block)

\* The lines whose marker a pass recognises.  All but annotate_boot.py look for
\* hexadecimal digits behind the address, which a mnemonic may begin with.
Marked(pass, line, hexlike) ==
  \/ line.kind = "code"
  \/ line.kind = "word" /\ (pass.style = "boot" \/ line.at \in hexlike)

\* Mutant of Noted: annotate_baa.py replaces what another pass has written.
NotedOver(pass, line) == [line EXCEPT !.note = pass.notes[line.at]]

\* annotate_baa.py adds a note where there is none, the others replace it.
Noted(pass, line) ==
  IF pass.style = "append" /\ (line.kind = "word" \/ line.note # "") THEN line
  ELSE [line EXCEPT !.note = pass.notes[line.at]]

\* One turn of the loop of main.
Step(pass, hexlike, old, out, line) ==
  LET table  == line.kind = "label" /\ line.at \in DOMAIN pass.tables
      marked == Marked(pass, line, hexlike)
      above  == IF table THEN InsertTable(pass, out, pass.tables[line.at])
                ELSE IF marked /\ line.at \in DOMAIN pass.headers
                     THEN InsertHeader(pass, out, pass.headers[line.at])
                ELSE out
      noted  == IF marked /\ line.at \in DOMAIN pass.notes THEN Noted(pass, line)
                ELSE IF line.kind = "rule" /\ line.at \in DOMAIN pass.regions
                     THEN [line EXCEPT !.note = pass.regions[line.at]]
                ELSE line
      so_far == Append(above, noted)
      after  == CASE line.kind = "rule" /\ line.at \in DOMAIN pass.anchored ->
                       IF Recent(pass.anchored[line.at][1], so_far, Len(pass.anchored[line.at]) + 3)
                       THEN <<>> ELSE Comments(pass.anchored[line.at])
                  [] line.kind = "org" /\ pass.banner # <<>> ->
                       IF \E i \in (1 .. 8) \cap DOMAIN old : old[i].text = pass.banner[1] THEN <<>>
                       ELSE Comments(pass.banner)
                  [] OTHER -> <<>>
  IN  so_far \o after

\* main: the lines one after another
Annotated(pass, hexlike, listing) ==
  LET Out[n \in 0 .. Len(listing)] ==
        IF n = 0 THEN <<>> ELSE Step(pass, hexlike, listing, Out[n - 1], listing[n])
  IN  Out[Len(listing)]
==============================================================================
