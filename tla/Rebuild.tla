-------------------------------- MODULE Rebuild --------------------------------
(***************************************************************************)
(* tools/rebuild.sh and the regen rule of dcos-bootloader/Makefile: a       *)
(* listing is made from the ROM (RoundTrip), then the passes that belong to *)
(* it put their comments in (Annotate).  rebuild.sh runs them in one order, *)
(* in which they need not be run; a pass that was changed is run again.     *)
(***************************************************************************)
EXTENDS RoundTrip, Annotate

CONSTANTS
  Starts,      \* the first addresses of the segments
  HexLike,     \* the instructions whose mnemonic begins with a to f
  PassSets,    \* the passes of each listing: a set of functions to passes
  MaxAgain     \* bound: passes that are run once more

\* A ROM has a last word, and a block of comments so many lines.
ASSUME RomEnds == InRom \subseteq Nat /\ \E n \in InRom : \A a \in InRom : a <= n
ASSUME PassesAssumption ==
  \A set \in PassSets : \A p \in DOMAIN set :
    /\ Len(set[p].banner) \in Nat
    /\ \A a \in DOMAIN set[p].headers : Len(set[p].headers[a]) \in Nat
    /\ \A a \in DOMAIN set[p].tables : Len(set[p].tables[a]) \in Nat
    /\ \A a \in DOMAIN set[p].anchored : Len(set[p].anchored[a]) \in Nat

VARIABLES
  passes,      \* the passes of this listing
  listing,     \* the .s file
  ran,         \* the passes that were run
  again        \* how many were run again

allVars == <<vars, passes, listing, ran, again>>

\* build: the lines of an address
LinesAt(a) ==
  LET forced == {i \in force : a \in Covers(i)}
      line == IF a \in Assembled
              THEN (IF a \in LongForm THEN <<Line("long", a)>> ELSE <<>>) \o <<Line("code", a)>>
              ELSE IF forced # {} THEN <<Line("word", a)>>
              ELSE IF a \in Words \cup Rows THEN <<Line("data", a)>> ELSE <<>>
  IN  (IF a \in Starts THEN <<Line("rule", a)>> ELSE <<>>)
      \o (IF a \in Placed THEN <<Line("label", a)>> ELSE <<>>)
      \o line

End == CHOOSE n \in InRom : \A a \in InRom : a <= n
Built == <<Line("org", 0)>> \o FlattenSeq([n \in 1 .. End + 1 |-> LinesAt(n - 1)])

RebuildInit ==
  /\ Init
  /\ passes \in PassSets
  /\ listing = <<>> /\ ran = {} /\ again = 0

\* mkasm.py: the listing is written when it is identical, and when it cannot be
\* repaired.
Mkasm ==
  /\ Repair
  /\ listing' = IF result' \in {"identical", "mismatch"} THEN Built ELSE listing
  /\ UNCHANGED <<passes, ran, again>>

\* annotate_*.py
RunPass(p) ==
  /\ result = "identical"
  /\ p \in ran => again < MaxAgain
  /\ listing' = Annotated(passes[p], HexLike, listing)
  /\ ran' = ran \cup {p}
  /\ again' = IF p \in ran THEN again + 1 ELSE again
  /\ UNCHANGED <<vars, passes>>

Next == Mkasm \/ \E p \in DOMAIN passes : RunPass(p)

Spec == RebuildInit /\ [][Next]_allVars

------------------------------------------------------------------------------

\* Comment lines and notes taken away, the listing is the one that mkasm.py has
\* assembled, however many passes have run ("the bytes never change",
\* re/disassembly/m40-rom/README.md:51).
CommentsOnly ==
  ran # {} =>
    LET kept == {i \in DOMAIN listing : listing[i].kind # "comment"}
    IN  /\ Cardinality(kept) = Len(Built)
        /\ \A i \in kept : [listing[i] EXCEPT !.note = ""]
                             = Built[Cardinality({j \in kept : j <= i})]

\* The pass whose note a line is to have: one that replaces notes, else the one
\* that adds them.
NoteOf(line) ==
  LET by == {p \in ran : Marked(passes[p], line, HexLike)
                         /\ line.at \in DOMAIN passes[p].notes}
      replacing == {p \in by : passes[p].style # "append"}
  IN  IF replacing # {} THEN passes[CHOOSE p \in replacing : TRUE].notes[line.at]
      ELSE IF by # {} /\ line.kind = "code" THEN passes[CHOOSE p \in by : TRUE].notes[line.at]
      ELSE ""

\* The places where a block begins, and the line it is to stand above: the next
\* that is no comment and no label.
PlacesOf(block) == {i \in 1 .. Len(listing) - Len(block) + 1 :
                      SubSeq(listing, i, i + Len(block) - 1) = Comments(block)}
LineBelow(i) ==
  LET below == {j \in i .. Len(listing) : listing[j].kind \notin {"comment", "label", "long"}}
  IN  IF below = {} THEN 0 ELSE listing[CHOOSE j \in below : \A k \in below : j <= k].at

\* The blocks a pass has for the lines of mkasm.py, each with the line it belongs
\* to, the lines that tell it from others, which are its longest ones, its last
\* or its first, and the distance from which on it does not matter who else has
\* them.
Longest(block) == {block[i] : i \in {j \in DOMAIN block : \A k \in DOMAIN block : Width[block[k]] <= Width[block[j]]}}
BlocksOf(pass) ==
  LET built == Built
      Block(on, block, telling, apart) ==
        [on |-> on, block |-> block, telling |-> telling, apart |-> apart]
      Header(on, block) ==
        IF pass.style = "replace" THEN Block(on, block, Longest(block), Len(block) + 6)
        ELSE Block(on, block, {block[Len(block)]}, Len(block) + 4)
      Table(on, block) ==
        IF pass.style = "replace" THEN Block(on, block, {block[1]}, 6) ELSE Header(on, block)
  IN  {Header(i, pass.headers[built[i].at]) :
         i \in {h \in DOMAIN built : Marked(pass, built[h], HexLike) /\ built[h].at \in DOMAIN pass.headers}}
      \cup {Table(i, pass.tables[built[i].at]) :
              i \in {t \in DOMAIN built : built[t].kind = "label" /\ built[t].at \in DOMAIN pass.tables}}

\* What else a pass puts in: blocks behind separators, and the banner.
OthersOf(pass) ==
  LET built == Built
  IN  {[on |-> i + 1, block |-> pass.anchored[built[i].at]] :
         i \in {r \in DOMAIN built : built[r].kind = "rule" /\ built[r].at \in DOMAIN pass.anchored}}
      \cup {[on |-> 2, block |-> b] : b \in {pass.banner} \ {<<>>}}

\* Two blocks for one line, or with nothing but labels between them; and a block
\* with a line that is to tell another from it, which follows too closely.
Meet(x, y) ==
  LET built == Built
  IN  x.on <= y.on /\ \A i \in x.on .. y.on - 1 : built[i].kind \in {"label", "long"}
Hides(x, y) == \E i \in DOMAIN x.block :
  /\ x.on < y.on /\ x.block[i] \in y.telling
  /\ Len(x.block) - i + y.on - x.on < y.apart
Clear(blocks, y) == \A x \in blocks \ {y} : ~Meet(x, y) /\ ~Meet(y, x) /\ ~Hides(x, y)

\* Whatever the order of the passes, and however often they ran, every line has
\* its note, the corrections of annotate_tests.py those of annotate_baa.py, and
\* every block of the passes that ran stands once, above its line ("independent
\* regions", tools/rebuild.sh:11), though what tells most of them from others is
\* a separator that all have, unless it is too close to one with the same.
OrderDoesNotMatter ==
  /\ \A i \in DOMAIN listing : listing[i].kind \in {"code", "word"} =>
       listing[i].note = NoteOf(listing[i])
  /\ LET all == UNION {BlocksOf(passes[p]) \cup OthersOf(passes[p]) : p \in DOMAIN passes}
     IN  \A p \in ran : \A b \in BlocksOf(passes[p]) : Clear(all, b) =>
           \E i \in DOMAIN listing : PlacesOf(b.block) = {i} /\ LineBelow(i) = Built[b.on].at

\* A pass that was run changes nothing when it is run again: its notes are
\* replaced by themselves, and it finds its blocks ("re-inserts headers only if
\* absent", tools/annotate_boot.py:17).
SecondRunChangesNothing ==
  [][again' # again =>
       \E p \in ran : listing' = Annotated(passes[p], HexLike, listing)
                     /\ (DOMAIN passes[p].anchored = {} => listing' = listing)]_allVars

\* The same of every pass ("re-runnable", tools/annotate_tests.py:10).
ReRunnable == [][again' # again => listing' = listing]_allVars
==============================================================================
