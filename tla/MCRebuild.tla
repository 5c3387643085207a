------------------------------ MODULE MCRebuild ------------------------------
(* Instances of Rebuild for TLC. *)
EXTENDS Rebuild, TLC

\* Five instructions in three segments, with text before and data between them; a jump into the middle of one, and a jump into the text.  When
\* the one at 10 is assembled, nine lines are between 5 and it.
MCInstrs == {2, 4, 5, 10, 13}
MCSize == 2 :> 2 @@ 4 :> 1 @@ 5 :> 3 @@ 10 :> 2 @@ 13 :> 1
MCTarget == 2 :> 4 @@ 4 :> 6 @@ 5 :> 12 @@ 10 :> 4 @@ 13 :> 1
MCLong == {5, 10}

\* Blocks as the listings have them, between two rules.  Rules are longer
\* than most texts, but not than all.
Rule == "----"
Ruled(text) == <<Rule, text, Rule>>
Plain(text) == <<text, "more">>
LastOf(text) == <<"more", text>>
Ending(text) == <<Rule, text>>
Texts == {"tests 4", "fdu 5"}
MCWidth ==
  Rule :> 79 @@ [t \in Texts |-> 81] @@
  [t \in {"baa 2", "baa table", "ipl 10", "ipl table", "descriptors", "more", "tests 2", "fdu 4",
          "SYS0", "entry", "LBA", "table"} |-> 60]

\* The passes of m40rom-4.1: annotate_baa.py, annotate_tests.py (which corrects
\* one of its notes), and two like annotate_ipl.py and annotate_fdu.py.  The
\* block at 10 is known by the rule that ends the one at 5, and looked for in as
\* many lines as there are at least between them.
RomPasses ==
  [baa   |-> Pass("append", 2 :> "b2" @@ 4 :> "b4", 2 :> Ruled("baa 2"), 6 :> LastOf("baa table")),
   tests |-> [Pass("replace", 4 :> "t4" @@ 6 :> "", 4 :> Ruled("tests 4"), NoBlocks)
                EXCEPT !.anchored = (8 :> Plain("descriptors"))],
   ipl   |-> Pass("replace", 10 :> "", 10 :> Ruled("ipl 10"), 12 :> Plain("ipl table")),
   fdu   |-> Pass("replace", 5 :> "f5", 5 :> Ruled("fdu 5"), NoBlocks)]

\* Two passes with blocks that are too close to each other.
ClosePasses ==
  [tests |-> Pass("replace", 4 :> "t4", 2 :> Ruled("tests 2"), NoBlocks),
   fdu   |-> Pass("replace", 5 :> "f5", 4 :> Ruled("fdu 4"), NoBlocks)]

\* The pass of boot.s.
BootPasses ==
  [boot |-> [Pass("boot", 2 :> "n2" @@ 5 :> "n5", 2 :> Ending("entry") @@ 10 :> Ending("LBA"),
                  12 :> Ending("table"))
               EXCEPT !.regions = (8 :> "pointers"), !.banner = <<"SYS0", Rule>>]]

MCPassSets == {RomPasses, ClosePasses, BootPasses}
==============================================================================
