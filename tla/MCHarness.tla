------------------------------- MODULE MCHarness -------------------------------
(***************************************************************************)
(* Two runs of the harness, one disk as it is kept in the repository (D,    *)
(* with names that look like numbers), one with other programs under the    *)
(* same numbers (B), one of which only the first sectors were extracted (R) *)
(* with programs beyond its end, before its beginning and of no sectors.    *)
(***************************************************************************)
EXTENDS Harness

Entry(index, name, ext, cyl, sec, length) ==
  [index |-> index, name |-> name, ext |-> ext, cyl |-> cyl, sec |-> sec, length |-> length]
End == [index |-> 255, name |-> ""]

Label(count, size, records) ==
  [vol1 |-> TRUE, dml |-> TRUE, track |-> 15, sector |-> 23, count |-> count,
   size |-> size, records |-> records]

MCDisks ==
  "B" :> Label(8, 3991, <<Entry(2, "HDFDU7", 0, 18, 4, 1), Entry(3, "UCM805", 1, 13, 48, 5),
                          Entry(6, "MREDA3", 0, 27, 22, 41), End>>)
  @@ "D" :> Label(8, 3991, <<Entry(2, "HDFDU7", 0, 18, 4, 1), Entry(5, "4301T4", 1, 21, 18, 37),
                             Entry(6, "4305T6", 2, 20, 2, 51), Entry(7, "6030T6", 0, 33, 50, 45),
                             End, Entry(9, "6030X9", 0, 40, 1, 9)>>)
  @@ "R" :> Label(8, 800, <<Entry(2, "LDHSE2", 0, 0, 14, 5), Entry(7, "UCG304", 0, 18, 4, 1),
                            Entry(4, "UCV305", 0, 0, 5, 3), Entry(8, "MEM813", 0, 33, 0, 0)>>)

MCBegins ==
  "6" :> {"6030T6", "6030X9"} @@ "6030" :> {"6030T6", "6030X9"} @@ "43" :> {"4301T4", "4305T6"}
  @@ "U" :> {"UCM805", "UCG304", "UCV305"} @@ "4" :> {"4301T4", "4305T6"}
  @@ "002" :> {} @@ "7" :> {} @@ "8" :> {}
MCNumber ==
  "6" :> 6 @@ "6030" :> 6030 @@ "43" :> 43 @@ "U" :> -1 @@ "4" :> 4
  @@ "002" :> 2 @@ "7" :> 7 @@ "8" :> 8

Test(disk, diag, sel, go) ==
  Call("run-test", disk, diag, sel, <<>>, go, 200, 70, 8, 35, 12)
MCCalls ==
  {Test("B", "D", "6030", TRUE), Test("D", "", "6", TRUE), Test("B", "", "6", TRUE),
   Test("B", "", "U", FALSE), [Test("B", "", "6", TRUE) EXCEPT !.seconds = 60],
   [Test("D", "", "6", TRUE) EXCEPT !.load_wait = 20], Test("D", "", "43", TRUE), Test("blank", "", "6", TRUE),
   Call("run", "B", "", "", <<Enter>>, FALSE, 60, 28, 8, 0, 12),
   Call("dump", "B", "", "", <<Enter>>, FALSE, 45, 28, 0, 2, 12),
   Call("dump", "B", "", "", <<>>, FALSE, 45, 28, 0, 30, 12)}
==============================================================================
