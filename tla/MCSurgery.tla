------------------------------ MODULE MCSurgery ------------------------------
(* Instances of Surgery for TLC. *)
EXTENDS Surgery, TLC

\* A module in sector at, with sub-modules at offsets; data is told apart by
\* module and version.
Mod(at, name, version, length, subs) ==
  [at |-> at, name |-> name, version |-> version, length |-> length, subs |-> subs]
Sub(offset, name, version, length) == Mod(offset, name, version, length, <<>>)

CellOf(m, k) ==
  LET within == {s \in ToSet(m.subs) : k \in s.at .. s.at + s.length}
  IN  IF k = 0 THEN Header(m.name, m.version, m.length, [n \in DOMAIN m.subs |-> m.subs[n].at])
      ELSE IF within = {} THEN Data(<<m.name, m.version, k>>)
      ELSE LET s == CHOOSE s \in within : TRUE
           IN  IF k = s.at THEN Header(s.name, s.version, s.length, <<>>)
               ELSE Data(<<s.name, s.version, k - s.at>>)

Area(sectors, dir, ents, mods) ==
  [c \in 0 .. sectors * Sector - 1 |->
     LET of == {m \in mods : c - m.at * Sector \in 0 .. m.length}
     IN  IF c - dir * Sector + 1 \in DOMAIN ents THEN ents[c - dir * Sector + 1]
         ELSE IF of # {} THEN LET m == CHOOSE m \in of : TRUE IN CellOf(m, c - m.at * Sector)
         ELSE Data(<<"E5">>)]

Library(id, ents) == <<Entry(id, Len(ents) + 1, 0)>> \o ents
Ending == <<Entry("+DIR", 900, 3), Entry("+ELG", 940, 0), Entry("+LOG", 950, 0)>>
NoSlots == <<[length |-> 0, cyl |-> 0, head |-> 0, sec |-> 0],
             [length |-> 0, cyl |-> 0, head |-> 0, sec |-> 0]>>

\* ALL_RESIDENT: directory in sectors 0 to 2, the blank cylinder in 13 to 18.
All(floppy) ==
  [pointer |-> 1, dir |-> 0, slots |-> NoSlots,
   data |-> Area(20, 0,
     Library("RE33", <<Entry("0FMD", 5, floppy), Entry("KER0", 8, 4), Entry("DKC#", 10, 1),
                       Entry("TOC#", 12, 2)>> \o Ending),
     {Mod(4, "0FMD", "02.9", floppy, <<>>), Mod(7, "KER0", "A.02", 4, <<>>),
      Mod(9, "DKC#", "A.02", 1, <<>>), Mod(11, "TOC#", "A.02", 2, <<>>)})]

\* K02743: the module 0FMD PATC is not in the directory.
K(floppy, keyboard) ==
  [pointer |-> 1, dir |-> 0, slots |-> NoSlots,
   data |-> Area(30, 0,
     Library("A04C", <<Entry("0FMU", 5, floppy), Entry("1KYB", 5 + SectorsOf(floppy), keyboard), Entry("DIRE", 14, 5),
                       Entry("FF#R", 19, 3), Entry("HDIR", 19, 9), Entry("OSG#", 11, 8),
                       Entry("TOC#", 26, 2)>> \o Ending),
     {Mod(4, "0FMU", "A.04", floppy, <<>>), Mod(4 + SectorsOf(floppy), "1KYB", "1000", keyboard, <<>>),
      Mod(10, "OSG#", "A.04", 8, <<>>), Mod(13, "DIRE", "A.04", 5, <<>>),
      Mod(27, "HDII", "A.04", 5, <<Sub(3, "FF#I", "0400", 2)>>),
      Mod(18, "HDIR", "A.04", 9, <<Sub(2, "FE#R", "0400", 2), Sub(6, "FF#R", "0400", 3)>>),
      Mod(22, "0FMD", "PATC", 6, <<>>), Mod(25, "TOC#", "A.04", 2, <<>>)})]

\* oslem7+: directory in sector 3, and an older H65R that nothing leads to.
Oslem7(pointer, keyboard) ==
  [pointer |-> pointer, dir |-> 3, slots |-> NoSlots,
   data |-> Area(30, 3,
     Library("7.0+", <<Entry("0FMU", 6, 5), Entry("1KYB", 9, keyboard), Entry("DKC#", 12, 1),
                       Entry("FF#R", 15, 4), Entry("H65R", 15, 12), Entry("LOG#", 19, 1),
                       Entry("TOC#", 21, 2), Entry("FE#R", 15, 3), Entry("H65I", 24, 6)>>
                     \o Ending),
     {Mod(1, "H65R", "MX80", 3, <<>>), Mod(8, "0FMU", "MX81", 5, <<>>),
      Mod(11, "1KYB", "2203", keyboard, <<>>), Mod(14, "DKC#", "MX81", 1, <<>>),
      Mod(17, "H65R", "MX81", 12, <<Sub(2, "FE#R", "0500", 3), Sub(7, "FF#R", "0500", 4)>>),
      Mod(21, "LOG#", "MX81", 1, <<>>), Mod(23, "TOC#", "MX81", 2, <<>>),
      Mod(26, "H65I", "MX81", 6, <<Sub(3, "FF#I", "0500", 3)>>)})]

Shelf(f, g, p, k) == [ALL |-> All(f), K02743 |-> K(g, g), OSLEM7 |-> Oslem7(p, k)]
MCShelves == {Shelf(3, 6, 4, 6), Shelf(6, 3, 0, 4), Shelf(6, 6, 4, 4), Shelf(3, 3, 0, 6)}

MCTypeable == "TOC#" :> "TOCX" @@ "DKC#" :> "DKCX" @@ "LOG#" :> "LOGX" @@ "FF#R" :> "FFXR"

MCOSG == <<[name |-> "OSG#", as |-> "OSGX", at |-> 10], [name |-> "DIRE", as |-> "DIRE", at |-> 13]>>

FFR == [name |-> "FF#R", ends |-> "R"]
FER == [name |-> "FE#R", ends |-> "R"]
FFI == [name |-> "FF#I", ends |-> "I"]
MCSubLists == {<<FFR>>, <<FFR, FFI>>, <<FFR, FER>>, <<FER, FFR>>, <<FER, FFI, FER>>}
==============================================================================
