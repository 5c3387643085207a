-------------------------------- MODULE Library --------------------------------
(***************************************************************************)
(* The library of a system disk as tools/l1lib.py reads it, and the scripts *)
(* scripts/harness/build_*.py and alias_pound.py that edit one.             *)
(*                                                                          *)
(* The data area is a row of cells, Sector of them in a sector.  A cell is  *)
(* the header of a module (name, version, length in cells, and the offsets  *)
(* of its sub-modules), an entry of a directory (name, start, length; in    *)
(* entry 0 start is the number of entries), or data.  A header fills the    *)
(* first cell of its module.  An image is [data, pointer, slots]: the data  *)
(* area, the word 0xfe of track 0 (where the directory is, counted from 1), *)
(* and its boot descriptor.                                                 *)
(***************************************************************************)
EXTENDS Integers, SequencesExt, FiniteSetsExt

CONSTANTS
  Sector,      \* cells of a sector
  Side,        \* sectors of one side of a cylinder (26)
  Scored,      \* entries of a directory that are looked at (40)
  Typeable     \* names, and the same with X in place of #

ASSUME GeometryAssumption == Sector \in Nat \ {0} /\ Side \in Nat \ {0} /\ Scored \in Nat

\* No name with an X has a #, and no two names become the same.
ASSUME TypeableAssumption ==
  /\ \A n \in DOMAIN Typeable : Typeable[n] # "" /\ Typeable[n] \notin DOMAIN Typeable
  /\ \A m, n \in DOMAIN Typeable : Typeable[m] = Typeable[n] => m = n

Header(name, version, length, subs) ==
  [kind |-> "head", name |-> name, version |-> version, length |-> length, subs |-> subs]
Entry(name, start, length) ==
  [kind |-> "entry", name |-> name, start |-> start, length |-> length]
Data(value) == [kind |-> "data", name |-> "", value |-> value]
Zero == Data(<<>>)

\* n cells from the cell at, and the area with those cells in their place.
Read(data, at, n) == [k \in 1 .. n |-> data[at + k - 1]]
Write(data, at, cells) ==
  [c \in DOMAIN data |-> IF c - at + 1 \in DOMAIN cells THEN cells[c - at + 1] ELSE data[c]]

nsec(data) == Cardinality(DOMAIN data) \div Sector
SectorsOf(length) == 1 + (length + Sector - 1) \div Sector

\* The sectors that begin with a header, those of a name, and a module's cells.
headers(data) == {i \in 0 .. nsec(data) - 1 : data[i * Sector].kind = "head"}
Named(data, name) == {i \in headers(data) : data[i * Sector].name = name}
body(data, i) == Read(data, i * Sector, Sector * SectorsOf(data[i * Sector].length))

\* The offsets of the sub-modules of a container; none if one of them is wrong.
sub_offsets(data, o) ==
  LET offs == data[o].subs
      end  == 1 + data[o].length
  IN  IF /\ \A n \in 1 .. Len(offs) - 1 : offs[n] < offs[n + 1]
         /\ \A n \in DOMAIN offs : /\ data[o + offs[n]].kind = "head"
                                   /\ offs[n] + data[o + offs[n]].length <= end + 1
      THEN offs ELSE <<>>

\* A header and those of its sub-modules.
Heads(data, o) == {data[o]} \cup {data[o + x] : x \in ToSet(sub_offsets(data, o))}

\* resolve: where "container/sub" is, in the first container that has it.
resolve(data, container, sub) ==
  LET In(i) == {i * Sector + x : x \in ToSet(sub_offsets(data, i * Sector))}
      found == {o \in UNION {In(i) : i \in Named(data, container)} : data[o].name = sub}
  IN  IF found = {} THEN -1 ELSE Min(found)

\* boot_descriptor: the sector of an entry's cylinder, head and sector.
SlotIndex(slot) == (slot.cyl - 1) * 2 * Side + slot.head * Side + slot.sec - 1

\* read_directory: the entries that the directory at sector di has and the
\* area still holds.
read_directory(data, di) ==
  LET count == data[di * Sector].start
  IN  Read(data, di * Sector, Min({count, Cardinality(DOMAIN data) - di * Sector}))

\* Mutant of PointsAt: starts are taken from 0.
PointsBehind(di, entry) == di + entry.start

\* The sector an entry of the directory at sector di points to.
PointsAt(di, entry) == di + entry.start - 1

\* The numbers of entries that a directory can have.
Counts == 4 .. 1024

\* How many entries name what is where they point.  The version of a module is
\* no number of entries: two printable characters are more than 1024.
_dir_score(data, di) ==
  IF data[di * Sector].kind # "entry" \/ data[di * Sector].start \notin Counts THEN 0
  ELSE LET ents == read_directory(data, di)
       IN  Cardinality({i \in 2 .. Min({Len(ents), Scored}) :
             /\ ents[i].kind = "entry"
             /\ LET hi == PointsAt(di, ents[i])
                IN  hi \in 0 .. nsec(data) - 1 /\ data[hi * Sector].name = ents[i].name})

\* The directory that track 0 points to, else the first of the best ones; -1 for
\* none.
directory_index(img) ==
  LET w      == img.pointer
      all    == 0 .. nsec(img.data) - 1
      scores == [di \in all |-> _dir_score(img.data, di)]
      top    == Max(Range(scores))
  IN  IF w - 1 \in all /\ scores[w - 1] >= 3 THEN w - 1
      ELSE IF top >= 5 THEN Min({di \in all : scores[di] = top})
      ELSE -1

------------------------------------------------------------------------------
(* What the disks are like.                                                 *)

Specials == {"+DIR", "+ELG", "+LOG"}

CellOK(cell) ==
  \/ /\ cell.kind = "head"
     /\ cell = Header(cell.name, cell.version, cell.length, cell.subs)
     /\ cell.length \in Nat /\ cell.subs \in Seq(1 .. cell.length)
  \/ /\ cell.kind = "entry"
     /\ cell = Entry(cell.name, cell.start, cell.length)
     /\ cell.name # "" /\ cell.start \in Nat /\ cell.length \in Nat
  \/ cell.kind = "data" /\ cell = Data(cell.value)

\* The cells of the directory at sector di; the first one counts them.
DirCells(data, di) == di * Sector .. di * Sector + data[di * Sector].start - 1

\* The sector behind a module.
Behind(data, i) == i + SectorsOf(data[i * Sector].length)

\* Every cell belongs to one module at most, or to the directory, which has room
\* sectors to itself and is the only thing that looks like one.
Laid(data, di, room) ==
  /\ nsec(data) \in Nat /\ data = [c \in 0 .. nsec(data) * Sector - 1 |-> data[c]]
  /\ \A c \in DOMAIN data : CellOK(data[c])
  /\ di \in Nat /\ room \in Nat \ {0} /\ di + room <= nsec(data)
  /\ data[di * Sector].start \in Counts /\ data[di * Sector].start <= room * Sector
  /\ \A c \in DOMAIN data : data[c].kind = "entry" <=> c \in DirCells(data, di)
  /\ \A i \in headers(data) : /\ Behind(data, i) <= nsec(data)
                              /\ di + room <= i \/ Behind(data, i) <= di
                              /\ data[i * Sector].name \notin Specials \cup Range(Typeable)
  /\ \A i, j \in headers(data) : i < j => Behind(data, i) <= j

\* A sub-module ends before the next one or the end of its container, no other
\* header stands between, and the names in a container differ.
ContainersOK(data) ==
  \A i \in headers(data) :
    LET o       == i * Sector
        offs    == sub_offsets(data, o)
        next(n) == IF n < Len(offs) THEN offs[n + 1] ELSE 1 + data[o].length
    IN  /\ \A n \in DOMAIN offs :
             /\ offs[n] + data[o + offs[n]].length < next(n)
             /\ \A x \in offs[n] + 1 .. next(n) - 1 : data[o + x].kind = "data"
        /\ \A m, n \in DOMAIN offs : data[o + offs[m]].name = data[o + offs[n]].name => m = n

\* Every entry but the special ones leads to a module, or to the container of a
\* sub-module, of its name and length; an entry that is called as a module leads
\* to a module so called; and read from another sector of the directory none does.
EntriesLead(data, di, room) ==
  \A c \in DirCells(data, di) \ {di * Sector} :
    LET e == data[c]
        o == (di + e.start - 1) * Sector
    IN  /\ e.start > room
        /\ e.name \notin Specials =>
             /\ o \in DOMAIN data /\ data[o].kind = "head"
             /\ \E h \in Heads(data, o) : h.name = e.name /\ h.length = e.length
        /\ e.name \in {data[i * Sector].name : i \in headers(data)} => data[o].name = e.name
        /\ \A m \in 1 .. room - 1 :
             o + m * Sector \in DOMAIN data => data[o + m * Sector].name # e.name

\* An original, where track 0 points to its directory or nowhere.
ImageOK(img, room) ==
  /\ img = [data |-> img.data, pointer |-> img.pointer, dir |-> img.dir, slots |-> img.slots]
  /\ Laid(img.data, img.dir, room) /\ ContainersOK(img.data)
  /\ EntriesLead(img.data, img.dir, room)
  /\ img.pointer \in {0, img.dir + 1}
==============================================================================
