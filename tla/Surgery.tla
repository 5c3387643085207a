-------------------------------- MODULE Surgery --------------------------------
(***************************************************************************)
(* The scripts that edit a system disk, each of them from an image that is  *)
(* kept as it is into a new one: build_allres_osg.py, build_k02743_fmd.py,  *)
(* the three build_oslem7_*.py, and alias_pound.py, which also takes what   *)
(* another one has made.                                                    *)
(*                                                                          *)
(* A script opens the image twice: with l1lib, which reads everything once  *)
(* (shelf here), and with l1disk, where it reads and writes (image).        *)
(***************************************************************************)
EXTENDS Library

CONSTANTS
  Shelves,      \* the originals: records of the images ALL, K02743 and OSLEM7
  OSG,          \* build_allres_osg.py: the modules to copy, with their sectors
  Blank,        \* ... to the sectors from here, ...
  BlankSectors, \* ... so many of them, ...
  DirSectors,   \* ... and the sectors of the directory
  Buffer,       \* build_k02743_fmd.py: the first sectors, which it reads and writes back
  Patched,      \* ... the sector of the other 0FMD
  FloppyAt,     \* ... and of the 0FMD on ALL
  SubLists      \* build_oslem7_ffr.py: the sub-modules it is called with

\* The sectors of a directory: build_allres_osg.py knows how many there are on ALL.
Room(name, img) ==
  IF name = "ALL" THEN DirSectors ELSE 1 + (img.data[img.dir * Sector].start - 1) \div Sector

\* What is known of ALL: the directory is in sector 0 and ends with the special
\* entries, and no module is in the blank cylinder or has the name of a new entry.
AllOK(img) ==
  LET data == img.data
  IN  /\ img.dir = 0 /\ FloppyAt \in headers(data)
      /\ \A c \in data[0].start - 3 .. data[0].start - 1 : data[c].name \in Specials
      /\ Blank + BlankSectors <= nsec(data)
      /\ \A i \in headers(data) :
           /\ Behind(data, i) <= Blank \/ Blank + BlankSectors <= i
           /\ data[i * Sector].name \notin {m.as : m \in ToSet(OSG)}

\* Of K02743: the directory is in sector 0, its entry 0FMU alone leads to a module
\* of that name, which lies behind the first sectors, and none is called as the other
\* modules for the floppy disk.
K02743OK(img) ==
  LET data == img.data
  IN  /\ Buffer <= nsec(data)
      /\ img.dir = 0 /\ {Patched} \cup {m.at : m \in ToSet(OSG)} \subseteq headers(data)
      /\ \A c \in DirCells(data, 0) : data[c].name # "0FMD"
      /\ \A c \in DirCells(data, 0) : data[c].name = "0FMU" =>
           /\ data[(data[c].start - 1) * Sector].name = "0FMU" /\ Buffer <= data[c].start - 1
           /\ \A b \in DirCells(data, 0) \ {0, c} : data[b].start # data[c].start
      /\ \A m \in 1 .. Room("K02743", img) - 1 :
           (Patched + m) * Sector \in DOMAIN data => data[(Patched + m) * Sector].name # "0FMU"

\* Of oslem7+: no two entries lead to a keyboard driver.
Oslem7OK(img) ==
  \A i \in Named(img.data, "1KYB"), b, c \in DirCells(img.data, img.dir) \ {img.dir * Sector} :
    img.dir + img.data[b].start - 1 = i /\ img.dir + img.data[c].start - 1 = i => b = c

ASSUME OriginalsAssumption ==
  \A s \in Shelves :
    /\ DOMAIN s = {"ALL", "K02743", "OSLEM7"}
    /\ AllOK(s["ALL"]) /\ K02743OK(s["K02743"]) /\ Oslem7OK(s["OSLEM7"])
    /\ \A d \in DOMAIN s :
         LET data == s[d].data
             di   == s[d].dir
         IN  /\ ImageOK(s[d], Room(d, s[d]))
             /\ data[di * Sector].name \notin {"0FMU", "1KYB"}
             /\ \A c \in DirCells(data, di), m \in ToSet(OSG) : data[c].name = m.as => m.as = m.name

ASSUME BufferAssumption == Buffer \in Nat

ASSUME ScriptsAssumption ==
  /\ Blank \in Nat /\ BlankSectors \in Nat /\ DirSectors \in 1 .. Blank /\ DirSectors * Sector <= 1024
  /\ DOMAIN Typeable \cap (Specials \cup {"0FMU"}) = {}
  /\ OSG \in Seq([name : STRING, as : STRING \ {""}, at : Nat])
  /\ \A i, j \in DOMAIN OSG : OSG[i].as \in {OSG[j].as, OSG[j].name} => i = j
  /\ \A m \in ToSet(OSG) : m.as \in DOMAIN Typeable => m.as = m.name
  /\ SubLists \subseteq Seq([name : STRING, ends : STRING])

VARIABLES
  shelf,       \* the original images
  disk,        \* the original that is worked on
  image,       \* the image that is made
  script,      \* the script that has made it, and what it was given
  renamed      \* alias_pound.py: the names it was given

surgery == <<shelf, disk, image, script, renamed>>

SurgeryInit ==
  /\ shelf \in Shelves
  /\ disk \in DOMAIN shelf
  /\ image = shelf[disk]
  /\ script = <<"none">>
  /\ renamed = {}

Original == shelf[disk]

Edits(name, on, data) ==
  /\ script = <<"none">> /\ renamed = {} /\ disk = on
  /\ script' = name
  /\ image' = [image EXCEPT !.data = data]
  /\ UNCHANGED <<shelf, disk, renamed>>

\* Mutant of Copied: the entry names the sector of the header from 0.
CopiedFromZero(state, mod) ==
  LET from   == shelf.K02743.data
      length == from[mod.at * Sector].length
  IN  [data |-> Write(state.data, state.idx * Sector, body(from, mod.at)),
       idx  |-> state.idx + SectorsOf(length),
       new  |-> Append(state.new, Entry(mod.as, state.idx, length))]

\* build_allres_osg.py: the modules are copied one behind the other to the blank
\* cylinder, and their entries put before the last three.
Copied(state, mod) ==
  LET from   == shelf.K02743.data
      length == from[mod.at * Sector].length
  IN  [data |-> Write(state.data, state.idx * Sector, body(from, mod.at)),
       idx  |-> state.idx + SectorsOf(length),
       new  |-> Append(state.new, Entry(mod.as, state.idx + 1, length))]

AllresOsg ==
  LET ents  == read_directory(image.data, 0)
      Done[k \in 0 .. Len(OSG)] ==
        IF k = 0 THEN [data |-> image.data, idx |-> Blank, new |-> <<>>]
        ELSE Copied(Done[k - 1], OSG[k])
      done  == Done[Len(OSG)]
      fixed == [ents EXCEPT ![1].start = @ + Len(OSG)]
      all   == SubSeq(fixed, 1, Len(ents) - 3) \o done.new
               \o SubSeq(fixed, Len(ents) - 2, Len(ents))
  IN  /\ disk = "ALL"
      /\ \A i, j \in Blank * Sector .. (Blank + BlankSectors) * Sector - 1 :
           image.data[i] = image.data[j]
      /\ ents[Len(ents) - 2].name = "+DIR"
      /\ \A m \in ToSet(OSG) : /\ m.name \notin {e.name : e \in ToSet(ents)}
                               /\ shelf.K02743.data[m.at * Sector].name = m.name
      /\ done.idx <= Blank + BlankSectors
      /\ Len(all) <= DirSectors * Sector
      /\ Edits(<<"allres_osg">>, "ALL", Write(done.data, 0, all))

\* build_k02743_fmd.py reads the first sectors when it begins, and writes them back
\* when all is done: the entry 0FMU points to another module, and whatever was
\* written to them in between is what it was.
Redirected(data, i, start, length) ==
  LET d == Read(image.data, 0, Buffer * Sector)
  IN  Write(data, 0, [d EXCEPT ![i + 1] = Entry("0FMU", start, length)])

\* The first entry 0FMU of the directory in sector 0, in the sectors that were read.
Floppies == {i \in 0 .. Min({image.data[0].start, Buffer * Sector}) - 1 :
               image.data[i].name = "0FMU"}
OldFloppy == Min(Floppies)

\* The module that is on the disk, or ...
K02743Patc ==
  LET head == image.data[Patched * Sector]
  IN  /\ disk = "K02743" /\ Floppies # {} /\ head.name = "0FMD" /\ head.version = "PATC"
      /\ Edits(<<"fmd_patc">>, "K02743",
               Redirected(image.data, OldFloppy, Patched + 1, head.length))

\* A module may be written over another one.
Fits(new, old) == new <= old

\* ... that of ALL, written over the old module before the first sectors are.
K02743Allres ==
  LET from == shelf.ALL.data
      head == from[FloppyAt * Sector]
      old  == image.data[OldFloppy]
  IN  /\ disk = "K02743" /\ Floppies # {} /\ head.name = "0FMD" /\ Fits(head.length, old.length)
      /\ Edits(<<"fmd_allres">>, "K02743",
               Redirected(Write(image.data, (old.start - 1) * Sector, body(from, FloppyAt)),
                          OldFloppy, old.start, head.length))

\* Mutant of SlotFor: sectors are counted from 0.
SlotFromZero(data, i) ==
  [length |-> data[i * Sector].length,
   cyl |-> i \div (2 * Side) + 1, head |-> (i % (2 * Side)) \div Side, sec |-> i % Side]

\* build_oslem7_containers.py: the boot descriptor of two other containers.
SlotFor(data, i) ==
  [length |-> data[i * Sector].length,
   cyl |-> i \div (2 * Side) + 1, head |-> (i % (2 * Side)) \div Side, sec |-> (i % Side) + 1]

Oslem7Containers(rts, ini) ==
  LET data == Original.data
  IN  /\ script = <<"none">> /\ renamed = {} /\ disk = "OSLEM7"
      /\ Named(data, rts) # {} /\ Named(data, ini) # {}
      /\ script' = <<"containers", <<rts, ini>>>>
      /\ image' = [image EXCEPT !.slots = <<SlotFor(data, Max(Named(data, rts))),
                                            SlotFor(data, Max(Named(data, ini)))>>]
      /\ UNCHANGED <<shelf, disk, renamed>>

\* build_oslem7_ffr.py: a sub-module of the last container of that name, and the
\* cells up to the next one.
span(data, container, name) ==
  LET o    == Max(Named(data, container)) * Sector
      offs == sub_offsets(data, o)
      n    == CHOOSE k \in DOMAIN offs : data[o + offs[k]].name = name
      next == IF n < Len(offs) THEN offs[n + 1] ELSE 1 + data[o].length
  IN  [at |-> o + offs[n], n |-> next - offs[n]]

Has(data, container, name) ==
  /\ Named(data, container) # {}
  /\ LET o == Max(Named(data, container)) * Sector
     IN  \E x \in ToSet(sub_offsets(data, o)) : data[o + x].name = name

\* The containers on OSLEM7 and on K02743 by the last letter of a sub-module.
Pair(sub) == IF sub.ends = "R" THEN <<"H65R", "HDIR">> ELSE <<"H65I", "HDII">>

\* Mutant of Replaced: the sectors of a sub-module are written back as they were
\* on the original.
ReplacedInOriginal(data, sub) ==
  LET old == span(Original.data, Pair(sub)[1], sub.name)
      new == span(shelf.K02743.data, Pair(sub)[2], sub.name)
      first == (old.at \div Sector) * Sector
      last  == ((old.at + old.n - 1) \div Sector) * Sector + Sector - 1
      whole == Write(Original.data, old.at,
                     Read(shelf.K02743.data, new.at, new.n) \o [k \in 1 .. old.n - new.n |-> Zero])
  IN  Write(data, first, Read(whole, first, last - first + 1))

Replaced(data, sub) ==
  LET old == span(Original.data, Pair(sub)[1], sub.name)
      new == span(shelf.K02743.data, Pair(sub)[2], sub.name)
  IN  Write(data, old.at,
            Read(shelf.K02743.data, new.at, new.n) \o [k \in 1 .. old.n - new.n |-> Zero])

Oslem7Ffr(subs) ==
  /\ disk = "OSLEM7"
  /\ \A s \in ToSet(subs) :
       /\ Has(Original.data, Pair(s)[1], s.name) /\ Has(shelf.K02743.data, Pair(s)[2], s.name)
       /\ span(shelf.K02743.data, Pair(s)[2], s.name).n <= span(Original.data, Pair(s)[1], s.name).n
  /\ LET Done[k \in 0 .. Len(subs)] ==
           IF k = 0 THEN image.data ELSE Replaced(Done[k - 1], subs[k])
     IN  Edits(<<"ffr", ToSet(subs)>>, "OSLEM7", Done[Len(subs)])

\* build_oslem7_kyb.py: a keyboard driver in place of another one, filled up with
\* zeros, and its length in the directory.
Oslem7Kyb ==
  LET src  == Min(Named(shelf.K02743.data, "1KYB"))
      dst  == Min(Named(Original.data, "1KYB"))
      new  == body(shelf.K02743.data, src)
      old  == body(Original.data, dst)
      di   == directory_index(Original)
      hits == {n \in 0 .. Original.data[di * Sector].start - 1 :
                 Original.data[di * Sector + n].name = "1KYB"}
      i    == Min(hits)
  IN  /\ disk = "OSLEM7" /\ Named(shelf.K02743.data, "1KYB") # {} /\ Named(Original.data, "1KYB") # {}
      /\ Len(new) <= Len(old) /\ di # -1 /\ hits # {}
      /\ PointsAt(di, Original.data[di * Sector + i]) = dst
      /\ Edits(<<"kyb">>, "OSLEM7",
               [Write(image.data, dst * Sector, new \o [k \in 1 .. Len(old) - Len(new) |-> Zero])
                 EXCEPT ![di * Sector + i].length = shelf.K02743.data[src * Sector].length])

\* alias_pound.py: entries that nobody can type are renamed; their modules keep
\* their names.  The entries are those that were read before the first one was.
AliasPound(names) ==
  LET di    == directory_index(image)
      ents  == read_directory(image.data, di)
      taken == {e.name : e \in ToSet(ents)}
  IN  /\ names # {} /\ di # -1
      /\ \A n \in names : n \in taken /\ Typeable[n] \notin taken
      /\ image' = [image EXCEPT !.data =
                     Write(@, di * Sector,
                           [i \in DOMAIN ents |-> IF ents[i].name \in names
                                                  THEN [ents[i] EXCEPT !.name = Typeable[@]]
                                                  ELSE ents[i]])]
      /\ renamed' = renamed \cup names
      /\ UNCHANGED <<shelf, disk, script>>

SurgeryNext ==
  \/ AllresOsg \/ K02743Patc \/ K02743Allres \/ Oslem7Kyb
  \/ \E rts, ini \in {Original.data[i * Sector].name : i \in headers(Original.data)} :
       Oslem7Containers(rts, ini)
  \/ \E subs \in SubLists : Oslem7Ffr(subs)
  \/ \E names \in SUBSET DOMAIN Typeable : AliasPound(names)

SurgerySpec == SurgeryInit /\ [][SurgeryNext]_surgery

------------------------------------------------------------------------------

\* The sector of the directory, and its entries but its own.
DirAt == Original.dir
Entries == LET ents == read_directory(image.data, DirAt) IN {ents[i] : i \in 2 .. Len(ents)}

\* The headers that an entry may mean: the one it points to, and those of its
\* sub-modules.
Meant(e) ==
  LET o == PointsAt(DirAt, e) * Sector
  IN  IF o \notin DOMAIN image.data \/ image.data[o].kind # "head" THEN {}
      ELSE Heads(image.data, o)

\* The name of the module that an entry was made for.
Proper(name) ==
  IF \E n \in renamed : Typeable[n] = name THEN CHOOSE n \in renamed : Typeable[n] = name
  ELSE IF \E m \in ToSet(OSG) : m.as = name THEN (CHOOSE m \in ToSet(OSG) : m.as = name).name
  ELSE name

\* Sub-modules that were replaced keep the lengths of the old ones in the directory.
Swapped == IF script[1] = "ffr" THEN {s.name : s \in script[2]} ELSE {}

\* After every script, and after names were changed, the directory is true: every
\* entry that led to a module leads to one of its name and its length, which lies
\* on the disk; the entry 0FMU may lead to a 0FMD; and no module overlaps the
\* next ("header at data index dir + start - 1", tools/L1_DISK_FORMATS.md:140-141).
LibraryHolds ==
  LET modules == {e \in Entries : e.name \notin Specials}
  IN  /\ \A e \in modules :
           /\ \E h \in Meant(e) :
                /\ \/ h.name = Proper(e.name)
                   \/ h.name = "0FMD" /\ e.name = "0FMU" /\ script[1] \in {"fmd_patc", "fmd_allres"}
                /\ h.length = e.length \/ Proper(e.name) \in Swapped
           /\ (PointsAt(DirAt, e) + SectorsOf(e.length)) * Sector <= Cardinality(DOMAIN image.data)
      /\ \A e, f \in modules :
           e.start < f.start =>
             e.start + SectorsOf(image.data[PointsAt(DirAt, e) * Sector].length) <= f.start

\* The modules that a script replaces.
Replaces ==
  CASE script[1] = "fmd_allres" -> {"0FMU"}
    [] script[1] = "kyb"        -> {"1KYB"}
    [] script[1] = "ffr"        -> {Pair(s)[1] : s \in script[2]}
    [] OTHER                    -> {}

\* No script damages a module that it was not to replace; and in a container
\* every sub-module that was asked for is the one of K02743, however many were
\* asked for at once and whatever sectors they share, and all the others are
\* what they were (scripts/harness/build_oslem7_ffr.py:5 "must fit; the rest is
\* zeroed").
OnlyTheWanted ==
  LET was == Original.data
      Sub(data, i, x) == Read(data, i * Sector + x, 1 + data[i * Sector + x].length)
  IN  \A i \in headers(was) :
        /\ was[i * Sector].name \notin Replaces =>
             Read(image.data, i * Sector, Len(body(was, i))) = body(was, i)
        /\ script[1] = "ffr" /\ i = Max(Named(was, was[i * Sector].name)) =>
             \A x \in ToSet(sub_offsets(was, i * Sector)) :
               LET old == was[i * Sector + x].name
                   by  == {s \in script[2] : s.name = old /\ Pair(s)[1] = was[i * Sector].name}
                   k   == shelf.K02743.data
               IN  IF by = {} THEN Sub(image.data, i, x) = Sub(was, i, x)
                   ELSE \E s \in by :
                          /\ x \in ToSet(sub_offsets(image.data, i * Sector))
                          /\ Sub(image.data, i, x) = Sub(k, 0, span(k, Pair(s)[2], old).at)

\* The boot descriptor leads l1lib.py to the containers that it was made for,
\* with their lengths (l1lib.py:197 takes apart what
\* build_oslem7_containers.py:21 puts together).
SlotsLead ==
  script[1] = "containers" =>
    \A n \in {1, 2} :
      LET i == SlotIndex(image.slots[n])
      IN  /\ i \in headers(image.data)
          /\ image.data[i * Sector].name = script[2][n]
          /\ image.data[i * Sector].length = image.slots[n].length
          /\ i = Max(Named(image.data, script[2][n]))

\* The directory is found where it was as long as enough of the entries that are
\* looked at lead to modules of their names, three of them where track 0 points
\* to it and five where it is searched; and nothing else is ever taken for it,
\* whatever was renamed ("falls back to scanning when that does not look like a
\* directory", tools/l1lib.py:233).
DirectoryFound ==
  LET ents == Read(Original.data, Original.dir * Sector,
                   Min({Scored, Original.data[Original.dir * Sector].start}))
      true == {i \in 2 .. Len(ents) :
                 /\ ents[i].name \in {Original.data[h * Sector].name : h \in headers(Original.data)}
                 /\ ents[i].name \notin renamed
                 /\ ~(ents[i].name = "0FMU" /\ script[1] \in {"fmd_patc", "fmd_allres"})}
  IN  /\ directory_index(image) \in {Original.dir, -1}
      /\ Cardinality(true) >= (IF Original.pointer = 0 THEN 5 ELSE 3) =>
           directory_index(image) = Original.dir
==============================================================================
