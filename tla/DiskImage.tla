------------------------------- MODULE DiskImage -------------------------------
(***************************************************************************)
(* The repository's tools for IMD disk images: tools/imd.py and l1disk.py   *)
(* (read, edit and save an image), m40disk.py (read and extract),           *)
(* imd_trim_empty_tail.py and make_m40_blank_imd.py (make new images).      *)
(*                                                                          *)
(* A file is a sequence of track records as ImageDisk writes them: sector   *)
(* numbers in the order of the track, a type for every sector, and a        *)
(* uniform sector stored as one cell.  A cell stands for 128 bytes, so that *)
(* a sector of track 0 side 0 is one cell and every other sector two.       *)
(* Truncated files, which the readers refuse or fail on, are left out.      *)
(***************************************************************************)
EXTENDS Naturals, FiniteSetsExt, SequencesExt

CONSTANTS
  Names,       \* file names
  Images,      \* the images of this instance, as files
  Nothing,     \* no such file, no such sector, no image open
  Values,      \* what a cell may hold
  Zero, Fill,  \* the bytes 0 and E5
  Writes,      \* what scripts write: linear index and data
  Headers,     \* what they make of track 0
  Spt,         \* sectors of a track: 26 on the real disks
  Cylinders,   \* cylinders of a full disk: 77
  MaxEdits     \* bound: writes by all scripts together

Heads == 2
PerCyl == Heads * Spt          \* 52
Size == 2                      \* cells of a data sector
FM == 0                        \* modes of track 0 side 0 and of the others
MFM == 3

\* The linear indices of a full disk and the first one after it.
Indices == 0 .. (Cylinders - 1) * PerCyl

ASSUME SptIsEven == Spt \in Nat \ {0} /\ Spt % 2 = 0
ASSUME CylindersNat == Cylinders \in Nat \ {0}
ASSUME BoundNat == MaxEdits \in Nat

\* A record: its maps name cylinder and head again, if they are there, and
\* every sector has its cells, as many as its type asks for.
RecordOK(rec) ==
  /\ rec.map \in Seq(Nat) /\ DOMAIN rec.secs = DOMAIN rec.map
  /\ rec.size \in Nat \ {0}
  /\ rec.cmap = <<>> \/ \A k \in DOMAIN rec.map : rec.cmap[k] = rec.cyl
  /\ rec.hmap = <<>> \/ \A k \in DOMAIN rec.map : rec.hmap[k] = rec.head
  /\ \A k \in DOMAIN rec.secs :
       LET sec == rec.secs[k]
       IN  /\ sec.type \in {1, 3, 5, 7} => sec.cells \in [1 .. rec.size -> Values]
           /\ sec.type \in {2, 4, 6, 8} => sec.cells \in [1 .. 1 -> Values]
           /\ sec.type \in 0 .. 8

FileOK(file) ==
  /\ Len(file) \in Nat /\ DOMAIN file = 1 .. Len(file)
  /\ \A t \in DOMAIN file : RecordOK(file[t])

ASSUME ImagesAssumption == \A image \in Images : FileOK(image)

\* A disk of the machine: every track once, its data sectors of one size.
Regular(tracks) ==
  /\ \A t \in DOMAIN tracks : /\ tracks[t].cyl \in 0 .. Cylinders - 1
                              /\ tracks[t].cyl # 0 => tracks[t].size = Size
  /\ \A t, u \in DOMAIN tracks :
       tracks[t].cyl = tracks[u].cyl /\ tracks[t].head = tracks[u].head => t = u

ASSUME RegularImages == \A image \in Images : Regular(image)
ASSUME ValuesAssumption ==
  /\ Zero \in Values /\ Fill \in Values
  /\ Nothing \notin [1 .. Size -> Values]
  /\ \A w \in Writes : w[1] \in Indices /\ w[2] \in Seq(Values)
  /\ Headers \subseteq Seq(Values)

VARIABLES
  files,    \* the files, or Nothing
  disk,     \* the L1Disk of the running script, or Nothing
  opened,   \* for the properties: the file it was made from, until it is edited
  edits,    \* writes so far
  arrays,   \* for the properties: the files and
  array     \* the image in memory as arrays of sectors

vars == <<files, disk, opened, edits, arrays, array>>

Concat(seqs) == FlattenSeq(seqs)

\* s[from : from + n], which ends where s ends
Slice(s, from, n) ==
  SubSeq(s, from + 1, IF from + n < Len(s) THEN from + n ELSE Len(s))

\* sorted(ids)
Sorted(ids) ==
  [k \in 1 .. Cardinality(ids) |->
     CHOOSE id \in ids : Cardinality({x \in ids : x < id}) = k - 1]

------------------------------------------------------------------------------
(* imd.py and m40disk.py: reading a file *)

\* The cells of sector k of a record: type 0 is unavailable, odd types store
\* every cell, the others one for all.
Payload(rec, k) ==
  LET sec == rec.secs[k]
  IN  CASE sec.type = 0          -> [c \in 1 .. rec.size |-> Zero]
        [] sec.type \in {1, 3, 5, 7} -> sec.cells
        [] OTHER                 -> [c \in 1 .. rec.size |-> sec.cells[1]]

\* Where a sector number stands in the map; the last one counts.
Position(rec, id) == Max({k \in DOMAIN rec.map : rec.map[k] = id})

Ids(rec) == {rec.map[k] : k \in DOMAIN rec.map}

Contents(rec) == [id \in Ids(rec) |-> Payload(rec, Position(rec, id))]

\* imd.read_imd: the maps of other cylinder and head numbers are skipped, and
\* the types are forgotten.
ReadImd(file) ==
  [t \in DOMAIN file |->
     [mode |-> file[t].mode, cyl |-> file[t].cyl, head |-> file[t].head,
      size |-> file[t].size, map |-> file[t].map, secs |-> Contents(file[t])]]

\* m40disk.read_imd: a sector with the cylinder, the head and the type the file
\* gives it.
M40Sector(rec, id) ==
  LET k == Position(rec, id)
  IN  [cyl  |-> IF rec.cmap = <<>> THEN rec.cyl ELSE rec.cmap[k],
       head |-> IF rec.hmap = <<>> THEN rec.head ELSE rec.hmap[k],
       id   |-> id, type |-> rec.secs[k].type, cells |-> Payload(rec, k)]

LogicalSectors(file) ==
  Concat([t \in DOMAIN file |->
            LET ids == Sorted(Ids(file[t]))
            IN  [k \in DOMAIN ids |-> M40Sector(file[t], ids[k])]])

FlatImage(file) ==
  LET secs == LogicalSectors(file)
  IN  Concat([k \in DOMAIN secs |-> secs[k].cells])

\* DmlEntry.logical_sector for a cylinder and a sector counted over both heads,
\* and its place in the flat image: track 0 side 0 is only half as long there.
LogicalSector(cyl, sec) == cyl * PerCyl + sec

\* Mutant of FlatSector: track 0 side 0 counts in full.
FlatSectorWhole(logical) == logical - Spt

FlatSector(logical) == logical - (Spt \div 2)

FlatCells(flat, logical) ==
  Slice(flat, FlatSector(logical) * Size, Size)

\* extract_bcos_extent keeps the sectors by cylinder, head and number, and goes
\* through these in rounds.
Rounds == 0 .. (Cylinders + 1) * PerCyl - 1

ChsAt(k) == <<k \div PerCyl, (k % PerCyl) \div Spt, 1 + (k % Spt)>>

ByChs(file) ==
  LET secs == LogicalSectors(file)
      at(x) == {i \in DOMAIN secs : <<secs[i].cyl, secs[i].head, secs[i].id>> = x}
  IN  [k \in Rounds |-> IF at(ChsAt(k)) = {} THEN Nothing
                        ELSE secs[Max(at(ChsAt(k)))].cells]

\* No round where the head or the sector number is not one of these.
RoundsOf(chs) ==
  {k \in Rounds \cap {chs[1] * PerCyl + chs[2] * Spt + chs[3] - 1} : ChsAt(k) = chs}

\* Mutant of Extent: the last sector is left out.
ExtentOpen(byChs, start, end) ==
  LET from   == RoundsOf(start)
      to     == RoundsOf(end)
      active == {k \in Rounds : (\E i \in from : i <= k) /\ (\E j \in to : k < j)}
  IN  IF active = {} \/ \E k \in active : byChs[k] = Nothing THEN Nothing
      ELSE LET first == Min(active)
           IN  Concat([i \in 1 .. Cardinality(active) |-> byChs[first + i - 1]])

\* The sectors from start to end, or Nothing where an error is raised: the end
\* comes first, is not on a disk, or a sector is missing.
Extent(byChs, start, end) ==
  LET from   == RoundsOf(start)
      to     == RoundsOf(end)
      active == {k \in Rounds : (\E i \in from : i <= k) /\ (\E j \in to : k <= j)}
  IN  IF active = {} \/ \E k \in active : byChs[k] = Nothing THEN Nothing
      ELSE LET first == Min(active)
           IN  Concat([i \in 1 .. Cardinality(active) |-> byChs[first + i - 1]])

------------------------------------------------------------------------------
(* l1disk.py: an image in memory *)

\* by_ch: the last track with this cylinder and head.
TracksAt(tracks, cyl, head) ==
  {t \in DOMAIN tracks : tracks[t].cyl = cyl /\ tracks[t].head = head}

\* _loc: the track and the sector number of a linear index.
LocTracks(tracks, index) ==
  TracksAt(tracks, 1 + index \div PerCyl, (index % PerCyl) \div Spt)

Loc(tracks, index) ==
  LET t == Max(LocTracks(tracks, index))
  IN  [track |-> t, id |-> Min(Range(tracks[t].map)) + (index % Spt)]

Exists(tracks, index) ==
  /\ LocTracks(tracks, index) # {}
  /\ LET at == Loc(tracks, index) IN at.id \in DOMAIN tracks[at.track].secs

ReadSector(tracks, index) ==
  LET at == Loc(tracks, index) IN tracks[at.track].secs[at.id]

\* Both sides of track 0, sectors in the order of their numbers.
Track0Sectors(tracks) ==
  LET side(head) ==
        IF TracksAt(tracks, 0, head) = {} THEN <<>>
        ELSE LET t == Max(TracksAt(tracks, 0, head))
                 ids == Sorted(DOMAIN tracks[t].secs)
             IN  [k \in DOMAIN ids |-> [track |-> t, id |-> ids[k]]]
  IN  side(0) \o side(1)

Track0(tracks) ==
  LET all == Track0Sectors(tracks)
  IN  Concat([k \in DOMAIN all |-> tracks[all[k].track].secs[all[k].id]])

\* One round of the loop of set_track0: acc.pos cells of data are used up.
PutTrack0(acc, at, data) ==
  LET n == Len(acc.tracks[at.track].secs[at.id])
  IN  [pos |-> acc.pos + n,
       tracks |-> [acc.tracks EXCEPT ![at.track].secs[at.id] =
                     Slice(data, acc.pos, n)]]

WithTrack0(tracks, data) ==
  LET secs == Track0Sectors(tracks)
      Put[k \in 0 .. Len(secs)] ==
        IF k = 0 THEN [pos |-> 0, tracks |-> tracks]
        ELSE PutTrack0(Put[k - 1], secs[k], data)
  IN  Put[Len(secs)].tracks

\* old[:len(chunk)] = chunk
Overlay(old, chunk) == chunk \o SubSeq(old, Len(chunk) + 1, Len(old))

\* One round of the loop of write: the sector at acc.index.
PutSector(acc, data) ==
  IF acc.tracks = Nothing \/ acc.pos >= Len(data) THEN acc
  ELSE IF ~Exists(acc.tracks, acc.index) THEN [acc EXCEPT !.tracks = Nothing]
  ELSE LET at  == Loc(acc.tracks, acc.index)
           old == ReadSector(acc.tracks, acc.index)
           chunk == Slice(data, acc.pos, Len(old))
       IN  [pos |-> acc.pos + Len(old), index |-> acc.index + 1,
            tracks |-> [acc.tracks EXCEPT ![at.track].secs[at.id] =
                          Overlay(old, chunk)]]

\* write(index, data): a missing sector raises KeyError.
Written(tracks, index, data) ==
  LET Put[k \in 0 .. Len(data)] ==
        IF k = 0 THEN [pos |-> 0, index |-> index, tracks |-> tracks]
        ELSE PutSector(Put[k - 1], data)
  IN  Put[Len(data)].tracks

Uniform(cells) == \A c \in 1 .. Len(cells) : cells[c] = cells[1]

\* Mutant of SavedTrack: the sectors are written in the order of their numbers.
SavedSorted(track) ==
  LET ids == Sorted(DOMAIN track.secs)
  IN  [mode |-> track.mode, cyl |-> track.cyl, head |-> track.head,
       cmap |-> <<>>, hmap |-> <<>>, size |-> track.size, map |-> track.map,
       secs |-> [k \in DOMAIN ids |->
                   LET cells == track.secs[ids[k]]
                   IN  IF Uniform(cells) THEN [type |-> 2, cells |-> <<cells[1]>>]
                       ELSE [type |-> 1, cells |-> cells]]]

SavedTrack(track) ==
  [mode |-> track.mode, cyl |-> track.cyl, head |-> track.head,
   cmap |-> <<>>, hmap |-> <<>>, size |-> track.size, map |-> track.map,
   secs |-> [k \in DOMAIN track.map |->
               LET cells == track.secs[track.map[k]]
               IN  IF Uniform(cells) THEN [type |-> 2, cells |-> <<cells[1]>>]
                   ELSE [type |-> 1, cells |-> cells]]]

\* An image as its linear index shows it.
View(tracks) ==
  [track0 |-> Track0(tracks),
   area   |-> [i \in Indices |-> IF Exists(tracks, i) THEN ReadSector(tracks, i)
                                 ELSE Nothing]]

ViewOf(file) == IF file = Nothing THEN Nothing ELSE View(ReadImd(file))

------------------------------------------------------------------------------

Init ==
  /\ \E image \in Images : files \in {[n \in Names |-> IF n = m THEN image ELSE Nothing] :
                                       m \in Names}
  /\ disk = Nothing /\ opened = Nothing
  /\ edits = 0
  /\ arrays = [n \in Names |-> ViewOf(files[n])] /\ array = Nothing

\* Part of every action.
Watch ==
  /\ arrays' = [n \in Names |-> IF files'[n] = files[n] THEN arrays[n]
                               ELSE ViewOf(files'[n])]
  /\ array' = IF disk' = Nothing THEN Nothing
              ELSE IF disk' = disk THEN array ELSE View(disk')

\* A script makes an L1Disk.
Open(n) ==
  /\ disk = Nothing /\ files[n] # Nothing
  /\ disk' = ReadImd(files[n])
  /\ opened' = files[n]
  /\ UNCHANGED <<files, edits>>
  /\ Watch

Write(index, data) ==
  /\ disk # Nothing /\ edits < MaxEdits
  /\ disk' = Written(disk, index, data)
  /\ opened' = Nothing
  /\ edits' = edits + 1
  /\ files' = files
  /\ Watch

\* The scripts change bytes of track0() and give all of it back.
SetTrack0(data) ==
  /\ disk # Nothing /\ edits < MaxEdits
  /\ Len(data) = Len(Track0(disk))
  /\ disk' = WithTrack0(disk, data)
  /\ opened' = Nothing
  /\ edits' = edits + 1
  /\ files' = files
  /\ Watch

Save(n) ==
  /\ disk # Nothing
  /\ files' = [files EXCEPT ![n] = [t \in DOMAIN disk |-> SavedTrack(disk[t])]]
  /\ UNCHANGED <<disk, opened, edits>>
  /\ Watch

\* The script ends.
Close ==
  /\ disk # Nothing
  /\ disk' = Nothing /\ opened' = Nothing
  /\ UNCHANGED <<files, edits>>
  /\ Watch

\* The records of the cylinders below limit.
Below(file, limit) ==
  LET Kept[t \in 0 .. Len(file)] ==
        IF t = 0 THEN <<>>
        ELSE IF file[t].cyl < limit THEN Append(Kept[t - 1], file[t]) ELSE Kept[t - 1]
  IN  Kept[Len(file)]

\* imd_trim_empty_tail.py: records below the limit verbatim, zeros beyond it; the
\* target is opened with "x" and must be new.
Trim(source, target, limit) ==
  /\ disk = Nothing
  /\ files[source] # Nothing /\ files[target] = Nothing
  /\ \A t \in DOMAIN files[source] :
       LET rec == files[source][t]
       IN  rec.cyl >= limit => \A k \in DOMAIN rec.secs :
             rec.secs[k].type = 0 \/ \A c \in DOMAIN rec.secs[k].cells :
                                       rec.secs[k].cells[c] = Zero
  /\ files' = [files EXCEPT ![target] = Below(files[source], limit)]
  /\ UNCHANGED <<disk, opened, edits>>
  /\ Watch

\* What make_m40_blank_imd.py takes for the geometry of a disk.
UsualGeometry(tracks) ==
  /\ Len(tracks) = Cylinders * Heads
  /\ {<<tracks[t].cyl, tracks[t].head>> : t \in DOMAIN tracks} =
       (0 .. Cylinders - 1) \X (0 .. Heads - 1)
  /\ \A t \in DOMAIN tracks :
       LET first == tracks[t].cyl = 0 /\ tracks[t].head = 0
       IN  /\ tracks[t].mode = IF first THEN FM ELSE MFM
           /\ tracks[t].size = IF first THEN 1 ELSE Size
           /\ Len(tracks[t].map) = Spt
           /\ Range(tracks[t].map) = 1 .. Spt

BlankTrack(track) ==
  [mode |-> track.mode, cyl |-> track.cyl, head |-> track.head,
   cmap |-> <<>>, hmap |-> <<>>, size |-> track.size, map |-> track.map,
   secs |-> [k \in DOMAIN track.map |-> [type |-> 2, cells |-> <<Fill>>]]]

Blank(reference, target) ==
  /\ disk = Nothing
  /\ files[reference] # Nothing /\ files[target] = Nothing
  /\ LET tracks == ReadImd(files[reference])
     IN  /\ UsualGeometry(tracks)
         /\ files' = [files EXCEPT ![target] =
                        [t \in DOMAIN tracks |-> BlankTrack(tracks[t])]]
  /\ UNCHANGED <<disk, opened, edits>>
  /\ Watch

Limits == 1 .. Cylinders

Next ==
  \/ \E n \in Names : Open(n) \/ Save(n)
  \/ \E w \in Writes : Write(w[1], w[2])
  \/ \E data \in Headers : SetTrack0(data)
  \/ Close
  \/ \E source, target \in Names :
       \/ \E limit \in Limits : Trim(source, target, limit)
       \/ Blank(source, target)

Spec == Init /\ [][Next]_vars

------------------------------------------------------------------------------

Linear == INSTANCE LinearDisk WITH saved <- arrays, open <- array

\* Seen through its linear index, an image in memory and the files behave like
\* plain arrays of sectors: a write over sector, track and cylinder boundaries
\* changes what it names and nothing else, a save and the next open give back
\* what was written, whatever the order and the types of the sectors were, and
\* the tools that make images lose nothing but zeros.
LinearSpec == Linear!Spec

\* A disk with nothing missing before its last track.
Complete(file) ==
  \A t \in DOMAIN file :
    /\ file[t].cyl = (t - 1) \div Heads /\ file[t].head = (t - 1) % Heads
    /\ file[t].size = IF t = 1 THEN 1 ELSE Size
    /\ Ids(file[t]) = 1 .. Spt

\* m40disk.py and l1disk.py count sectors from different places, one with the
\* flat image, one with cylinders from 1.  They mean the same bytes, in every
\* file the tools have made.
FlatIsLinear ==
  \A n \in Names : files[n] # Nothing /\ Complete(files[n]) =>
    LET flat == FlatImage(files[n])
        area == arrays[n].area
    IN  \A index \in Indices :
          FlatCells(flat, LogicalSector(1 + index \div PerCyl, index % PerCyl)) =
            IF area[index] = Nothing THEN <<>> ELSE area[index]

Chs(index) == <<1 + index \div PerCyl, (index % PerCyl) \div Spt, 1 + (index % Spt)>>

\* The extent of a BCOS label holds the sectors of a range of linear indices,
\* ends included, unless the range is empty or a sector of it is missing.
ExtentIsRange ==
  \A n \in Names : files[n] # Nothing /\ Complete(files[n]) =>
    LET byChs == ByChs(files[n])
        area  == arrays[n].area
    IN  \A a, b \in Indices :
          Extent(byChs, Chs(a), Chs(b)) =
            IF a <= b /\ \A i \in a .. b : area[i] # Nothing
            THEN Concat([i \in 1 .. b - a + 1 |-> area[a + i - 1]])
            ELSE Nothing

==============================================================================
