-------------------------------- MODULE Catalog --------------------------------
(***************************************************************************)
(* The catalogue of a DCOS diagnostic disk, which three programs read:      *)
(* tools/m40disk.py from the image, tools/dml_catalog.py from a flat file   *)
(* that imd.py has made of it, and m40_harness.py from the JSON that        *)
(* diagnostic_tests/collect_tests.py writes with the help of dml_catalog.   *)
(*                                                                          *)
(* A disk: its VOL1 label (is it there, is it a DML label, track, sector    *)
(* and count of the catalogue), the flat sector at which the catalogue      *)
(* really stands, its records, and the sectors in the flat image, fewer     *)
(* when only the first tracks were extracted.  A record is an entry of the  *)
(* catalogue, or ends it.  Names are values; Begins says which begin so.    *)
(* A selector has no blanks around it, which dml_catalog.py does not strip. *)
(***************************************************************************)
EXTENDS Integers, SequencesExt, FiniteSetsExt

CONSTANTS
  PerCylinder,   \* sectors of a cylinder (52)
  Track0,        \* sectors that track 0 is short of (13)
  Block,         \* sectors in a unit of ext (256)
  PerSector,     \* bytes of a sector (256)
  Begins,        \* which names begin with a selector
  Number         \* the number a selector is, -1 if it is none

ASSUME SectorsAssumption ==
  /\ PerCylinder \in Nat /\ Track0 \in Nat /\ Block \in Nat /\ PerSector \in Nat

HeadBytes == 16
RecordBytes == 20

Fails == [fails |-> TRUE]
Entries(seq) == [fails |-> FALSE, entries |-> seq]

\* Where the label says that the catalogue is.
CatalogSector(disk) == disk.track * PerCylinder + (disk.sector - 1) - Track0

\* How many records fit, and those before the first one that ends the catalogue.
Slots(disk) == (disk.count * PerSector - HeadBytes) \div RecordBytes
Records(disk) ==
  LET n == Min({Slots(disk), Len(disk.records)})
      stops == {k \in 1 .. n : disk.records[k].index = 255 \/ disk.records[k].name = ""}
  IN  SubSeq(disk.records, 1, IF stops = {} THEN n ELSE Min(stops) - 1)

\* m40disk.py parse_catalog
parse_catalog(disk) ==
  IF ~disk.vol1 \/ ~disk.dml \/ CatalogSector(disk) < 0
     \/ CatalogSector(disk) + disk.count > disk.size THEN Fails
  ELSE Entries(Records(disk))

\* dml_catalog.py read_catalog: it does not ask where the catalogue ends; a
\* record that the file does not hold is an error, if the records get there.
read_catalog(disk) ==
  LET held == ((disk.size - CatalogSector(disk)) * PerSector - HeadBytes) \div RecordBytes
      n    == Len(Records(disk))
  IN  IF ~disk.vol1 \/ Min({n + 1, Slots(disk)}) > held THEN Fails
      ELSE Entries(Records(disk))

\* Mutant of Entry_flat_sector: what track 0 is short of is not taken off.
WholeTrack0(e) == e.ext * Block + e.cyl * PerCylinder + e.sec

\* DmlEntry.flat_sector of m40disk.py, and Entry.flat_sector of dml_catalog.py
flat_sector(e) == e.ext * Block + e.cyl * PerCylinder + e.sec - Track0
Entry_flat_sector(e) == e.ext * Block + e.cyl * PerCylinder + e.sec - Track0

\* Entries that a number or the beginning of a name selects.  A number that is
\* nobody's index is tried as the beginning of a name: 6030T6 is called so.
ByIndex(entries, sel) == {k \in DOMAIN entries : entries[k].index = Number[sel]}
ByName(entries, sel) == {k \in DOMAIN entries : entries[k].name \in Begins[sel]}

Only(entries, matches) ==
  IF Cardinality(matches) # 1 THEN Fails
  ELSE [fails |-> FALSE, entry |-> entries[CHOOSE k \in matches : TRUE]]

\* m40disk.py find_entry
find_entry(entries, sel) ==
  IF ByIndex(entries, sel) # {}
  THEN [fails |-> FALSE, entry |-> entries[Min(ByIndex(entries, sel))]]
  ELSE Only(entries, ByName(entries, sel))

\* resolve_catalog_entry of the harness.  It compares the display name too, the
\* first six characters of a name.
resolve_catalog_entry(entries, sel) ==
  IF ByIndex(entries, sel) # {}
  THEN [fails |-> FALSE, entry |-> entries[Min(ByIndex(entries, sel))]]
  ELSE Only(entries, ByName(entries, sel))

\* dml_catalog.py find_entry: names only, also for a number that is an index
DmlFindEntry(entries, sel) == Only(entries, ByName(entries, sel))

\* m40disk.py extract_entry: the sectors of a program, which must be in the file;
\* dml_catalog.py cmd_extract, which takes a slice: an end of it before the file
\* counts from the end of the file, and both ends are cut to the file.
extract_entry(disk, e) ==
  IF flat_sector(e) < 0 \/ flat_sector(e) + e.length > disk.size THEN Fails
  ELSE [fails |-> FALSE, first |-> flat_sector(e), n |-> e.length]
InFile(at, size) == IF at < 0 THEN Max({at + size, 0}) ELSE Min({at, size})
cmd_extract(disk, e) ==
  LET from == InFile(Entry_flat_sector(e), disk.size)
      to   == InFile(Entry_flat_sector(e) + e.length, disk.size)
  IN  IF Max({to - from, 0}) # e.length THEN Fails
      ELSE [fails |-> FALSE, first |-> from, n |-> e.length]
==============================================================================
