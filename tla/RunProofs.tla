------------------------------- MODULE RunProofs -------------------------------
(***************************************************************************)
(* Theorems about the two ways the machine is run, each for itself: the     *)
(* keyed runs of Harness, for any number of processes, any calls, any disks *)
(* and any time that passes between them; and the checkpointed runs of      *)
(* InstallStage, for any number of terminals, stages and disks, and runs of *)
(* any number of disk writes.                                               *)
(***************************************************************************)
EXTENDS Harness, InstallStage, FiniteSetTheorems, SequenceTheorems, WellFoundedInduction, NaturalsInduction, TLAPS

(* The keyed runs *)

\* A process that has a folder, and what it keeps; a folder, and what is in it.
Started(r) == runs[r].stage \notin {"idle", "refused"}

RunShape(r) ==
  runs[r] = [stage |-> runs[r].stage, call |-> runs[r].call, entry |-> runs[r].entry,
             keys |-> runs[r].keys, folder |-> runs[r].folder]

FolderShape(n) ==
  folders[n] = [command |-> folders[n].command, trace |-> folders[n].trace,
                summary |-> folders[n].summary]

\* The folder of a run was made by it, and holds nothing but its own results;
\* there is no trace before MAME has left one.
Owned(r) ==
  /\ RunShape(r)
  /\ runs[r].folder \in DOMAIN folders
  /\ FolderShape(runs[r].folder)
  /\ folders[runs[r].folder].command = r
  /\ \A t \in folders[runs[r].folder].trace \cup folders[runs[r].folder].summary : t.of = r
  /\ runs[r].stage \in {"mame", "failed"} => folders[runs[r].folder].trace = {}

IInv ==
  /\ runs = [r \in Runs |-> runs[r]]
  /\ folders = [n \in DOMAIN folders |-> folders[n]]
  /\ \A r \in Runs : Started(r) => Owned(r)

LEMMA OwnersDiffer ==
  ASSUME IInv, NEW r \in Runs, NEW q \in Runs \ {r}, Started(r), Started(q)
  PROVE  runs[r].folder # runs[q].folder
BY DEF IInv, Owned

LEMMA InitIInv == Init => IInv
<1> SUFFICES ASSUME Init PROVE IInv
  OBVIOUS
<1>1. runs = [r \in Runs |-> runs[r]] /\ folders = [n \in DOMAIN folders |-> folders[n]]
  BY DEF Init
<1>2. \A r \in Runs : ~Started(r)
  BY DEF Init, Idle, Started
<1> QED
  BY <1>1, <1>2 DEF IInv

\* A process that stops, or none that does anything.
LEMMA StopStep ==
  ASSUME IInv, NEW r \in Runs, Stop(r)
  PROVE  IInv'
<1>1. /\ runs' = [runs EXCEPT ![r] = [stage |-> "refused"]] /\ folders' = folders
  BY DEF Stop
<1>2. runs'[r] = [stage |-> "refused"] /\ \A q \in Runs \ {r} : runs'[q] = runs[q]
  BY <1>1 DEF IInv
<1>3. \A q \in Runs : Started(q)' => q # r /\ Started(q)
  BY <1>2 DEF Started
<1>4. \A q \in Runs \ {r} : Owned(q) => Owned(q)'
  BY <1>1, <1>2 DEF Owned, RunShape, FolderShape
<1>5. runs' = [q \in Runs |-> runs'[q]] /\ folders' = [n \in DOMAIN folders' |-> folders'[n]]
  BY <1>1 DEF IInv
<1> QED
  BY <1>3, <1>4, <1>5 DEF IInv

LEMMA StartStep ==
  ASSUME IInv, NEW r \in Runs, NEW call, NEW entry, NEW keys,
         ~Started(r), Starts(r, call, entry, keys)
  PROVE  IInv'
<1> DEFINE folder == FolderOf(call, entry)
<1> DEFINE made == [command |-> r, trace |-> {}, summary |-> {}]
<1>1. CASE ~Free(folder)
  BY <1>1, StopStep DEF Starts
<1>2. CASE Free(folder)
  <2>1. /\ folders' = [n \in DOMAIN folders \cup {folder} |->
                        IF n = folder THEN made ELSE folders[n]]
        /\ runs' = [runs EXCEPT ![r] = [stage |-> "mame", call |-> call, entry |-> entry,
                                        keys |-> keys, folder |-> folder]]
    BY <1>2 DEF Starts
  <2> HIDE DEF folder, made
  <2>2. /\ DOMAIN folders' = {folder} \cup DOMAIN folders
        /\ folders'[folder] = made
        /\ \A n \in DOMAIN folders : n # folder => folders'[n] = folders[n]
        /\ folders' = [n \in DOMAIN folders' |-> folders'[n]]
    BY <2>1
  <2>3. folder \notin DOMAIN folders
    BY <1>2 DEF Free, folder
  <2>4. /\ runs' = [q \in Runs |-> runs'[q]]
        /\ runs'[r] = [stage |-> "mame", call |-> call, entry |-> entry, keys |-> keys,
                       folder |-> folder]
        /\ \A q \in Runs \ {r} : runs'[q] = runs[q]
    BY <2>1 DEF IInv
  <2>5. Owned(r)'
    BY <2>2, <2>4 DEF Owned, RunShape, FolderShape, made
  <2>6. ASSUME NEW q \in Runs \ {r}, Started(q)'
        PROVE  Owned(q)'
    <3>1. Started(q) /\ Owned(q)
      BY <2>4, <2>6 DEF Started, IInv
    <3>2. runs[q].folder \in DOMAIN folders /\ runs[q].folder # folder
      BY <2>3, <3>1 DEF Owned
    <3> QED
      BY <2>2, <2>4, <3>1, <3>2 DEF Owned, RunShape, FolderShape
  <2> QED
    BY <2>2, <2>4, <2>5, <2>6 DEF IInv
<1> QED
  BY <1>1, <1>2

\* A process that changes its stage, the trace and the summary of its folder, and
\* nothing else.
Does(r, next, trace, summary) ==
  /\ next \notin {"idle", "refused"}
  /\ runs' = [runs EXCEPT ![r].stage = next]
  /\ folders' = [folders EXCEPT ![runs[r].folder] =
                   [command |-> r, trace |-> trace, summary |-> summary]]
  /\ \A t \in trace \cup summary : t.of = r
  /\ next \in {"mame", "failed"} => trace = {}

LEMMA OwnStep ==
  ASSUME IInv, NEW r \in Runs, Started(r), NEW next, NEW trace, NEW summary,
         Does(r, next, trace, summary)
  PROVE  IInv'
<1> USE DEF Does
<1>0. Owned(r)
  BY DEF IInv
<1>1. /\ runs' = [q \in Runs |-> runs'[q]]
      /\ runs'[r] = [runs[r] EXCEPT !.stage = next]
      /\ \A q \in Runs \ {r} : runs'[q] = runs[q]
  BY DEF IInv
<1>2. /\ runs'[r].stage = next /\ runs'[r].folder = runs[r].folder
      /\ RunShape(r)'
  BY <1>0, <1>1 DEF Owned, RunShape
<1>3. /\ folders' = [n \in DOMAIN folders' |-> folders'[n]] /\ DOMAIN folders' = DOMAIN folders
      /\ folders'[runs[r].folder] = [command |-> r, trace |-> trace, summary |-> summary]
      /\ \A n \in DOMAIN folders : n # runs[r].folder => folders'[n] = folders[n]
  BY <1>0 DEF IInv, Owned
<1>4. Owned(r)'
  BY <1>0, <1>2, <1>3 DEF Owned, FolderShape
<1>5. ASSUME NEW q \in Runs \ {r}, Started(q)'
      PROVE  Owned(q)'
  <2>1. Started(q) /\ Owned(q)
    BY <1>1, <1>5 DEF Started, IInv
  <2>2. runs[q].folder # runs[r].folder /\ runs[q].folder \in DOMAIN folders
    BY <2>1, OwnersDiffer DEF Owned
  <2> QED
    BY <1>1, <1>3, <2>1, <2>2 DEF Owned, RunShape, FolderShape
<1> QED
  BY <1>1, <1>3, <1>4, <1>5 DEF IInv

LEMMA Same ==
  ASSUME IInv, NEW r \in Runs, Started(r)
  PROVE  folders = [folders EXCEPT ![runs[r].folder] =
                      [command |-> r, trace |-> folders[runs[r].folder].trace,
                       summary |-> folders[runs[r].folder].summary]]
BY DEF IInv, Owned, FolderShape

LEMMA FolderExcept ==
  ASSUME NEW f, f = [command |-> f.command, trace |-> f.trace, summary |-> f.summary], NEW x
  PROVE  /\ [f EXCEPT !.trace = x] = [command |-> f.command, trace |-> x, summary |-> f.summary]
         /\ [f EXCEPT !.summary = x] = [command |-> f.command, trace |-> f.trace, summary |-> x]
OBVIOUS

LEMMA MameStep ==
  ASSUME IInv, NEW r \in Runs, Mame(r)
  PROVE  IInv'
<1> DEFINE folder == runs[r].folder
<1> DEFINE Left(seconds) ==
      {[of |-> r, did |-> d] :
         d \in IF runs[r].call.command = "dump"
               THEN Dumped(runs[r].keys, runs[r].call, seconds)
               ELSE {Played(runs[r].keys, runs[r].call, seconds)}}
<1>0. Started(r) /\ Owned(r)
  BY DEF Mame, Started, IInv
<1>1. ASSUME NEW seconds, NEW next \in {"ended", "broken"},
             folders' = [folders EXCEPT ![folder].trace = Left(seconds)],
             runs' = [runs EXCEPT ![r].stage = next]
      PROVE  IInv'
  <2>1. \A t \in Left(seconds) : t.of = r
    OBVIOUS
  <2> HIDE DEF Left
  <2>2. folders' = [folders EXCEPT ![folder] =
                      [command |-> r, trace |-> Left(seconds), summary |-> folders[folder].summary]]
    <3>1. [folders[folder] EXCEPT !.trace = Left(seconds)] =
            [command |-> folders[folder].command, trace |-> Left(seconds),
             summary |-> folders[folder].summary]
      BY <1>0, FolderExcept DEF Owned, FolderShape
    <3> QED
      BY <1>0, <1>1, <3>1 DEF Owned
  <2>3. \A t \in folders[folder].summary : t.of = r
    BY <1>0 DEF Owned
  <2>4. Does(r, next, Left(seconds), folders[folder].summary)
    BY <1>1, <2>1, <2>2, <2>3 DEF Does
  <2> QED
    BY <1>0, <2>4, OwnStep
<1>2. ASSUME folders' = folders, runs' = [runs EXCEPT ![r].stage = "broken"]
      PROVE  IInv'
  <2>1. \A t \in folders[folder].trace \cup folders[folder].summary : t.of = r
    BY <1>0 DEF Owned
  <2>2. Does(r, "broken", folders[folder].trace, folders[folder].summary)
    BY <1>0, <1>2, <2>1, Same DEF Does
  <2> QED
    BY <1>0, <2>2, OwnStep
<1> QED
  BY <1>1, <1>2 DEF Mame

LEMMA SummariseStep ==
  ASSUME IInv, NEW r \in Runs, Summarise(r)
  PROVE  IInv'
<1> DEFINE folder == runs[r].folder
<1>0. Started(r) /\ Owned(r)
  BY DEF Summarise, Started, IInv
<1>1. \A t \in folders[folder].trace \cup folders[folder].summary : t.of = r
  BY <1>0 DEF Owned
<1>2. ASSUME NEW next \in {"good", "bad"}, folders' = folders,
             runs' = [runs EXCEPT ![r].stage = next]
      PROVE  IInv'
  <2>1. Does(r, next, folders[folder].trace, folders[folder].summary)
    BY <1>0, <1>1, <1>2, Same DEF Does
  <2> QED
    BY <1>0, <2>1, OwnStep
<1>3. ASSUME folders[folder].trace = {}, folders' = folders,
             runs' = [runs EXCEPT ![r].stage = "failed"]
      PROVE  IInv'
  <2>1. Does(r, "failed", folders[folder].trace, folders[folder].summary)
    BY <1>0, <1>1, <1>3, Same DEF Does
  <2> QED
    BY <1>0, <2>1, OwnStep
<1>4. ASSUME NEW next \in {"good", "bad"},
             folders' = [folders EXCEPT ![folder].summary = folders[folder].trace],
             runs' = [runs EXCEPT ![r].stage = next]
      PROVE  IInv'
  <2>1. folders' = [folders EXCEPT ![folder] =
                      [command |-> r, trace |-> folders[folder].trace,
                       summary |-> folders[folder].trace]]
    <3>1. [folders[folder] EXCEPT !.summary = folders[folder].trace] =
            [command |-> folders[folder].command, trace |-> folders[folder].trace,
             summary |-> folders[folder].trace]
      BY <1>0, FolderExcept DEF Owned, FolderShape
    <3> QED
      BY <1>0, <1>4, <3>1 DEF Owned
  <2>2. Does(r, next, folders[folder].trace, folders[folder].trace)
    BY <1>1, <1>4, <2>1 DEF Does
  <2> QED
    BY <1>0, <2>2, OwnStep
<1> QED
  BY <1>2, <1>3, <1>4 DEF Summarise

LEMMA NextStep == IInv /\ [Next]_vars => IInv'
<1> SUFFICES ASSUME IInv, [Next]_vars PROVE IInv'
  OBVIOUS
<1>1. ASSUME NEW r \in Runs, NEW call \in Calls, RunTest(r, call)
      PROVE  IInv'
  <2>1. ~Started(r)
    BY <1>1 DEF RunTest, Started
  <2>2. Stop(r) \/ \E entry, keys : Starts(r, call, entry, keys)
    BY <1>1 DEF RunTest
  <2> QED
    BY <2>1, <2>2, StopStep, StartStep
<1>2. ASSUME NEW r \in Runs, NEW call \in Calls, RunKeys(r, call)
      PROVE  IInv'
  <2>1. ~Started(r)
    BY <1>2 DEF RunKeys, Started
  <2> QED
    BY <1>2, <2>1, StartStep DEF RunKeys
<1>3. CASE Tick \/ Collect \/ UNCHANGED vars
  <2>1. runs' = runs /\ folders' = folders
    BY <1>3 DEF Tick, Collect, vars
  <2> QED
    BY <2>1 DEF IInv, Owned, Started, RunShape, FolderShape
<1> QED
  BY <1>1, <1>2, <1>3, MameStep, SummariseStep DEF Next

\* Runs of the harness do not mix, however many are started in one second: each
\* has a folder that nobody else has made, with its own results.
THEOREM RunsApart == Spec => []RunsKeepApart
<1>1. IInv => RunsKeepApart
  <2> SUFFICES ASSUME IInv, NEW r \in Runs, Started(r)
               PROVE  LET folder == folders[runs[r].folder]
                      IN  /\ folder.command = r
                          /\ \A t \in folder.trace \cup folder.summary : t.of = r
                          /\ runs[r].stage = "failed" => folder.trace = {}
    BY DEF RunsKeepApart, Started
  <2> QED
    BY DEF IInv, Owned
<1> QED
  BY <1>1, InitIInv, NextStep, PTL DEF Spec
------------------------------------------------------------------------------
(* The readers of a catalogue.                                              *)

Below == {p \in Nat \X Nat : p[1] < p[2]}

LEMMA BelowWellFounded == IsWellFoundedOn(Below, Nat)
<1>1. Below = OpToRel(<, Nat)
  BY Zenon DEF Below, OpToRel
<1> QED
  BY <1>1, NatLessThanWellFounded

LEMMA MinIsMember ==
  ASSUME NEW S \in SUBSET Nat, S # {}
  PROVE  Min(S) \in S /\ \A m \in S : Min(S) <= m
<1>1. PICK n \in S : \A m \in S : <<m, n>> \notin Below
  BY BelowWellFounded, WFMin
<1>2. ASSUME NEW m \in S
      PROVE  n <= m
  <2>1. ~(m < n)
    BY <1>1 DEF Below
  <2> QED
    BY <2>1
<1> QED
  BY <1>2 DEF Min

LEMMA MinOfTwo ==
  ASSUME NEW a \in Int, NEW b \in Int
  PROVE  Min({a, b}) = IF a <= b THEN a ELSE b
BY DEF Min

LEMMA MaxOfTwo ==
  ASSUME NEW a \in Int, NEW b \in Int
  PROVE  Max({a, b}) = IF a <= b THEN b ELSE a
BY DEF Max

EntryIs(e) ==
  /\ e.index \in 0 .. 254 /\ e.length \in 0 .. 255
  /\ e.ext \in Nat /\ e.cyl \in Nat /\ e.sec \in Nat

\* The entries of a catalogue are the records before the one that ends it.
LEMMA RecordsAre ==
  ASSUME NEW l \in DOMAIN Diagnostics
  PROVE  /\ Len(Records(Diagnostics[l])) \in Nat
         /\ DOMAIN Records(Diagnostics[l]) = 1 .. Len(Records(Diagnostics[l]))
         /\ \A k \in 1 .. Len(Records(Diagnostics[l])) : EntryIs(Records(Diagnostics[l])[k])
<1>0. PICK disk : disk = Diagnostics[l]
  OBVIOUS
<1>1. PICK rec : rec = disk.records
  OBVIOUS
<1>2. PICK slots : slots = Slots(disk)
  OBVIOUS
<1>3. slots \in Int /\ Len(rec) \in Nat
  <2>1. disk.count * PerSector \in Int
    BY <1>0, DisksAssumption, SectorsAssumption
  <2> QED
    BY <1>0, <1>1, <1>2, <2>1, DisksAssumption DEF Slots, HeadBytes, RecordBytes
<1>4. PICK m : m = Min({slots, Len(rec)})
  OBVIOUS
<1>5. m \in Int /\ m <= slots /\ m <= Len(rec)
  BY <1>3, <1>4, MinOfTwo
<1>6. PICK stops : stops = {k \in 1 .. m : rec[k].index = 255 \/ rec[k].name = ""}
  OBVIOUS
<1>7. stops \in SUBSET Nat /\ \A k \in stops : k \in 1 .. m
  <2>1. \A k \in stops : k \in 1 .. m
    BY <1>6, Zenon
  <2>2. \A k \in 1 .. m : k \in Nat
    BY <1>5
  <2> QED
    BY <2>1, <2>2
<1>8. PICK n : n = IF stops = {} THEN m ELSE Min(stops) - 1
  OBVIOUS
<1>9. n \in Int /\ n <= m
  <2>1. CASE stops = {}
    BY <1>5, <1>8, <2>1
  <2>2. CASE stops # {}
    <3>1. Min(stops) \in 1 .. m
      BY <1>7, <2>2, MinIsMember
    <3> QED
      BY <1>5, <1>8, <2>2, <3>1
  <2> QED
    BY <2>1, <2>2
<1>10. \A k \in 1 .. n : rec[k].index # 255 /\ rec[k].name # ""
  <2>0. \A k \in 1 .. m : rec[k].index = 255 \/ rec[k].name = "" => k \in stops
    BY <1>6, Zenon
  <2> SUFFICES ASSUME NEW k \in 1 .. n, k \in stops
               PROVE  FALSE
    <3>1. \A k \in 1 .. n : k \in 1 .. m
      BY <1>5, <1>9
    <3> QED
      BY <2>0, <3>1
  <2>1. Min(stops) <= k /\ Min(stops) \in Nat
    BY <1>7, MinIsMember
  <2> QED
    BY <1>7, <1>8, <2>1
<1>11. Records(disk) = SubSeq(rec, 1, n)
  BY <1>1, <1>2, <1>4, <1>6, <1>8 DEF Records
<1>12. PICK S : S = {rec[k] : k \in 1 .. n}
  OBVIOUS
<1>13. /\ SubSeq(rec, 1, n) \in Seq(S)
       /\ Len(SubSeq(rec, 1, n)) = IF 1 <= n THEN n - 1 + 1 ELSE 0
       /\ \A k \in 1 .. n - 1 + 1 : SubSeq(rec, 1, n)[k] = rec[1 + k - 1]
  <2>1. \A k \in 1 .. n : rec[k] \in S
    BY <1>12
  <2> QED
    BY <1>9, <2>1, SubSeqProperties
<1>14. /\ Len(Records(disk)) = IF 1 <= n THEN n ELSE 0
       /\ DOMAIN Records(disk) = 1 .. Len(Records(disk))
       /\ \A k \in 1 .. n : Records(disk)[k] = rec[k]
  BY <1>9, <1>11, <1>13
<1>15. /\ Len(Records(disk)) \in Nat
       /\ \A k \in 1 .. Len(Records(disk)) : k \in 1 .. n /\ k \in 1 .. Len(rec)
  BY <1>3, <1>5, <1>9, <1>14
<1>16. \A k \in 1 .. Len(rec) : RecordIs(rec[k])
  BY <1>0, <1>1, DisksAssumption
<1>17. ASSUME NEW k \in 1 .. Len(Records(disk))
       PROVE  EntryIs(Records(disk)[k])
  <2>1. PICK e : e = rec[k]
    OBVIOUS
  <2>2. RecordIs(e) /\ e.index # 255 /\ e.name # "" /\ Records(disk)[k] = e
    <3>1. k \in 1 .. n /\ k \in 1 .. Len(rec)
      BY <1>15
    <3>2. RecordIs(e)
      BY <1>16, <2>1, <3>1
    <3>3. e.index # 255 /\ e.name # ""
      BY <1>10, <2>1, <3>1
    <3>4. Records(disk)[k] = e
      BY <1>14, <2>1, <3>1
    <3> QED
      BY <3>2, <3>3, <3>4
  <2>3. EntryIs(e)
    BY <2>2 DEF RecordIs, EntryIs
  <2> QED
    BY <2>2, <2>3
<1> QED
  BY <1>0, <1>14, <1>15, <1>17

\* Where m40disk.py reads the catalogue, the flat file holds all its records.
LEMMA SameCatalog ==
  ASSUME NEW l \in DOMAIN Diagnostics, ~parse_catalog(Diagnostics[l]).fails
  PROVE  /\ parse_catalog(Diagnostics[l]) = Entries(Records(Diagnostics[l]))
         /\ read_catalog(Diagnostics[l]) = Entries(Records(Diagnostics[l]))
<1>0. PICK disk : disk = Diagnostics[l]
  OBVIOUS
<1>1. /\ disk.vol1 /\ CatalogSector(disk) + disk.count <= disk.size
      /\ parse_catalog(disk) = Entries(Records(disk))
      /\ CatalogSector(disk) \in Nat /\ disk.count \in Nat /\ disk.size \in Nat
  <2>1. CatalogSector(disk) \in Nat /\ disk.count \in Nat /\ disk.size \in Nat
    BY <1>0, DisksAssumption
  <2> QED
    BY <1>0, <2>1 DEF parse_catalog, Fails
<1>2. PICK room : room = disk.size - CatalogSector(disk)
  OBVIOUS
<1>3. room \in Nat /\ disk.count <= room
  BY <1>1, <1>2
<1>4. PICK held : held = (room * PerSector - HeadBytes) \div RecordBytes
  OBVIOUS
<1>5. Slots(disk) <= held /\ Slots(disk) \in Int /\ held \in Int
  <2>1. PICK a, b : a = disk.count * PerSector /\ b = room * PerSector
    OBVIOUS
  <2>2. a \in Int /\ b \in Int /\ a <= b
    BY <1>1, <1>3, <2>1, SectorsAssumption
  <2> QED
    BY <1>4, <2>1, <2>2 DEF Slots, HeadBytes, RecordBytes
<1>6. PICK n : n = Len(Records(disk))
  OBVIOUS
<1>7. n \in Nat
  BY <1>0, <1>6, RecordsAre
<1>8. ~(Min({n + 1, Slots(disk)}) > held)
  BY <1>5, <1>7, MinOfTwo
<1>9. read_catalog(disk) = Entries(Records(disk))
  BY <1>1, <1>2, <1>4, <1>6, <1>8 DEF read_catalog
<1> QED
  BY <1>0, <1>1, <1>9

\* An entry that is found is one of the catalogue.
LEMMA FoundIsEntry ==
  ASSUME NEW entries, DOMAIN entries \in SUBSET Nat, NEW sel, ~find_entry(entries, sel).fails
  PROVE  \E k \in DOMAIN entries : find_entry(entries, sel) = [fails |-> FALSE, entry |-> entries[k]]
<1>1. CASE ByIndex(entries, sel) # {}
  <2>1. ByIndex(entries, sel) \in SUBSET Nat
    BY DEF ByIndex
  <2>2. Min(ByIndex(entries, sel)) \in DOMAIN entries
    BY <1>1, <2>1, MinIsMember DEF ByIndex
  <2> QED
    BY <1>1, <2>2 DEF find_entry
<1>2. CASE ByIndex(entries, sel) = {}
  <2>1. PICK matches : matches = ByName(entries, sel)
    OBVIOUS
  <2>2. find_entry(entries, sel) = Only(entries, matches)
    BY <1>2, <2>1 DEF find_entry
  <2>3. Cardinality(matches) = 1
    BY <2>2 DEF Only, Fails
  <2>4. matches # {}
    BY <2>3, FS_EmptySet
  <2>5. (CHOOSE k \in matches : TRUE) \in matches
    BY <2>4
  <2>6. (CHOOSE k \in matches : TRUE) \in DOMAIN entries
    BY <2>1, <2>5 DEF ByName
  <2> QED
    BY <2>2, <2>3, <2>6 DEF Only
<1> QED
  BY <1>1, <1>2

\* An entry that a number finds has that number, and one that a name finds
\* begins so.
LEMMA FoundByNumber ==
  ASSUME NEW entries, DOMAIN entries \in SUBSET Nat, NEW sel, ByIndex(entries, sel) # {}
  PROVE  ~find_entry(entries, sel).fails /\ find_entry(entries, sel).entry.index = Number[sel]
<1>1. ByIndex(entries, sel) \in SUBSET Nat
  BY DEF ByIndex
<1>2. Min(ByIndex(entries, sel)) \in ByIndex(entries, sel)
  BY <1>1, MinIsMember
<1>3. PICK k : k = Min(ByIndex(entries, sel))
  OBVIOUS
<1>4. entries[k].index = Number[sel]
  BY <1>2, <1>3 DEF ByIndex
<1> QED
  BY <1>3, <1>4 DEF find_entry

LEMMA FoundByName ==
  ASSUME NEW entries, NEW sel, ~DmlFindEntry(entries, sel).fails
  PROVE  DmlFindEntry(entries, sel).entry.name \in Begins[sel]
<1>1. PICK matches : matches = ByName(entries, sel)
  OBVIOUS
<1>2. DmlFindEntry(entries, sel) = Only(entries, matches)
  BY <1>1 DEF DmlFindEntry
<1>3. Cardinality(matches) = 1
  BY <1>2 DEF Only, Fails
<1>4. matches # {}
  BY <1>3, FS_EmptySet
<1>5. (CHOOSE k \in matches : TRUE) \in matches
  BY <1>4
<1>6. PICK k : k = CHOOSE m \in matches : TRUE
  OBVIOUS
<1>7. entries[k].name \in Begins[sel]
  BY <1>1, <1>5, <1>6 DEF ByName
<1>8. DmlFindEntry(entries, sel).entry = entries[k]
  BY <1>2, <1>3, <1>6 DEF Only
<1> QED
  BY <1>7, <1>8

\* A slice of a file, with ends that count from its end when they are negative.
LEMMA SliceOf ==
  ASSUME NEW at \in Int, NEW n \in Nat, NEW size \in Nat
  PROVE  LET begin == InFile(at, size)
             took == Max({InFile(at + n, size) - begin, 0})
         IN  /\ took \in Nat
             /\ at >= 0 /\ at + n <= size => took = n /\ begin = at
             /\ at >= 0 /\ at + n > size => n = 0 \/ took # n
             /\ at < 0 => n = 0 \/ took # n \/ begin = size + at
<1>1. PICK begin, to : begin = InFile(at, size) /\ to = InFile(at + n, size)
  OBVIOUS
<1>2. \A x \in Int : InFile(x, size) = IF x < 0 THEN (IF x + size <= 0 THEN 0 ELSE x + size)
                                      ELSE (IF x <= size THEN x ELSE size)
  <2> SUFFICES ASSUME NEW x \in Int
               PROVE  InFile(x, size) = IF x < 0 THEN (IF x + size <= 0 THEN 0 ELSE x + size)
                                        ELSE (IF x <= size THEN x ELSE size)
    OBVIOUS
  <2>1. Max({x + size, 0}) = IF x + size <= 0 THEN 0 ELSE x + size
    BY MaxOfTwo
  <2>2. Min({x, size}) = IF x <= size THEN x ELSE size
    BY MinOfTwo
  <2> QED
    BY <2>1, <2>2 DEF InFile
<1>3. begin = IF at < 0 THEN (IF at + size <= 0 THEN 0 ELSE at + size)
             ELSE (IF at <= size THEN at ELSE size)
  BY <1>1, <1>2
<1>4. to = IF at + n < 0 THEN (IF at + n + size <= 0 THEN 0 ELSE at + n + size)
           ELSE (IF at + n <= size THEN at + n ELSE size)
  BY <1>1, <1>2
<1>5. begin \in Int /\ to \in Int
  BY <1>3, <1>4
<1>6. PICK took : took = Max({to - begin, 0})
  OBVIOUS
<1>7. took = IF to - begin <= 0 THEN 0 ELSE to - begin
  BY <1>5, <1>6, MaxOfTwo
<1>8. took \in Nat
  BY <1>5, <1>7
<1>9. at >= 0 /\ at + n <= size => took = n /\ begin = at
  BY <1>3, <1>4, <1>7
<1>10. at >= 0 /\ at + n > size => n = 0 \/ took # n
  BY <1>3, <1>4, <1>7
<1>11. at < 0 => n = 0 \/ took # n \/ begin = size + at
  BY <1>3, <1>4, <1>7
<1> QED
  BY <1>1, <1>6, <1>8, <1>9, <1>10, <1>11

\* What the two extractors make of an entry.
LEMMA ExtractsTheSame ==
  ASSUME NEW disk, NEW e, disk.size \in Nat, flat_sector(e) \in Int, e.length \in Nat
  PROVE  LET data == extract_entry(disk, e)
             slice == cmd_extract(disk, e)
         IN  \/ slice = data
             \/ data.fails /\ e.length = 0 /\ slice.n = 0
             \/ data.fails /\ flat_sector(e) < 0 /\ slice.first = disk.size + flat_sector(e)
<1>1. PICK at, n, size : at = flat_sector(e) /\ n = e.length /\ size = disk.size
  OBVIOUS
<1>2. at \in Int /\ n \in Nat /\ size \in Nat
  BY <1>1
<1>3. PICK begin, took : begin = InFile(at, size) /\ took = Max({InFile(at + n, size) - begin, 0})
  OBVIOUS
<1>4. /\ at >= 0 /\ at + n <= size => took = n /\ begin = at
      /\ at >= 0 /\ at + n > size => n = 0 \/ took # n
      /\ at < 0 => n = 0 \/ took # n \/ begin = size + at
  BY <1>2, <1>3, SliceOf
<1>5. cmd_extract(disk, e) = IF took # n THEN Fails ELSE [fails |-> FALSE, first |-> begin, n |-> n]
  <2>1. Entry_flat_sector(e) = at
    BY <1>1 DEF Entry_flat_sector, flat_sector
  <2> QED
    BY <1>1, <1>3, <2>1 DEF cmd_extract
<1>6. extract_entry(disk, e) =
        IF at < 0 \/ at + n > size THEN Fails ELSE [fails |-> FALSE, first |-> at, n |-> n]
  BY <1>1 DEF extract_entry
<1>7. CASE took # n
  BY <1>2, <1>4, <1>5, <1>6, <1>7
<1>8. CASE took = n /\ (at < 0 \/ at + n > size)
  BY <1>1, <1>2, <1>4, <1>5, <1>6, <1>8 DEF Fails
<1>9. CASE took = n /\ at >= 0 /\ at + n <= size
  BY <1>2, <1>4, <1>5, <1>6, <1>9
<1> QED
  BY <1>2, <1>7, <1>8, <1>9

\* catalogs.json has what dml_catalog.py reads.
Collected ==
  json # NoCatalog =>
    \A l \in DOMAIN Diagnostics : /\ ~read_catalog(Diagnostics[l]).fails
                            /\ json[l] = read_catalog(Diagnostics[l]).entries

LEMMA CollectedAlways == Spec => []Collected
<1>1. Init => Collected
  BY DEF Init, Collected
<1>2. Collected /\ [Next]_vars => Collected'
  <2> SUFFICES ASSUME Collected, [Next]_vars
               PROVE  Collected'
    OBVIOUS
  <2>1. CASE Collect
    BY <2>1 DEF Collect, Collected
  <2>2. CASE ~Collect
    <3>1. \A r \in Runs : Stop(r) => json' = json
      BY DEF Stop
    <3>2. \A r \in Runs : \A call, entry, keys : Starts(r, call, entry, keys) => json' = json
      BY <3>1 DEF Starts
    <3>3. \A r \in Runs : \A call \in Calls : RunTest(r, call) \/ RunKeys(r, call) => json' = json
      BY <3>1, <3>2 DEF RunTest, RunKeys
    <3>4. \A r \in Runs : Mame(r) \/ Summarise(r) => json' = json
      BY DEF Mame, Summarise
    <3>5. Tick \/ UNCHANGED vars => json' = json
      BY DEF Tick, vars
    <3>6. json' = json
      BY <2>2, <3>3, <3>4, <3>5 DEF Next
    <3> QED
      BY <3>6 DEF Collected
  <2> QED
    BY <2>1, <2>2
<1> QED
  BY <1>1, <1>2, PTL DEF Spec

LEMMA ReadersAgree ==
  ASSUME Collected
  PROVE  OneProgram
<1> SUFFICES ASSUME NEW l \in DOMAIN Diagnostics, NEW sel \in DOMAIN Begins, ~parse_catalog(Diagnostics[l]).fails
             PROVE  LET disk == Diagnostics[l]
                        mine == parse_catalog(disk)
                        found == find_entry(mine.entries, sel)
                        flat == read_catalog(disk)
                        byname == DmlFindEntry(flat.entries, sel)
                    IN  /\ flat = mine
                        /\ json # NoCatalog => resolve_catalog_entry(json[l], sel) = found
                        /\ \/ byname = found
                           \/ /\ ~found.fails /\ found.entry.index = Number[sel]
                              /\ ~byname.fails => byname.entry.name \in Begins[sel]
                        /\ ~found.fails =>
                             LET e == found.entry
                                 data == extract_entry(disk, e)
                                 slice == cmd_extract(disk, e)
                             IN  \/ slice = data
                                 \/ data.fails /\ e.length = 0 /\ slice.n = 0
                                 \/ /\ data.fails /\ flat_sector(e) < 0
                                    /\ slice.first = disk.size + flat_sector(e)
  BY DEF OneProgram
<1>1. PICK disk, entries : disk = Diagnostics[l] /\ entries = Records(disk)
  OBVIOUS
<1>2. /\ parse_catalog(disk) = Entries(entries) /\ read_catalog(disk) = Entries(entries)
      /\ parse_catalog(disk).entries = entries /\ read_catalog(disk).entries = entries
  BY <1>1, SameCatalog DEF Entries
<1>3. json # NoCatalog => resolve_catalog_entry(json[l], sel) = find_entry(entries, sel)
  BY <1>1, <1>2 DEF Collected, resolve_catalog_entry, find_entry
<1>4. DOMAIN entries \in SUBSET Nat
  <2>1. Len(entries) \in Nat /\ DOMAIN entries = 1 .. Len(entries)
    BY <1>1, RecordsAre
  <2> QED
    BY <2>1
<1>5. ASSUME ~find_entry(entries, sel).fails
      PROVE  LET e == find_entry(entries, sel).entry
                 data == extract_entry(disk, e)
                 slice == cmd_extract(disk, e)
             IN  \/ slice = data
                 \/ data.fails /\ e.length = 0 /\ slice.n = 0
                 \/ data.fails /\ flat_sector(e) < 0 /\ slice.first = disk.size + flat_sector(e)
  <2>1. PICK k \in DOMAIN entries : find_entry(entries, sel) = [fails |-> FALSE, entry |-> entries[k]]
    BY <1>4, <1>5, FoundIsEntry
  <2>2. PICK e : e = entries[k]
    OBVIOUS
  <2>3. find_entry(entries, sel).entry = e
    BY <2>1, <2>2
  <2>4. EntryIs(e)
    BY <1>1, <2>2, RecordsAre
  <2>5. flat_sector(e) \in Int
    <3>1. e.ext * Block \in Int /\ e.cyl * PerCylinder \in Int
      BY <2>4, SectorsAssumption DEF EntryIs
    <3> QED
      BY <2>4, <3>1, SectorsAssumption DEF flat_sector, EntryIs
  <2>6. e.length \in Nat
    BY <2>4 DEF EntryIs
  <2>7. disk.size \in Nat
    BY <1>1, DisksAssumption
  <2> QED
    BY <2>3, <2>5, <2>6, <2>7, ExtractsTheSame
<1>6. \/ DmlFindEntry(entries, sel) = find_entry(entries, sel)
      \/ /\ ~find_entry(entries, sel).fails /\ find_entry(entries, sel).entry.index = Number[sel]
         /\ ~DmlFindEntry(entries, sel).fails => DmlFindEntry(entries, sel).entry.name \in Begins[sel]
  <2>1. CASE ByIndex(entries, sel) = {}
    BY <2>1 DEF DmlFindEntry, find_entry
  <2>2. CASE ByIndex(entries, sel) # {}
    BY <1>4, <2>2, FoundByNumber, FoundByName
  <2> QED
    BY <2>1, <2>2
<1> QED
  BY <1>1, <1>2, <1>3, <1>5, <1>6

\* The three readers read the same catalogue, and differ only over numbers, over
\* programs without sectors and over entries before the file, and so as
\* OneProgram says, whatever the disks, the numbers of sectors and the names.
THEOREM ReadersMeanOneProgram == Spec => []OneProgram
BY CollectedAlways, ReadersAgree, PTL
------------------------------------------------------------------------------
(* What run-test makes the monitor do.                                      *)

\* The function that Typed is defined with exists.
LEMMA TypedIs ==
  ASSUME NEW keys, Len(keys) \in Nat, NEW delay, NEW inter, NEW seconds
  PROVE  \E f : /\ f[0] = [t |-> delay, did |-> Prompt]
                /\ \A k \in 1 .. Len(keys) : f[k] = Post(f[k - 1], keys[k], inter, seconds)
                /\ Typed(keys, delay, inter, seconds) = f[Len(keys)]
<1> DEFINE Is(f, n) ==
      f = [k \in 0 .. n |-> IF k = 0 THEN [t |-> delay, did |-> Prompt]
                            ELSE Post(f[k - 1], keys[k], inter, seconds)]
<1>1. \A n \in Nat : \E f : Is(f, n)
  <2> DEFINE Missing == {n \in Nat : ~\E f : Is(f, n)}
  <2> SUFFICES ASSUME Missing # {}
               PROVE  FALSE
    OBVIOUS
  <2>1. PICK n \in Nat : n \in Missing /\ \A m \in Missing : n <= m
    <3>1. Missing \in SUBSET Nat
      OBVIOUS
    <3> HIDE DEF Missing
    <3> QED
      BY <3>1, MinIsMember
  <2>2. CASE n = 0
    <3> DEFINE f == [k \in 0 .. 0 |-> [t |-> delay, did |-> Prompt]]
    <3>1. Is(f, 0)
      OBVIOUS
    <3> QED
      BY <2>1, <2>2, <3>1
  <2>3. CASE n # 0
    <3>1. n - 1 \in Nat /\ n - 1 \notin Missing
      BY <2>1, <2>3
    <3>2. PICK f : Is(f, n - 1)
      BY <3>1
    <3> DEFINE g == [k \in 0 .. n |-> IF k = n THEN Post(f[n - 1], keys[n], inter, seconds) ELSE f[k]]
    <3>3. \A k \in 0 .. n : g[k] = IF k = 0 THEN [t |-> delay, did |-> Prompt]
                                   ELSE Post(g[k - 1], keys[k], inter, seconds)
      BY <2>1, <2>3, <3>2
    <3>4. Is(g, n)
      BY <3>3
    <3> QED
      BY <2>1, <3>4
  <2> QED
    BY <2>2, <2>3
<1>2. PICK f : f = CHOOSE g : Is(g, Len(keys))
  OBVIOUS
<1>3. Is(f, Len(keys))
  BY <1>1, <1>2
<1>4. Typed(keys, delay, inter, seconds) = f[Len(keys)]
  BY <1>2 DEF Typed
<1>5. /\ f[0] = [t |-> delay, did |-> Prompt]
      /\ \A k \in 1 .. Len(keys) : f[k] = Post(f[k - 1], keys[k], inter, seconds)
  BY <1>3
<1> QED
  BY <1>4, <1>5

LEMMA ThreeDigits ==
  ASSUME NEW code \in 0 .. 254
  PROVE  10 * (10 * (10 * 0 + code \div 100) + ((code \div 10) % 10)) + (code % 10) = code
<1>1. PICK x, y, z : x = code \div 10 /\ y = code % 10 /\ z = code \div 100
  OBVIOUS
<1>2. code = 10 * x + y /\ x \in 0 .. 25 /\ y \in 0 .. 9
  BY <1>1
<1>3. z = x \div 10
  BY <1>1
<1>4. x = 10 * z + (x % 10) /\ z \in 0 .. 2 /\ x % 10 \in 0 .. 9
  BY <1>2, <1>3
<1> QED
  BY <1>1, <1>2, <1>4

State(at, n, ready, loaded, started) ==
  [at |-> at, n |-> n, ready |-> ready, loaded |-> loaded, started |-> started]

\* What a key does that comes when the monitor sees it.
LEMMA MonitorSees ==
  ASSUME NEW at, NEW n, NEW ready \in Int, NEW loaded, NEW started, NEW e, e.t \in Int, ready <= e.t
  PROVE  LET after == Monitor(State(at, n, ready, loaded, started), e)
         IN  /\ e.key = "digit" =>
                  after = State(at, IF at = "code" THEN 10 * n + e.n ELSE e.n, ready, loaded, started)
             /\ e.key = "enter" =>
                  /\ at = "prompt" => after = State("menu", 0, ready, loaded, started)
                  /\ at = "code" => after = State("menu", 0, e.t + LoadTime, n, started)
                  /\ at = "menu" /\ n = 1 => after = State("code", 0, ready, loaded, started)
                  /\ at = "menu" /\ n = 4 => after = State("menu", 0, ready, loaded, loaded)
<1>1. PICK m : m = State(at, n, ready, loaded, started)
  OBVIOUS
<1>2. /\ m.at = at /\ m.n = n /\ m.ready = ready /\ m.loaded = loaded /\ m.started = started
      /\ ~(e.t < m.ready)
  BY <1>1 DEF State
<1>3. e.key = "digit" => Monitor(m, e) = [m EXCEPT !.n = IF m.at = "code" THEN 10 * m.n + e.n ELSE e.n]
  BY <1>2 DEF Monitor
<1>4. e.key = "enter" /\ m.at = "prompt" => Monitor(m, e) = [m EXCEPT !.at = "menu", !.n = 0]
  BY <1>2 DEF Monitor
<1>5. e.key = "enter" /\ m.at = "code" =>
        Monitor(m, e) = [m EXCEPT !.at = "menu", !.n = 0, !.loaded = m.n, !.ready = e.t + LoadTime]
  BY <1>2 DEF Monitor
<1>6. e.key = "enter" /\ m.at = "menu" /\ m.n = 1 => Monitor(m, e) = [m EXCEPT !.at = "code", !.n = 0]
  BY <1>2 DEF Monitor
<1>7. e.key = "enter" /\ m.at = "menu" /\ m.n = 4 =>
        Monitor(m, e) = [m EXCEPT !.started = m.loaded, !.n = 0]
  BY <1>2 DEF Monitor
<1>8. PICK a : a = Monitor(m, e)
  OBVIOUS
<1>9. /\ e.key = "digit" =>
           a = State(at, IF at = "code" THEN 10 * n + e.n ELSE e.n, ready, loaded, started)
      /\ e.key = "enter" /\ at = "prompt" => a = State("menu", 0, ready, loaded, started)
      /\ e.key = "enter" /\ at = "code" => a = State("menu", 0, e.t + LoadTime, n, started)
  BY <1>1, <1>2, <1>3, <1>4, <1>5, <1>8 DEF State
<1>10. e.key = "enter" /\ at = "menu" =>
         /\ n = 1 => a = State("code", 0, ready, loaded, started)
         /\ n = 4 => a = State("menu", 0, ready, loaded, loaded)
  BY <1>1, <1>2, <1>6, <1>7, <1>8 DEF State
<1> QED
  BY <1>1, <1>8, <1>9, <1>10

\* The same of a token that is posted in time.
LEMMA PostSees ==
  ASSUME NEW t \in Int, NEW inter \in Int, NEW seconds \in Int, t <= seconds,
         NEW at, NEW n, NEW ready \in Int, NEW loaded, NEW started, ready <= t,
         NEW token, token.key \in {"digit", "enter"}, NEW next,
         \/ token.key = "digit" /\ next = State(at, IF at = "code" THEN 10 * n + token.n ELSE token.n,
                                                ready, loaded, started)
         \/ token.key = "enter" /\ at = "prompt" /\ next = State("menu", 0, ready, loaded, started)
         \/ token.key = "enter" /\ at = "code" /\ next = State("menu", 0, t + LoadTime, n, started)
         \/ token.key = "enter" /\ at = "menu" /\ n = 1 /\ next = State("code", 0, ready, loaded, started)
         \/ token.key = "enter" /\ at = "menu" /\ n = 4 /\ next = State("menu", 0, ready, loaded, loaded)
  PROVE  Post([t |-> t, did |-> State(at, n, ready, loaded, started)], token, inter, seconds)
           = [t |-> t + inter, did |-> next]
<1>1. PICK m, e : /\ m = State(at, n, ready, loaded, started)
                  /\ e = [t |-> t, key |-> token.key, n |-> token.n]
  OBVIOUS
<1>2. e.t = t /\ e.key = token.key /\ e.n = token.n
  BY <1>1
<1>3. Post([t |-> t, did |-> m], token, inter, seconds) = [t |-> t + inter, did |-> Monitor(m, e)]
  BY <1>1 DEF Post
<1>4. Monitor(m, e) = next
  BY <1>1, <1>2, MonitorSees
<1> QED
  BY <1>1, <1>3, <1>4

At(t, did) == [t |-> t, did |-> did]

LEMMA PostDigit ==
  ASSUME NEW t \in Int, NEW inter \in Int, NEW seconds \in Int, t <= seconds,
         NEW n, NEW ready \in Int, NEW loaded, NEW started, ready <= t, NEW x
  PROVE  Post(At(t, State("menu", n, ready, loaded, started)), Digit(x), inter, seconds)
           = At(t + inter, State("menu", x, ready, loaded, started))
<1>1. Digit(x).key = "digit" /\ Digit(x).n = x
  BY DEF Digit
<1> QED
  BY <1>1, PostSees DEF At

LEMMA PostCode ==
  ASSUME NEW t \in Int, NEW inter \in Int, NEW seconds \in Int, t <= seconds,
         NEW n, NEW ready \in Int, NEW loaded, NEW started, ready <= t, NEW x,
         NEW m, m = 10 * n + x
  PROVE  Post(At(t, State("code", n, ready, loaded, started)), Digit(x), inter, seconds)
           = At(t + inter, State("code", m, ready, loaded, started))
<1>1. Digit(x).key = "digit" /\ Digit(x).n = x
  BY DEF Digit
<1> QED
  BY <1>1, PostSees DEF At

LEMMA PostWake ==
  ASSUME NEW t \in Int, NEW inter \in Int, NEW seconds \in Int, t <= seconds,
         NEW n, NEW ready \in Int, NEW loaded, NEW started, ready <= t
  PROVE  Post(At(t, State("prompt", n, ready, loaded, started)), Enter, inter, seconds)
           = At(t + inter, State("menu", 0, ready, loaded, started))
<1>1. Enter.key = "enter"
  BY DEF Enter
<1> QED
  BY <1>1, PostSees DEF At

LEMMA PostLoad ==
  ASSUME NEW t \in Int, NEW inter \in Int, NEW seconds \in Int, t <= seconds,
         NEW n, NEW ready \in Int, NEW loaded, NEW started, ready <= t
  PROVE  Post(At(t, State("code", n, ready, loaded, started)), Enter, inter, seconds)
           = At(t + inter, State("menu", 0, t + LoadTime, n, started))
<1>1. Enter.key = "enter"
  BY DEF Enter
<1> QED
  BY <1>1, PostSees DEF At

LEMMA PostOne ==
  ASSUME NEW t \in Int, NEW inter \in Int, NEW seconds \in Int, t <= seconds,
         NEW ready \in Int, NEW loaded, NEW started, ready <= t
  PROVE  Post(At(t, State("menu", 1, ready, loaded, started)), Enter, inter, seconds)
           = At(t + inter, State("code", 0, ready, loaded, started))
<1>1. Enter.key = "enter"
  BY DEF Enter
<1> QED
  BY <1>1, PostSees DEF At

LEMMA PostFour ==
  ASSUME NEW t \in Int, NEW inter \in Int, NEW seconds \in Int, t <= seconds,
         NEW ready \in Int, NEW loaded, NEW started, ready <= t
  PROVE  Post(At(t, State("menu", 4, ready, loaded, started)), Enter, inter, seconds)
           = At(t + inter, State("menu", 0, ready, loaded, loaded))
<1>1. Enter.key = "enter"
  BY DEF Enter
<1> QED
  BY <1>1, PostSees DEF At

\* The keys that load a program and start it, typed at the times that Patient asks for.
LEMMA TestPlays ==
  ASSUME NEW call \in Calls, Patient(call), NEW code \in 0 .. 254
  PROVE  LET did == Played(monitor_load_keys(code, call.go, call.load_wait), call, call.seconds)
         IN  did.loaded = code /\ (call.go => did.started = code)
<1>1. PICK d, i, w, s : /\ d = call.key_delay /\ i = call.inter_key_delay
                        /\ w = call.load_wait /\ s = call.seconds
  OBVIOUS
<1>2. /\ d \in Nat /\ i \in Nat /\ w \in Nat /\ s \in Nat /\ BootTime \in Nat /\ LoadTime \in Nat
      /\ BootTime <= d /\ LoadTime <= w + 2 * i /\ d + 9 * i + w <= s
  BY <1>1, CallsAssumption DEF Patient
<1>3. PICK keys : keys = monitor_load_keys(code, call.go, call.load_wait)
  OBVIOUS
<1>4. PICK x, y, z : x = code \div 100 /\ y = (code \div 10) % 10 /\ z = code % 10
  OBVIOUS
<1>5. /\ Len(keys) = IF call.go THEN 10 ELSE 7
      /\ keys[1] = Enter /\ keys[2] = Digit(1) /\ keys[3] = Enter
      /\ keys[4] = Digit(x) /\ keys[5] = Digit(y) /\ keys[6] = Digit(z) /\ keys[7] = Enter
      /\ call.go => keys[8] = Wait(w) /\ keys[9] = Digit(4) /\ keys[10] = Enter
  <2>1. PICK a, b : /\ a = <<Enter, Digit(1), Enter, Digit(x), Digit(y), Digit(z), Enter>>
                    /\ b = IF call.go THEN <<Wait(w), Digit(4), Enter>> ELSE <<>>
    OBVIOUS
  <2>2. keys = a \o b
    BY <1>1, <1>3, <1>4, <2>1 DEF monitor_load_keys
  <2>3. PICK S : \A e : e \in {Enter, Digit(1), Digit(x), Digit(y), Digit(z), Wait(w), Digit(4)} => e \in S
    OBVIOUS
  <2>4. /\ a \in Seq(S) /\ b \in Seq(S) /\ Len(a) = 7
        /\ (~call.go => Len(b) = 0) /\ (call.go => Len(b) = 3)
    <3>1. a \in Seq(S) /\ Len(a) = 7
      BY <2>1, <2>3
    <3>2. ~call.go => b \in Seq(S) /\ Len(b) = 0
      BY <2>1
    <3>3. call.go => b \in Seq(S) /\ Len(b) = 3
      BY <2>1, <2>3
    <3> QED
      BY <3>1, <3>2, <3>3
  <2>5. /\ Len(keys) = Len(a) + Len(b)
        /\ \A k \in 1 .. Len(a) + Len(b) : keys[k] = IF k <= Len(a) THEN a[k] ELSE b[k - Len(a)]
    BY <2>2, <2>4, ConcatProperties
  <2>6. \A k \in 1 .. 7 : keys[k] = a[k]
    BY <2>4, <2>5
  <2>7. call.go => keys[8] = b[1] /\ keys[9] = b[2] /\ keys[10] = b[3]
    <3> SUFFICES ASSUME call.go
                 PROVE  keys[8] = b[1] /\ keys[9] = b[2] /\ keys[10] = b[3]
      OBVIOUS
    <3>1. Len(b) = 3 /\ Len(a) = 7
      BY <2>4
    <3> QED
      BY <2>5, <3>1
  <2> QED
    BY <2>1, <2>4, <2>5, <2>6, <2>7
<1>6. PICK f : /\ f[0] = [t |-> d, did |-> Prompt]
               /\ \A k \in 1 .. Len(keys) : f[k] = Post(f[k - 1], keys[k], i, s)
               /\ Typed(keys, d, i, s) = f[Len(keys)]
  <2>1. Len(keys) \in Nat
    BY <1>5
  <2> QED
    BY <2>1, TypedIs
<1>7. Played(keys, call, s) = f[Len(keys)].did
  BY <1>1, <1>6 DEF Played
<1>8. PICK t1, t2, t3, t4, t5, t6, t7, t8, t9, t10 :
        /\ t1 = d + i /\ t2 = t1 + i /\ t3 = t2 + i /\ t4 = t3 + i /\ t5 = t4 + i
        /\ t6 = t5 + i /\ t7 = t6 + i /\ t8 = t7 + i + w /\ t9 = t8 + i /\ t10 = t9 + i
  OBVIOUS
<1>9. /\ d \in Int /\ t1 \in Int /\ t2 \in Int /\ t3 \in Int /\ t4 \in Int /\ t5 \in Int
      /\ t6 \in Int /\ t7 \in Int /\ t8 \in Int /\ t9 \in Int /\ i \in Int /\ s \in Int
      /\ BootTime \in Int /\ t6 + LoadTime \in Int
      /\ BootTime <= d /\ BootTime <= t1 /\ BootTime <= t2 /\ BootTime <= t3 /\ BootTime <= t4
      /\ BootTime <= t5 /\ BootTime <= t6 /\ t6 + LoadTime <= t8 /\ t6 + LoadTime <= t9
      /\ d <= s /\ t1 <= s /\ t2 <= s /\ t3 <= s /\ t4 <= s /\ t5 <= s /\ t6 <= s /\ t8 <= s /\ t9 <= s
  BY <1>2, <1>8
<1>10. PICK none, c0, c1, c2 : none = -1 /\ c0 = 0 /\ c1 = 10 * c0 + x /\ c2 = 10 * c1 + y
  OBVIOUS
<1>11. f[0] = At(d, State("prompt", 0, BootTime, none, none))
  BY <1>6, <1>10 DEF Prompt, State, At
<1>12. f[1] = At(t1, State("menu", 0, BootTime, none, none))
  <2>1. f[1] = Post(f[0], Enter, i, s)
    BY <1>5, <1>6
  <2> QED
    BY <1>8, <1>9, <1>11, <2>1, PostWake
<1>13. f[2] = At(t2, State("menu", 1, BootTime, none, none))
  <2>1. f[2] = Post(f[1], Digit(1), i, s)
    BY <1>5, <1>6
  <2> QED
    BY <1>8, <1>9, <1>12, <2>1, PostDigit
<1>14. f[3] = At(t3, State("code", c0, BootTime, none, none))
  <2>1. f[3] = Post(f[2], Enter, i, s)
    BY <1>5, <1>6
  <2> QED
    BY <1>8, <1>9, <1>10, <1>13, <2>1, PostOne
<1>15. f[4] = At(t4, State("code", c1, BootTime, none, none))
  <2>1. f[4] = Post(f[3], Digit(x), i, s)
    BY <1>5, <1>6
  <2> QED
    <3>1. t3 \in Int /\ i \in Int /\ s \in Int /\ t3 <= s /\ BootTime \in Int /\ BootTime <= t3
      BY <1>9
    <3>2. t4 = t3 + i /\ c1 = 10 * c0 + x
      BY <1>8, <1>10
    <3>3. Post(At(t3, State("code", c0, BootTime, none, none)), Digit(x), i, s)
            = At(t3 + i, State("code", c1, BootTime, none, none))
      BY <3>1, <3>2, PostCode
    <3> QED
      BY <1>14, <2>1, <3>2, <3>3
<1>16. f[5] = At(t5, State("code", c2, BootTime, none, none))
  <2>1. f[5] = Post(f[4], Digit(y), i, s)
    BY <1>5, <1>6
  <2> QED
    BY <1>8, <1>9, <1>10, <1>15, <2>1, PostCode
<1>17. f[6] = At(t6, State("code", code, BootTime, none, none))
  <2>1. f[6] = Post(f[5], Digit(z), i, s)
    BY <1>5, <1>6
  <2>2. code = 10 * c2 + z
    BY <1>4, <1>10, ThreeDigits
  <2> QED
    BY <1>8, <1>9, <1>16, <2>1, <2>2, PostCode
<1>18. f[7] = At(t7, State("menu", 0, t6 + LoadTime, code, none))
  <2>1. f[7] = Post(f[6], Enter, i, s)
    BY <1>5, <1>6
  <2> QED
    BY <1>8, <1>9, <1>17, <2>1, PostLoad
<1>19. CASE ~call.go
  BY <1>1, <1>3, <1>5, <1>7, <1>18, <1>19 DEF State, At
<1>20. CASE call.go
  <2>1. f[8] = At(t8, State("menu", 0, t6 + LoadTime, code, none))
    <3>1. f[8] = Post(f[7], Wait(w), i, s)
      BY <1>5, <1>6, <1>20
    <3>2. Wait(w).key = "wait" /\ Wait(w).n = w
      BY DEF Wait
    <3>3. f[8] = At(t7 + i + w, State("menu", 0, t6 + LoadTime, code, none))
      BY <1>18, <3>1, <3>2 DEF Post, At
    <3> QED
      BY <1>8, <3>3
  <2>2. f[9] = At(t9, State("menu", 4, t6 + LoadTime, code, none))
    <3>1. f[9] = Post(f[8], Digit(4), i, s)
      BY <1>5, <1>6, <1>20
    <3> QED
      BY <1>8, <1>9, <2>1, <3>1, PostDigit
  <2>3. f[10] = At(t10, State("menu", 0, t6 + LoadTime, code, code))
    <3>1. f[10] = Post(f[9], Enter, i, s)
      BY <1>5, <1>6, <1>20
    <3> QED
      BY <1>8, <1>9, <2>2, <3>1, PostFour
  <2> QED
    BY <1>1, <1>3, <1>5, <1>7, <1>20, <2>3 DEF State, At
<1> QED
  BY <1>19, <1>20
------------------------------------------------------------------------------
(* What run-test has loaded.                                                *)

\* What a run-test was asked for: an entry of the catalogue of the disk that is
\* inserted, as dml_catalog.py has read it, and the keys that load that entry.
Asked(r) ==
  LET call == runs[r].call
      found == resolve_catalog_entry(read_catalog(Diagnostics[LetterOf(call)]).entries, call.test)
  IN  /\ call \in Calls
      /\ LetterOf(call) \in DOMAIN Diagnostics
      /\ ~found.fails
      /\ runs[r].entry = found.entry
      /\ runs[r].keys = monitor_load_keys(runs[r].entry.index, call.go, call.load_wait)

\* What its keys have done, when MAME was not stopped.
Result(r) == {[of |-> r, did |-> Played(runs[r].keys, runs[r].call, runs[r].call.seconds)]}

Meant(r) ==
  runs[r].call.command = "run-test" =>
    /\ Asked(r)
    /\ runs[r].stage = "ended" => folders[runs[r].folder].trace = Result(r)
    /\ runs[r].stage = "good" => folders[runs[r].folder].summary = Result(r)

AllMeant == \A r \in Runs : Started(r) => Meant(r)

\* A step of one process leaves what the others have meant.
LEMMA OthersMeant ==
  ASSUME AllMeant, NEW r \in Runs,
         \A q \in Runs \ {r} : runs'[q] = runs[q],
         \A q \in Runs \ {r} : Started(q) => folders'[runs[q].folder] = folders[runs[q].folder],
         Started(r)' => Meant(r)'
  PROVE  AllMeant'
<1> SUFFICES ASSUME NEW q \in Runs \ {r}, Started(q)'
             PROVE  Meant(q)'
  BY DEF AllMeant
<1>1. runs'[q] = runs[q] /\ Started(q) /\ Meant(q)
  BY DEF Started, AllMeant
<1>2. folders'[runs[q].folder] = folders[runs[q].folder]
  BY <1>1
<1>3. Asked(q) => Asked(q)'
  BY <1>1 DEF Asked
<1>4. Result(q)' = Result(q)
  BY <1>1 DEF Result
<1> QED
  BY <1>1, <1>2, <1>3, <1>4 DEF Meant

LEMMA StopMeant ==
  ASSUME IInv, AllMeant, NEW r \in Runs, Stop(r)
  PROVE  AllMeant'
<1>1. /\ runs'[r] = [stage |-> "refused"] /\ \A q \in Runs \ {r} : runs'[q] = runs[q]
      /\ folders' = folders
  BY DEF Stop, IInv
<1>2. ~Started(r)'
  BY <1>1 DEF Started
<1> QED
  BY <1>1, <1>2, OthersMeant

LEMMA StartMeant ==
  ASSUME IInv, AllMeant, NEW r \in Runs, NEW call \in Calls, NEW entry, NEW keys,
         Starts(r, call, entry, keys),
         call.command = "run-test" =>
           LET found == resolve_catalog_entry(read_catalog(Diagnostics[LetterOf(call)]).entries, call.test)
           IN  /\ LetterOf(call) \in DOMAIN Diagnostics
               /\ ~found.fails /\ entry = found.entry
               /\ keys = monitor_load_keys(entry.index, call.go, call.load_wait)
  PROVE  AllMeant'
<1>1. PICK folder : folder = FolderOf(call, entry)
  OBVIOUS
<1>2. CASE ~Free(folder)
  BY <1>1, <1>2, StopMeant DEF Starts
<1>3. CASE Free(folder)
  <2>1. /\ folders' = [n \in DOMAIN folders \cup {folder} |->
                        IF n = folder THEN [command |-> r, trace |-> {}, summary |-> {}]
                        ELSE folders[n]]
        /\ runs' = [runs EXCEPT ![r] = [stage |-> "mame", call |-> call, entry |-> entry,
                                        keys |-> keys, folder |-> folder]]
    BY <1>1, <1>3 DEF Starts
  <2>2. /\ runs'[r] = [stage |-> "mame", call |-> call, entry |-> entry, keys |-> keys,
                       folder |-> folder]
        /\ \A q \in Runs \ {r} : runs'[q] = runs[q]
    BY <2>1 DEF IInv
  <2>3. ASSUME NEW q \in Runs \ {r}, Started(q)
        PROVE  folders'[runs[q].folder] = folders[runs[q].folder]
    <3>1. runs[q].folder \in DOMAIN folders /\ runs[q].folder # folder
      BY <1>3, <2>3 DEF IInv, Owned, Free
    <3> QED
      BY <2>1, <3>1
  <2>4. runs'[r].stage = "mame" /\ runs'[r].call = call /\ runs'[r].entry = entry /\ runs'[r].keys = keys
    BY <2>2
  <2>5. call.command = "run-test" => Asked(r)'
    BY <2>4 DEF Asked
  <2>6. Meant(r)'
    BY <2>4, <2>5 DEF Meant
  <2> QED
    BY <2>2, <2>3, <2>6, OthersMeant
<1> QED
  BY <1>2, <1>3

LEMMA TestMeant ==
  ASSUME IInv, Collected, AllMeant, NEW r \in Runs, NEW call \in Calls, RunTest(r, call)
  PROVE  AllMeant'
<1>1. CASE Stop(r)
  BY <1>1, StopMeant
<1>2. CASE ~Stop(r)
  <2>1. PICK found : found = resolve_catalog_entry(json[LetterOf(call)], call.test)
    OBVIOUS
  <2>2. /\ json # NoCatalog /\ LetterOf(call) \in DOMAIN Diagnostics /\ ~found.fails
        /\ Starts(r, call, found.entry, monitor_load_keys(found.entry.index, call.go, call.load_wait))
    BY <1>2, <2>1 DEF RunTest
  <2>3. found = resolve_catalog_entry(read_catalog(Diagnostics[LetterOf(call)]).entries, call.test)
    BY <2>1, <2>2 DEF Collected
  <2> QED
    BY <2>2, <2>3, StartMeant
<1> QED
  BY <1>1, <1>2

\* What a step of a process that has a folder does to what the process has meant.
Moves(r, next, now) ==
  /\ runs' = [runs EXCEPT ![r].stage = next]
  /\ folders' = folders \/ folders' = [folders EXCEPT ![runs[r].folder] = now]
  /\ runs[r].call.command = "run-test" =>
       /\ next = "ended" => folders'[runs[r].folder].trace = Result(r)
       /\ next = "good" => folders'[runs[r].folder].summary = Result(r)

LEMMA OwnMeant ==
  ASSUME IInv, AllMeant, NEW r \in Runs, Started(r), NEW next, NEW now, Moves(r, next, now)
  PROVE  AllMeant'
<1> USE DEF Moves
<1>1. Owned(r) /\ Meant(r)
  BY DEF IInv, AllMeant
<1>2. runs'[r] = [runs[r] EXCEPT !.stage = next] /\ \A q \in Runs \ {r} : runs'[q] = runs[q]
  BY DEF IInv
<1>3. /\ runs'[r].stage = next /\ runs'[r].folder = runs[r].folder /\ runs'[r].call = runs[r].call
      /\ runs'[r].entry = runs[r].entry /\ runs'[r].keys = runs[r].keys
  BY <1>1, <1>2 DEF Owned, RunShape
<1>4. ASSUME NEW q \in Runs \ {r}, Started(q)
      PROVE  folders'[runs[q].folder] = folders[runs[q].folder]
  <2>1. runs[q].folder # runs[r].folder /\ runs[q].folder \in DOMAIN folders
    BY <1>4, OwnersDiffer DEF IInv, Owned
  <2> QED
    BY <2>1 DEF IInv
<1>5. Asked(r) => Asked(r)'
  BY <1>3 DEF Asked
<1>6. Result(r)' = Result(r)
  BY <1>3 DEF Result
<1>7. Meant(r)'
  BY <1>1, <1>3, <1>5, <1>6 DEF Meant
<1> QED
  BY <1>2, <1>4, <1>7, OthersMeant

LEMMA MameMeant ==
  ASSUME IInv, AllMeant, NEW r \in Runs, Mame(r)
  PROVE  AllMeant'
<1>0. Started(r) /\ Owned(r)
  BY DEF Mame, Started, IInv
<1>1. PICK folder : folder = runs[r].folder
  OBVIOUS
<1>2. CASE /\ folders' = [folders EXCEPT ![folder].trace =
                {[of |-> r, did |-> d] :
                   d \in IF runs[r].call.command = "dump"
                         THEN Dumped(runs[r].keys, runs[r].call, runs[r].call.seconds)
                         ELSE {Played(runs[r].keys, runs[r].call, runs[r].call.seconds)}}]
           /\ runs' = [runs EXCEPT ![r].stage = "ended"]
  <2>1. PICK left : left = {[of |-> r, did |-> d] :
                              d \in IF runs[r].call.command = "dump"
                                    THEN Dumped(runs[r].keys, runs[r].call, runs[r].call.seconds)
                                    ELSE {Played(runs[r].keys, runs[r].call, runs[r].call.seconds)}}
    OBVIOUS
  <2>2. folders' = [folders EXCEPT ![folder] = [folders[folder] EXCEPT !.trace = left]]
    BY <1>2, <2>1
  <2>3. folders'[folder].trace = left
    BY <1>0, <1>1, <2>2 DEF Owned, FolderShape
  <2>4. runs[r].call.command = "run-test" => left = Result(r)
    BY <2>1 DEF Result
  <2>5. Moves(r, "ended", [folders[folder] EXCEPT !.trace = left])
    BY <1>1, <1>2, <2>2, <2>3, <2>4 DEF Moves
  <2> QED
    BY <1>0, <2>5, OwnMeant
<1>3. CASE runs' = [runs EXCEPT ![r].stage = "broken"]
  <2>1. PICK now : folders' = folders \/ folders' = [folders EXCEPT ![folder] = now]
    BY <1>1 DEF Mame
  <2>2. Moves(r, "broken", now)
    BY <1>1, <1>3, <2>1 DEF Moves
  <2> QED
    BY <1>0, <2>2, OwnMeant
<1> QED
  BY <1>1, <1>2, <1>3 DEF Mame

LEMMA SummariseMeant ==
  ASSUME IInv, AllMeant, NEW r \in Runs, Summarise(r)
  PROVE  AllMeant'
<1>0. Started(r) /\ Owned(r) /\ Meant(r)
  BY DEF Summarise, Started, IInv, AllMeant
<1>1. PICK folder, good : /\ folder = runs[r].folder
                          /\ good = IF runs[r].stage = "ended" THEN "good" ELSE "bad"
  OBVIOUS
<1>2. CASE runs[r].call.command = "dump"
  <2>1. runs' = [runs EXCEPT ![r].stage = good] /\ folders' = folders
    BY <1>1, <1>2 DEF Summarise
  <2>2. Moves(r, good, {})
    BY <1>1, <1>2, <2>1 DEF Moves
  <2> QED
    BY <1>0, <2>2, OwnMeant
<1>3. CASE runs' = [runs EXCEPT ![r].stage = "failed"] /\ folders' = folders
  <2>1. Moves(r, "failed", {})
    BY <1>3 DEF Moves
  <2> QED
    BY <1>0, <2>1, OwnMeant
<1>4. CASE /\ folders' = [folders EXCEPT ![folder].summary = folders[folder].trace]
           /\ runs' = [runs EXCEPT ![r].stage = good]
  <2>1. PICK trace : trace = folders[folder].trace
    OBVIOUS
  <2>2. folders' = [folders EXCEPT ![folder] = [folders[folder] EXCEPT !.summary = trace]]
    BY <1>4, <2>1
  <2>3. folders'[folder].summary = trace
    BY <1>0, <1>1, <2>2 DEF Owned, FolderShape
  <2>4. good # "ended" /\ (good = "good" => runs[r].stage = "ended")
    BY <1>1
  <2>5. runs[r].call.command = "run-test" /\ good = "good" => trace = Result(r)
    BY <1>0, <1>1, <2>1, <2>4 DEF Meant
  <2>6. Moves(r, good, [folders[folder] EXCEPT !.summary = trace])
    BY <1>1, <1>4, <2>2, <2>3, <2>4, <2>5 DEF Moves
  <2> QED
    BY <1>0, <2>6, OwnMeant
<1> QED
  BY <1>1, <1>2, <1>3, <1>4 DEF Summarise

LEMMA AllMeantStep == IInv /\ Collected /\ AllMeant /\ [Next]_vars => AllMeant'
<1> SUFFICES ASSUME IInv, Collected, AllMeant, [Next]_vars PROVE AllMeant'
  OBVIOUS
<1>1. ASSUME NEW r \in Runs, NEW call \in Calls, RunKeys(r, call)
      PROVE  AllMeant'
  <2>1. call.command # "run-test" /\ Starts(r, call, [name |-> ""], call.keys)
    BY <1>1 DEF RunKeys
  <2> QED
    BY <2>1, StartMeant
<1>2. CASE Tick \/ Collect \/ UNCHANGED vars
  <2>1. runs' = runs /\ folders' = folders
    BY <1>2 DEF Tick, Collect, vars
  <2>2. \A r \in Runs : /\ Started(r)' = Started(r) /\ Result(r)' = Result(r)
                        /\ Asked(r)' = Asked(r)
    BY <2>1 DEF Started, Asked, Result
  <2> QED
    BY <2>1, <2>2 DEF AllMeant, Meant
<1> QED
  BY <1>1, <1>2, TestMeant, MameMeant, SummariseMeant DEF Next

LEMMA MeantIsRun ==
  ASSUME AllMeant
  PROVE  TestIsRun
<1> SUFFICES ASSUME NEW r \in Runs, runs[r].stage = "good", runs[r].call.command = "run-test",
                    Patient(runs[r].call), ~parse_catalog(Diagnostics[Inserted(runs[r].call)]).fails
             PROVE  LET call == runs[r].call
                        catalog == parse_catalog(Diagnostics[Inserted(call)])
                        wanted == find_entry(catalog.entries, call.test)
                    IN  \E t \in folders[runs[r].folder].summary :
                          /\ ~wanted.fails
                          /\ t.did.loaded = wanted.entry.index
                          /\ call.go => t.did.started = wanted.entry.index
  BY DEF TestIsRun
<1>1. PICK call, l, entries : /\ call = runs[r].call /\ l = LetterOf(call)
                              /\ entries = Records(Diagnostics[l])
  OBVIOUS
<1>2. Inserted(call) = l
  BY <1>1 DEF Inserted, LetterOf
<1>3. Asked(r) /\ folders[runs[r].folder].summary = Result(r)
  BY DEF AllMeant, Started, Meant
<1>4. call \in Calls /\ l \in DOMAIN Diagnostics
  BY <1>1, <1>3 DEF Asked
<1>5. parse_catalog(Diagnostics[l]).entries = entries /\ read_catalog(Diagnostics[l]).entries = entries
  BY <1>1, <1>2, <1>4, SameCatalog DEF Entries
<1>6. PICK wanted : wanted = find_entry(entries, call.test)
  OBVIOUS
<1>7. wanted = resolve_catalog_entry(entries, call.test)
  BY <1>6 DEF find_entry, resolve_catalog_entry
<1>8. ~wanted.fails /\ runs[r].entry = wanted.entry
  BY <1>1, <1>3, <1>5, <1>7 DEF Asked
<1>9. wanted.entry.index \in 0 .. 254
  <2>1. DOMAIN entries \in SUBSET Nat
    <3>1. Len(entries) \in Nat /\ DOMAIN entries = 1 .. Len(entries)
      BY <1>1, <1>4, RecordsAre
    <3> QED
      BY <3>1
  <2>2. PICK k \in DOMAIN entries : wanted = [fails |-> FALSE, entry |-> entries[k]]
    BY <1>6, <1>8, <2>1, FoundIsEntry
  <2>3. EntryIs(entries[k])
    BY <1>1, <1>4, <2>2, RecordsAre
  <2> QED
    BY <2>2, <2>3 DEF EntryIs
<1>10. PICK did : did = Played(monitor_load_keys(wanted.entry.index, call.go, call.load_wait),
                               call, call.seconds)
  OBVIOUS
<1>11. did.loaded = wanted.entry.index /\ (call.go => did.started = wanted.entry.index)
  BY <1>1, <1>4, <1>9, <1>10, TestPlays
<1>12. [of |-> r, did |-> did] \in folders[runs[r].folder].summary
  <2>1. runs[r].keys = monitor_load_keys(wanted.entry.index, call.go, call.load_wait)
    BY <1>1, <1>3, <1>8 DEF Asked
  <2> QED
    BY <1>1, <1>3, <1>10, <2>1 DEF Result
<1>13. find_entry(parse_catalog(Diagnostics[Inserted(runs[r].call)]).entries, runs[r].call.test) = wanted
  BY <1>1, <1>2, <1>5, <1>6
<1>14. \E t \in folders[runs[r].folder].summary :
         /\ ~wanted.fails
         /\ t.did.loaded = wanted.entry.index
         /\ call.go => t.did.started = wanted.entry.index
  BY <1>8, <1>11, <1>12
<1> QED
  BY <1>1, <1>13, <1>14

\* A run-test that is given the time it needs has loaded and started the program
\* that was asked for, whatever the disks, the names and the other processes.
THEOREM RunTestRunsIt == Spec => []TestIsRun
<1>1. Init => AllMeant
  BY DEF Init, Idle, AllMeant, Started
<1>2. Spec => []IInv
  BY InitIInv, NextStep, PTL DEF Spec
<1>3. Spec => []AllMeant
  BY <1>1, <1>2, CollectedAlways, AllMeantStep, PTL DEF Spec
<1> QED
  BY <1>3, MeantIsRun, PTL

------------------------------------------------------------------------------
(* The checkpointed runs *)

States == {"off", "load", "run", "saved", "clear", "copy"}

\* What holds of stages and sources at the end of Begin, and of files at all
\* times: no run without a saved source, and no files but those of the script.
Sources == \A j \in Jobs : pc[j] # "off" /\ from[j] # None => state[from[j]] # None

OnlyImages ==
  \A d \in Disks \ Images :
    /\ \A p \in Places : work[p][d] = Absent
    /\ \A s \in Stages : snap[s][d] = Absent

Queue ==
  \A j \in Jobs : todo[j] \subseteq Images /\ (todo[j] # {} => pc[j] \in {"load", "copy"})

\* What the user sees to, for the runs that are under way.
KeepApart ==
  \A j, k \in Jobs : j # k /\ pc[j] # "off" /\ pc[k] # "off" =>
    ~Shared /\ stage[j] # stage[k] /\ from[j] # stage[k]

Shape == TypeOK /\ Sources /\ OnlyImages /\ Queue /\ KeepApart

LEMMA ImagesAreDisks == Images \subseteq Disks /\ Images # {} /\ HardDisk \in Disks
BY DisksExist DEF Images

LEMMA InitShape == StageInit => Shape
<1> SUFFICES ASSUME StageInit PROVE Shape
  OBVIOUS
<1>1. (CHOOSE s \in Stages : TRUE) \in Stages
  BY StagesExist
<1>2. TypeOK
  BY <1>1, LimitsAreNat DEF StageInit, TypeOK, Files, NoFiles, Places
<1>3. Sources /\ Queue /\ KeepApart
  BY DEF StageInit, Sources, Queue, KeepApart
<1>4. OnlyImages
  BY DEF StageInit, OnlyImages, NoFiles, Places
<1> QED
  BY <1>2, <1>3, <1>4 DEF Shape

LEMMA PresentAreImages ==
  ASSUME TypeOK, OnlyImages
  PROVE  /\ \A s \in Stages : Present(snap[s]) \subseteq Images
         /\ \A p \in Places : Present(work[p]) \subseteq Images
BY DEF OnlyImages, Present

LEMMA PlaceOf ==
  ASSUME TypeOK, NEW j \in Jobs
  PROVE  Place(j) \in Places /\ stage[j] \in Stages
BY DEF TypeOK, Place, Places

\* The script of a run is not exchanged, and only a kill is counted.
LEMMA StepKeeps ==
  ASSUME [StageNext]_stageVars
  PROVE  script' = script /\ (kills' = kills \/ kills' = kills + 1)
<1>1. ASSUME NEW j \in Jobs, NEW s \in Stages, NEW f \in Stages \cup {None}, Begin(j, s, f)
      PROVE  script' = script /\ kills' = kills
  BY <1>1 DEF Begin
<1>2. ASSUME NEW j \in Jobs, NEW d \in Images, Load(j, d) \/ Write(j, d) \/ Copy(j, d)
      PROVE  script' = script /\ kills' = kills
  BY <1>2 DEF Load, Write, Copy
<1>3. ASSUME NEW j \in Jobs, Boot(j) \/ Save(j) \/ Exit(j) \/ Clear(j) \/ End(j)
      PROVE  script' = script /\ kills' = kills
  BY <1>3 DEF Boot, Save, Exit, Clear, End
<1>4. ASSUME NEW j \in Jobs, Kill(j)
      PROVE  script' = script /\ kills' = kills + 1
  BY <1>4 DEF Kill
<1>5. CASE UNCHANGED stageVars
  BY <1>5 DEF stageVars
<1> QED
  BY <1>1, <1>2, <1>3, <1>4, <1>5 DEF StageNext

LEMMA TypeStep == Shape /\ [StageNext]_stageVars => TypeOK'
<1> SUFFICES ASSUME Shape, [StageNext]_stageVars PROVE TypeOK'
  OBVIOUS
<1>0. TypeOK /\ Sources /\ Queue
  BY DEF Shape
<1>a. Images \subseteq Disks
  BY ImagesAreDisks
<1>b. NoFiles \in [Disks -> Files]
  BY DEF NoFiles, Files
<1>1. ASSUME NEW j \in Jobs, NEW s \in Stages, NEW f \in Stages \cup {None}, Begin(j, s, f)
      PROVE  TypeOK'
  <2>1. work' \in [Places -> [Disks -> Files]]
    BY <1>0, <1>1, <1>b DEF Begin, TypeOK, Places
  <2>2. pc' \in [Jobs -> States] /\ todo' \in [Jobs -> SUBSET Disks]
    <3>1. (IF f = None THEN Images ELSE Present(snap[f])) \in SUBSET Disks
      BY <1>a DEF Present
    <3> QED
      BY <1>0, <1>1, <3>1 DEF Begin, TypeOK, States
  <2>3. /\ stage' \in [Jobs -> Stages] /\ from' \in [Jobs -> Stages \cup {None}]
        /\ begun' \in 0 .. MaxRuns /\ number' \in [Jobs -> 0 .. MaxRuns]
    BY <1>0, <1>1, LimitsAreNat DEF Begin, TypeOK
  <2> QED
    BY <1>0, <1>1, <2>1, <2>2, <2>3 DEF Begin, TypeOK, States
<1>2. ASSUME NEW j \in Jobs, NEW d \in Images, Load(j, d)
      PROVE  TypeOK'
  <2>1. (IF from[j] = None THEN 0 ELSE snap[from[j]][d].disk) \in Files
    BY <1>0, <1>2, <1>a DEF Load, TypeOK, Files, Copies
  <2>2. work' \in [Places -> [Disks -> Files]]
    BY <1>0, <1>2, <1>a, <2>1, PlaceOf DEF Load, TypeOK
  <2> QED
    BY <1>0, <1>2, <2>2 DEF Load, TypeOK
<1>3. ASSUME NEW j \in Jobs, NEW d \in Images, Write(j, d)
      PROVE  TypeOK'
  <2>1. writes + 1 \in Files /\ writes' \in 0 .. MaxWrites
    BY <1>0, <1>3, LimitsAreNat DEF Write, TypeOK, Files
  <2>2. work' \in [Places -> [Disks -> Files]] /\ mem' \in [Jobs -> [Disks -> Files]]
    BY <1>0, <1>3, <1>a, <2>1, PlaceOf DEF Write, TypeOK
  <2> QED
    BY <1>0, <1>3, <2>1, <2>2 DEF Write, TypeOK
<1>4. ASSUME NEW j \in Jobs, NEW d \in Images, Copy(j, d)
      PROVE  TypeOK'
  <2>1. [disk |-> work[Place(j)][d], run |-> number[j]] \in Copies
    BY <1>0, <1>a, PlaceOf, LimitsAreNat DEF TypeOK, Copies
  <2>2. snap' \in [Stages -> [Disks -> Copies \cup {Absent}]]
    BY <1>0, <1>4, <1>a, <2>1, PlaceOf DEF Copy, TypeOK
  <2> QED
    BY <1>0, <1>4, <2>2 DEF Copy, TypeOK
<1>5. ASSUME NEW j \in Jobs, Boot(j)
      PROVE  TypeOK'
  <2>1. (IF from[j] = None THEN work[Place(j)] ELSE state[from[j]]) \in [Disks -> Files]
    BY <1>0, <1>5, PlaceOf DEF Boot, Goto, TypeOK, Sources
  <2> QED
    BY <1>0, <1>5, <2>1 DEF Boot, Goto, TypeOK
<1>6. ASSUME NEW j \in Jobs, Save(j)
      PROVE  TypeOK'
  BY <1>0, <1>6 DEF Save, Goto, TypeOK
<1>7. ASSUME NEW j \in Jobs, Exit(j)
      PROVE  TypeOK'
  <2>1. Present(work[Place(j)]) \in SUBSET Disks
    BY DEF Present
  <2> QED
    BY <1>0, <1>7, <2>1 DEF Exit, TypeOK
<1>8. ASSUME NEW j \in Jobs, Clear(j)
      PROVE  TypeOK'
  <2>1. Present(work[Place(j)]) \in SUBSET Disks /\ Present(snap[stage[j]]) \subseteq Disks
    BY DEF Present
  <2>2. snap' \in [Stages -> [Disks -> Copies \cup {Absent}]]
    <3>1. ASSUME NEW d \in Disks
          PROVE  [snap EXCEPT ![stage[j]][d] = Absent]
                   \in [Stages -> [Disks -> Copies \cup {Absent}]]
      BY <1>0, PlaceOf DEF TypeOK
    <3>2. \/ snap' = snap
          \/ \E d \in Disks : snap' = [snap EXCEPT ![stage[j]][d] = Absent]
      BY <1>8, <2>1 DEF Clear
    <3>3. snap \in [Stages -> [Disks -> Copies \cup {Absent}]]
      BY <1>0 DEF TypeOK
    <3> QED
      BY <3>1, <3>2, <3>3
  <2>3. pc' \in [Jobs -> States]
    <3>1. pc' = [pc EXCEPT ![j] = "copy"] \/ pc' = pc
      BY <1>8 DEF Clear, Goto
    <3>2. pc \in [Jobs -> States]
      BY <1>0 DEF TypeOK, States
    <3> QED
      BY <3>1, <3>2 DEF States
  <2>4. todo' \in [Jobs -> SUBSET Disks]
    <3>1. todo' = todo \/ todo' = [todo EXCEPT ![j] = Present(work[Place(j)])]
      BY <1>8 DEF Clear
    <3>2. todo \in [Jobs -> SUBSET Disks]
      BY <1>0 DEF TypeOK
    <3> QED
      BY <2>1, <3>1, <3>2
  <2> QED
    BY <1>0, <1>8, <2>2, <2>3, <2>4 DEF Clear, TypeOK, States
<1>9. ASSUME NEW j \in Jobs, End(j)
      PROVE  TypeOK'
  BY <1>0, <1>9 DEF End, Goto, TypeOK
<1>10. ASSUME NEW j \in Jobs, Kill(j)
      PROVE  TypeOK'
  BY <1>0, <1>10, LimitsAreNat DEF Kill, TypeOK
<1>11. CASE UNCHANGED stageVars
  BY <1>0, <1>11 DEF TypeOK, stageVars
<1> QED
  BY <1>1, <1>2, <1>3, <1>4, <1>5, <1>6, <1>7, <1>8, <1>9, <1>10, <1>11 DEF StageNext

LEMMA ShapeStep == Shape /\ [StageNext]_stageVars => Shape'
<1> SUFFICES ASSUME Shape, [StageNext]_stageVars PROVE Shape'
  OBVIOUS
<1>0. TypeOK /\ Sources /\ OnlyImages /\ Queue /\ KeepApart
  BY DEF Shape
<1>t. TypeOK'
  BY TypeStep
<1>i. Images \subseteq Disks
  BY ImagesAreDisks
<1>s. (Images' = Images) /\ (Shared' <=> Shared)
  <2>1. script' = script
    BY StepKeeps
  <2> QED
    BY <2>1 DEF Images, Shared
<1>p. /\ \A s \in Stages : Present(snap[s]) \subseteq Images
      /\ \A p \in Places : Present(work[p]) \subseteq Images
  BY <1>0, PresentAreImages
<1>1. ASSUME NEW j \in Jobs, NEW s \in Stages, NEW f \in Stages \cup {None}, Begin(j, s, f)
      PROVE  Sources' /\ OnlyImages' /\ Queue' /\ KeepApart'
  <2>1. Sources'
    BY <1>0, <1>1 DEF Begin, TypeOK, Sources
  <2>2. OnlyImages'
    BY <1>0, <1>1, <1>s DEF Begin, TypeOK, OnlyImages, NoFiles
  <2>3. Queue'
    <3>1. (IF f = None THEN Images ELSE Present(snap[f])) \subseteq Images
      BY <1>p
    <3>2. UNCHANGED <<pc, todo>> => Queue'
      BY <1>0, <1>s DEF Queue
    <3>3. \A k \in Jobs \ {j} : todo'[k] = todo[k] /\ pc'[k] = pc[k]
      BY <1>0, <1>1 DEF Begin, TypeOK
    <3>4. pc' # pc => todo'[j] \subseteq Images /\ pc'[j] = "load"
      BY <1>0, <1>1, <3>1 DEF Begin, TypeOK
    <3>5. pc[j] # "load"
      BY <1>1 DEF Begin
    <3>6. pc' = pc => UNCHANGED <<pc, todo>>
      BY <1>0, <1>1, <3>5 DEF Begin, TypeOK
    <3> QED
      BY <1>0, <1>s, <3>2, <3>3, <3>4, <3>6 DEF Queue
  <2>4. KeepApart'
    <3>1. \A k \in Jobs \ {j} : /\ pc'[k] = pc[k] /\ stage'[k] = stage[k] /\ from'[k] = from[k]
                                /\ pc[k] # "off" => ~Shared /\ s # stage[k] /\ s # from[k]
                                                    /\ f # stage[k]
      BY <1>0, <1>1 DEF Begin, TypeOK, Apart
    <3>2. stage'[j] = s /\ from'[j] = f
      BY <1>0, <1>1 DEF Begin, TypeOK
    <3> QED
      BY <1>0, <1>s, <3>1, <3>2 DEF KeepApart
  <2> QED
    BY <2>1, <2>2, <2>3, <2>4
<1>2. ASSUME NEW j \in Jobs, NEW d \in Images, Load(j, d)
      PROVE  Sources' /\ OnlyImages' /\ Queue' /\ KeepApart'
  <2>1. OnlyImages'
    BY <1>0, <1>2, <1>s, PlaceOf DEF Load, TypeOK, OnlyImages
  <2>2. Queue'
    BY <1>0, <1>2, <1>s DEF Load, TypeOK, Queue
  <2> QED
    BY <1>0, <1>2, <1>s, <2>1, <2>2 DEF Load, Sources, KeepApart
<1>3. ASSUME NEW j \in Jobs, NEW d \in Images, Write(j, d)
      PROVE  Sources' /\ OnlyImages' /\ Queue' /\ KeepApart'
  <2>1. OnlyImages'
    BY <1>0, <1>3, <1>s, PlaceOf DEF Write, TypeOK, OnlyImages
  <2> QED
    BY <1>0, <1>3, <1>s, <2>1 DEF Write, Sources, KeepApart, Queue
<1>4. ASSUME NEW j \in Jobs, NEW d \in Images, Copy(j, d)
      PROVE  Sources' /\ OnlyImages' /\ Queue' /\ KeepApart'
  <2>1. OnlyImages'
    BY <1>0, <1>4, <1>s, PlaceOf DEF Copy, TypeOK, OnlyImages
  <2>2. Queue'
    BY <1>0, <1>4, <1>s DEF Copy, TypeOK, Queue
  <2> QED
    BY <1>0, <1>4, <1>s, <2>1, <2>2 DEF Copy, Sources, KeepApart
<1>5. ASSUME NEW j \in Jobs, Boot(j)
      PROVE  Sources' /\ OnlyImages' /\ Queue' /\ KeepApart'
  BY <1>0, <1>5, <1>s DEF Boot, Goto, TypeOK, Sources, OnlyImages, Queue, KeepApart
<1>6. ASSUME NEW j \in Jobs, Save(j)
      PROVE  Sources' /\ OnlyImages' /\ Queue' /\ KeepApart'
  <2>1. mem[j] # None
    BY <1>0, DisksExist DEF TypeOK, Files
  <2>2. Sources'
    BY <1>0, <1>6, <2>1 DEF Save, Goto, TypeOK, Sources
  <2> QED
    BY <1>0, <1>6, <1>s, <2>2 DEF Save, Goto, TypeOK, OnlyImages, Queue, KeepApart
<1>7. ASSUME NEW j \in Jobs, Exit(j)
      PROVE  Sources' /\ OnlyImages' /\ Queue' /\ KeepApart'
  <2>1. Present(work[Place(j)]) \subseteq Images
    BY <1>0, <1>p, PlaceOf
  <2>2. Queue'
    BY <1>0, <1>7, <1>s, <2>1 DEF Exit, TypeOK, Queue
  <2>3. pc[j] # "off" /\ \A k \in Jobs \ {j} : pc'[k] = pc[k]
    BY <1>0, <1>7 DEF Exit, TypeOK
  <2>4. Sources' /\ KeepApart'
    BY <1>0, <1>7, <1>s, <2>3 DEF Exit, Sources, KeepApart
  <2>5. OnlyImages'
    BY <1>0, <1>7, <1>s DEF Exit, OnlyImages
  <2> QED
    BY <2>2, <2>4, <2>5
<1>8. ASSUME NEW j \in Jobs, Clear(j)
      PROVE  Sources' /\ OnlyImages' /\ Queue' /\ KeepApart'
  <2>1. Present(work[Place(j)]) \subseteq Images
    BY <1>0, <1>p, PlaceOf
  <2>2. Queue'
    BY <1>0, <1>8, <1>s, <2>1 DEF Clear, TypeOK, Queue
  <2>3. pc[j] # "off" /\ \A k \in Jobs \ {j} : pc'[k] = pc[k]
    BY <1>0, <1>8 DEF Clear, TypeOK
  <2>4. Sources' /\ KeepApart'
    BY <1>0, <1>8, <1>s, <2>3 DEF Clear, Sources, KeepApart
  <2>5. OnlyImages'
    <3>1. \A s \in Stages, d \in Disks : snap'[s][d] \in {snap[s][d], Absent}
      <4>1. \/ snap' = snap
            \/ \E e \in Disks : snap' = [snap EXCEPT ![stage[j]][e] = Absent]
        BY <1>8 DEF Clear, Present
      <4>2. ASSUME NEW e \in Disks, NEW s \in Stages, NEW d \in Disks
            PROVE  [snap EXCEPT ![stage[j]][e] = Absent][s][d] \in {snap[s][d], Absent}
        BY <1>0, PlaceOf DEF TypeOK
      <4> QED
        BY <4>1, <4>2
    <3> QED
      BY <1>0, <1>8, <1>s, <3>1 DEF Clear, OnlyImages
  <2> QED
    BY <2>2, <2>4, <2>5
<1>9. ASSUME NEW j \in Jobs, End(j)
      PROVE  Sources' /\ OnlyImages' /\ Queue' /\ KeepApart'
  BY <1>0, <1>9, <1>s DEF End, Goto, TypeOK, Sources, OnlyImages, Queue, KeepApart
<1>10. ASSUME NEW j \in Jobs, Kill(j)
      PROVE  Sources' /\ OnlyImages' /\ Queue' /\ KeepApart'
  BY <1>0, <1>10, <1>s DEF Kill, TypeOK, Sources, OnlyImages, Queue, KeepApart
<1>11. CASE UNCHANGED stageVars
  <2>1. Sources' /\ KeepApart'
    BY <1>0, <1>11, <1>s DEF stageVars, Sources, KeepApart
  <2>2. OnlyImages' /\ Queue'
    BY <1>0, <1>11, <1>s DEF stageVars, OnlyImages, Queue
  <2> QED
    BY <1>t, <2>1, <2>2 DEF Shape
<1> QED
  BY <1>t, <1>1, <1>2, <1>3, <1>4, <1>5, <1>6, <1>7, <1>8, <1>9, <1>10, <1>11 DEF StageNext, Shape

\* Every variable of the runs and of the store has its type.
THEOREM TypeCorrect == StageSpec => []TypeOK
<1>1. StageSpec => []Shape
  BY InitShape, ShapeStep, PTL DEF StageSpec
<1>2. Shape => TypeOK
  BY DEF Shape
<1> QED
  BY <1>1, <1>2, PTL
------------------------------------------------------------------------------

\* A run that is copying has copied all that is there of its stage; hdrun.sh has
\* one file only.
OneRun ==
  /\ OneRunPerSnapshot
  /\ \A j \in Jobs : pc[j] = "copy" /\ Shared =>
       \A d \in Present(snap[stage[j]]) : snap[stage[j]][d].run = number[j]

LEMMA OneRunStep == Shape /\ OneRun /\ [StageNext]_stageVars => OneRun'
<1> SUFFICES ASSUME Shape, OneRun, [StageNext]_stageVars PROVE OneRun'
  OBVIOUS
<1>0. TypeOK /\ OnlyImages /\ KeepApart /\ OneRun
  BY DEF Shape
<1>s. Shared' <=> Shared
  <2>1. script' = script
    BY StepKeeps
  <2> QED
    BY <2>1 DEF Shared
<1>a. \A j \in Jobs : stage[j] \in Stages
  BY <1>0 DEF TypeOK
\* The steps that leave the store alone, and begin no copying.
<1>1. ASSUME snap' = snap,
             \A j \in Jobs : pc'[j] = "copy" =>
               pc[j] = "copy" /\ stage'[j] = stage[j] /\ number'[j] = number[j]
      PROVE  OneRun'
  BY <1>0, <1>1, <1>s DEF OneRun, OneRunPerSnapshot, Present
<1>2. ASSUME NEW j \in Jobs, Clear(j)
      PROVE  OneRun'
  <2>1. \A k \in Jobs \ {j} : Shared => pc'[k] = "off"
    BY <1>0, <1>2 DEF Clear, KeepApart, TypeOK
  <2>2. CASE /\ Present(snap[stage[j]]) = {}
             /\ snap' = snap
    <3>1. stage' = stage /\ number' = number
      BY <1>2 DEF Clear
    <3> QED
      BY <1>0, <1>s, <2>1, <2>2, <3>1 DEF OneRun, OneRunPerSnapshot, Present
  <2>3. ASSUME NEW e \in Disks, pc' = pc, snap' = [snap EXCEPT ![stage[j]][e] = Absent]
        PROVE  OneRun'
    <3>1. \A s \in Stages : \A d \in Present(snap[s])' :
            d \in Present(snap[s]) /\ snap'[s][d] = snap[s][d]
      BY <1>0, <1>a, <2>3 DEF TypeOK, Present
    <3>2. OneRunPerSnapshot'
      BY <1>0, <3>1 DEF OneRun, OneRunPerSnapshot
    <3>3. \A k \in Jobs : Shared => pc'[k] # "copy"
      BY <1>0, <1>2, <2>1, <2>3 DEF Clear
    <3> QED
      BY <1>s, <3>2, <3>3 DEF OneRun
  <2> QED
    BY <1>2, <2>2, <2>3 DEF Clear, Present
<1>3. ASSUME NEW j \in Jobs, NEW d \in Images, Copy(j, d)
      PROVE  OneRun'
  <2>1. d \in Disks
    BY ImagesAreDisks
  <2>2. \A s \in Stages : s # stage[j] => snap'[s] = snap[s]
    BY <1>0, <1>3 DEF Copy, TypeOK
  <2>3. \A e \in Disks : e # d => snap'[stage[j]][e] = snap[stage[j]][e]
    BY <1>0, <1>3, <1>a, <2>1 DEF Copy, TypeOK
  <2>4. snap'[stage[j]][d].run = number[j]
    <3>1. snap'[stage[j]][d] = [disk |-> work[Place(j)][d], run |-> number[j]]
      BY <1>0, <1>3, <1>a, <2>1 DEF Copy, TypeOK
    <3> QED
      BY <3>1
  <2>5. CASE Shared
    <3>1. \A e \in Present(snap[stage[j]])' : snap'[stage[j]][e].run = number[j]
      BY <1>0, <1>3, <2>3, <2>4, <2>5 DEF Copy, OneRun, Present
    <3>2. \A k \in Jobs : k # j => pc'[k] # "copy"
      BY <1>0, <1>3, <2>5 DEF Copy, KeepApart
    <3>3. stage' = stage /\ number' = number
      BY <1>3 DEF Copy
    <3>4. OneRunPerSnapshot'
      BY <1>0, <2>2, <3>1, <3>3 DEF OneRun, OneRunPerSnapshot, Present
    <3> QED
      BY <3>1, <3>2, <3>3, <3>4 DEF OneRun
  <2>6. CASE ~Shared
    <3>1. OnlyImages'
      BY ShapeStep DEF Shape
    <3>2. \A s \in Stages : Present(snap[s])' \subseteq {HardDisk}
      BY <1>s, <2>6, <3>1 DEF OnlyImages, Images, Present
    <3> QED
      BY <1>s, <2>6, <3>2 DEF OneRun, OneRunPerSnapshot
  <2> QED
    BY <2>5, <2>6
<1>4. ASSUME NEW j \in Jobs, Exit(j)
      PROVE  OneRun'
  <2>1. Shared => pc' = [pc EXCEPT ![j] = "clear"]
    BY <1>4 DEF Exit
  <2>2. Shared => \A k \in Jobs : pc'[k] = "copy" => pc[k] = "copy"
    BY <1>0, <2>1 DEF TypeOK
  <2> QED
    BY <1>0, <1>4, <1>s, <2>2 DEF Exit, OneRun, OneRunPerSnapshot, Present
<1>5. ASSUME NEW j \in Jobs, NEW s \in Stages, NEW f \in Stages \cup {None}, Begin(j, s, f)
      PROVE  OneRun'
  BY <1>0, <1>1, <1>5 DEF Begin, TypeOK
<1>6. ASSUME NEW j \in Jobs, NEW d \in Images, Load(j, d) \/ Write(j, d)
      PROVE  OneRun'
  BY <1>1, <1>6 DEF Load, Write
<1>7. ASSUME NEW j \in Jobs, Boot(j) \/ Save(j) \/ End(j)
      PROVE  OneRun'
  BY <1>0, <1>1, <1>7 DEF Boot, Save, End, Goto, TypeOK
<1>8. ASSUME NEW j \in Jobs, Kill(j)
      PROVE  OneRun'
  BY <1>0, <1>1, <1>8 DEF Kill, TypeOK
<1>9. CASE UNCHANGED stageVars
  BY <1>1, <1>9 DEF stageVars
<1> QED
  BY <1>2, <1>3, <1>4, <1>5, <1>6, <1>7, <1>8, <1>9 DEF StageNext

\* The disks that the store has of a stage come from one run, however many runs
\* end early.
THEOREM SnapshotsOfOneRun == StageSpec => []OneRunPerSnapshot
<1>1. StageInit => OneRun
  BY DisksExist DEF StageInit, OneRun, OneRunPerSnapshot, Present, NoFiles
<1>2. OneRun => OneRunPerSnapshot
  BY DEF OneRun
<1> QED
  BY <1>1, <1>2, InitShape, ShapeStep, OneRunStep, PTL DEF StageSpec
------------------------------------------------------------------------------

\* Work disks w and what the machine remembers, m: never older than remembered,
\* and the same if nothing was written after the state was saved (quiet).
Match(w, m, quiet) ==
  \A d \in Disks :
    IF d \in Images
    THEN /\ w[d] \in Nat /\ m[d] \in Nat
         /\ m[d] <= w[d] /\ w[d] <= writes
         /\ quiet => w[d] = m[d]
    ELSE w[d] = Absent /\ m[d] = Absent

Saving == {"saved", "clear", "copy"}

\* A stage that was saved, and that no run is about to save again.
StageOK(s) ==
  state[s] # None /\ (\A j \in Jobs : pc[j] \in Saving => stage[j] # s)
  => Match(SnapOf(s), state[s], s \notin late)

\* A run that loads has so far what its source has; one that runs remembers its
\* disks; one that saves has the disks of its state, and the store has those that
\* it has copied.
Loading(j) ==
  pc[j] = "load" =>
    \A d \in Images \ todo[j] :
      work[Place(j)][d] = IF from[j] = None THEN 0 ELSE SnapOf(from[j])[d]

Running(j) == pc[j] = "run" => Match(work[Place(j)], mem[j], from[j] \notin late)

SavingOK(j) ==
  pc[j] \in Saving => Match(work[Place(j)], state[stage[j]], stage[j] \notin late)

Copying(j) ==
  pc[j] = "copy" =>
    \A d \in Images \ todo[j] : SnapOf(stage[j])[d] = work[Place(j)][d]

JobOK(j) == Loading(j) /\ Running(j) /\ SavingOK(j) /\ Copying(j)

Stored == kills = 0 => (\A s \in Stages : StageOK(s)) /\ (\A j \in Jobs : JobOK(j))

\* A stage that a step leaves alone.
LEMMA StageStays ==
  ASSUME TypeOK, TypeOK', script' = script, writes <= writes',
         NEW s \in Stages, StageOK(s),
         state'[s] = state[s], snap'[s] = snap[s], s \in late' <=> s \in late,
         \A j \in Jobs : pc[j] \in Saving /\ stage[j] = s =>
                           pc'[j] \in Saving /\ stage'[j] = s
  PROVE  StageOK(s)'
<1> SUFFICES ASSUME state'[s] # None, \A j \in Jobs : pc'[j] \in Saving => stage'[j] # s
             PROVE  Match(SnapOf(s), state[s], s \notin late)'
  BY DEF StageOK
<1>1. Match(SnapOf(s), state[s], s \notin late)
  BY DEF StageOK
<1>2. SnapOf(s)' = SnapOf(s)
  BY DEF SnapOf
<1>3. Images' = Images
  BY DEF Images, Shared
<1>4. writes \in Nat /\ writes' \in Nat
  BY LimitsAreNat DEF TypeOK
<1> QED
  BY <1>1, <1>2, <1>3, <1>4 DEF Match

\* Other runs than j, in a step of j that changes only the work folder of j and
\* the stage of j.
Others(j) ==
  /\ script' = script /\ writes <= writes'
  /\ \A k \in Jobs \ {j} :
       /\ pc'[k] = pc[k] /\ stage'[k] = stage[k] /\ from'[k] = from[k]
       /\ todo'[k] = todo[k] /\ mem'[k] = mem[k]
       /\ pc[k] # "off" => ~Shared /\ stage[k] # stage'[j] /\ from[k] # stage'[j]
  /\ \A p \in Places : p # Place(j)' => work'[p] = work[p]
  /\ \A s \in Stages : s # stage'[j] =>
       state'[s] = state[s] /\ snap'[s] = snap[s] /\ (s \in late' <=> s \in late)

LEMMA OthersStay ==
  ASSUME Shape, Shape', NEW j \in Jobs, Others(j), NEW k \in Jobs \ {j}, JobOK(k)
  PROVE  JobOK(k)'
<1>0. TypeOK /\ TypeOK'
  BY DEF Shape
<1>1. CASE pc[k] = "off"
  BY <1>1 DEF Others, JobOK, Loading, Running, SavingOK, Copying, Saving
<1>2. CASE pc[k] # "off"
  <2>1. ~Shared /\ ~Shared' /\ Place(k) = stage[k] /\ Place(k)' = stage[k] /\ Place(j)' = stage'[j]
    BY <1>2 DEF Others, Place, Shared
  <2>2. stage[k] \in Stages /\ from[k] \in Stages \cup {None} /\ stage[k] \in Places
    BY <1>0 DEF TypeOK, Places
  <2>3. /\ work'[stage[k]] = work[stage[k]]
        /\ state'[stage[k]] = state[stage[k]] /\ SnapOf(stage[k])' = SnapOf(stage[k])
        /\ stage[k] \in late' <=> stage[k] \in late
    BY <1>2, <2>1, <2>2 DEF Others, SnapOf
  <2>4. from[k] # None => SnapOf(from[k])' = SnapOf(from[k])
    BY <1>2, <2>2 DEF Others, SnapOf
  <2>5. from[k] \in late' <=> from[k] \in late
    BY <1>0, <1>2, <2>2, StagesExist DEF Others, TypeOK
  <2>6. Images' = Images
    BY DEF Images, Shared, Others
  <2>7. writes \in Nat /\ writes' \in Nat /\ writes <= writes'
    BY <1>0, LimitsAreNat DEF TypeOK, Others
  <2>8. pc'[k] = pc[k] /\ stage'[k] = stage[k] /\ from'[k] = from[k] /\ todo'[k] = todo[k]
        /\ mem'[k] = mem[k]
    BY DEF Others
  <2>9. Loading(k)'
    BY <2>1, <2>3, <2>4, <2>6, <2>8 DEF JobOK, Loading
  <2>10. Running(k)'
    BY <2>1, <2>3, <2>5, <2>6, <2>7, <2>8 DEF JobOK, Running, Match
  <2>11. SavingOK(k)'
    BY <2>1, <2>3, <2>6, <2>7, <2>8 DEF JobOK, SavingOK, Match
  <2>12. Copying(k)'
    BY <2>1, <2>3, <2>6, <2>8 DEF JobOK, Copying
  <2> QED
    BY <2>9, <2>10, <2>11, <2>12 DEF JobOK
<1> QED
  BY <1>1, <1>2

\* The stages that j does not save.
LEMMA OtherStagesStay ==
  ASSUME Shape, Shape', NEW j \in Jobs, Others(j),
         pc[j] \in Saving => stage'[j] = stage[j],
         NEW s \in Stages, s # stage'[j], StageOK(s)
  PROVE  StageOK(s)'
<1>1. \A k \in Jobs : pc[k] \in Saving /\ stage[k] = s => pc'[k] \in Saving /\ stage'[k] = s
  BY DEF Others
<1> QED
  BY <1>1, StageStays DEF Shape, Others

LEMMA OthersAre ==
  ASSUME Shape, NEW j \in Jobs, stage'[j] = stage[j], pc[j] # "off"
  PROVE  \A k \in Jobs \ {j} :
           pc[k] # "off" => ~Shared /\ stage[k] # stage'[j] /\ from[k] # stage'[j]
BY DEF Shape, KeepApart

\* Without killed runs the store and the work folders stay in step with what the
\* machines remember.
LEMMA StoredStep == Shape /\ Stored /\ [StageNext]_stageVars => Stored'
<1> SUFFICES ASSUME Shape, Stored, [StageNext]_stageVars, kills' = 0
             PROVE  (\A s \in Stages : StageOK(s))' /\ (\A j \in Jobs : JobOK(j))'
  BY DEF Stored
<1>0. Shape' /\ TypeOK /\ TypeOK' /\ OnlyImages /\ KeepApart /\ Queue /\ Sources
  BY ShapeStep DEF Shape
<1>k. kills = 0
  <2>1. kills' = kills \/ kills' = kills + 1
    BY StepKeeps
  <2> QED
    BY <1>0, <2>1, LimitsAreNat DEF TypeOK
<1>i. (\A s \in Stages : StageOK(s)) /\ (\A j \in Jobs : JobOK(j))
  BY <1>k DEF Stored
<1>t. writes \in Nat /\ writes <= writes /\ Images \subseteq Disks /\ Images # {}
  BY <1>0, LimitsAreNat, ImagesAreDisks DEF TypeOK
<1>l. None \notin late
  BY <1>0, StagesExist DEF TypeOK
\* A step of j that leaves its stage to itself, or leaves it as it is.
<1>f. ASSUME NEW j \in Jobs, Others(j), pc[j] \in Saving => stage'[j] = stage[j],
             JobOK(j)', \A s \in Stages : s = stage'[j] => StageOK(s)'
      PROVE  (\A s \in Stages : StageOK(s))' /\ (\A k \in Jobs : JobOK(k))'
  <2>1. \A s \in Stages : s # stage'[j] => StageOK(s)'
    BY <1>0, <1>i, <1>f, OtherStagesStay
  <2>2. \A k \in Jobs \ {j} : JobOK(k)'
    BY <1>0, <1>i, <1>f, OthersStay
  <2>3. \A s \in Stages : StageOK(s)'
    BY <1>f, <2>1
  <2>4. \A k \in Jobs : JobOK(k)'
    BY <1>f, <2>2
  <2> QED
    BY <2>3, <2>4
<1>1. ASSUME NEW j \in Jobs, NEW s \in Stages, NEW f \in Stages \cup {None}, Begin(j, s, f)
      PROVE  (\A r \in Stages : StageOK(r))' /\ (\A k \in Jobs : JobOK(k))'
  <2>1. /\ stage'[j] = s /\ from'[j] = f /\ pc[j] = "off"
        /\ script' = script /\ writes' = writes /\ state' = state /\ snap' = snap /\ late' = late
        /\ Shared' = Shared
    BY <1>0, <1>1 DEF Begin, TypeOK, Shared
  <2>2. Others(j)
    <3>1. \A k \in Jobs \ {j} :
            /\ pc'[k] = pc[k] /\ stage'[k] = stage[k] /\ from'[k] = from[k]
            /\ todo'[k] = todo[k] /\ mem'[k] = mem[k]
            /\ pc[k] # "off" => ~Shared /\ stage[k] # s /\ from[k] # s
      BY <1>0, <1>1 DEF Begin, TypeOK, Apart
    <3>2. \A p \in Places : p # Place(j)' => work'[p] = work[p]
      BY <1>0, <1>1, <2>1 DEF Begin, TypeOK, Place
    <3> QED
      BY <1>t, <2>1, <3>1, <3>2 DEF Others
  <2>3. f # None => Images \subseteq Present(snap[f])
    <3> SUFFICES ASSUME f # None PROVE Images \subseteq Present(snap[f])
      OBVIOUS
    <3>1. f \in Stages /\ state[f] # None /\ \A k \in Jobs : pc[k] \in Saving => stage[k] # f
      BY <1>1, <2>1 DEF Begin, Apart, Saving
    <3>2. Match(SnapOf(f), state[f], f \notin late)
      BY <1>i, <3>1 DEF StageOK
    <3>3. \A d \in Images : SnapOf(f)[d] \in Nat
      BY <1>t, <3>2 DEF Match
    <3>4. \A d \in Images : snap[f][d] # Absent
      BY <1>t, <3>3, DisksExist DEF SnapOf, DiskOf
    <3> QED
      BY <1>t, <3>4 DEF Present
  <2>4. pc'[j] = "load" /\ Images \subseteq todo'[j]
    <3>1. (IF f = None THEN Images ELSE Present(snap[f])) # {}
      BY <1>t, <2>3
    <3> QED
      BY <1>0, <1>1, <2>3, <3>1 DEF Begin, TypeOK
  <2>5. JobOK(j)'
    <3>1. Images' = Images
      BY <2>1 DEF Images
    <3> QED
      BY <2>4, <3>1 DEF JobOK, Loading, Running, SavingOK, Copying, Saving
  <2>6. StageOK(s)'
    <3>1. \A k \in Jobs : pc[k] \in Saving => k # j
      BY <2>1 DEF Saving
    <3>2. \A k \in Jobs : pc[k] \in Saving /\ stage[k] = s => pc'[k] \in Saving /\ stage'[k] = s
      BY <2>2, <3>1 DEF Others
    <3> QED
      BY <1>0, <1>i, <1>t, <2>1, <3>2, StageStays
  <2> QED
    BY <1>f, <2>1, <2>2, <2>5, <2>6 DEF Saving
<1>2. ASSUME NEW j \in Jobs, NEW d \in Images, Load(j, d)
      PROVE  (\A r \in Stages : StageOK(r))' /\ (\A k \in Jobs : JobOK(k))'
  <2>1. /\ script' = script /\ writes' = writes /\ state' = state /\ snap' = snap /\ late' = late
        /\ pc' = pc /\ stage' = stage /\ from' = from /\ mem' = mem
        /\ Shared' = Shared /\ Images' = Images /\ Place(j)' = Place(j)
        /\ pc[j] = "load"
    BY <1>2 DEF Load, Shared, Images, Place
  <2>2. Others(j)
    <3>1. \A p \in Places : p # Place(j)' => work'[p] = work[p]
      BY <1>0, <1>2, <2>1 DEF Load, TypeOK
    <3>2. \A k \in Jobs \ {j} : todo'[k] = todo[k]
      BY <1>0, <1>2 DEF Load, TypeOK
    <3> QED
      BY <1>0, <1>t, <2>1, <3>1, <3>2, OthersAre DEF Others
  <2>3. JobOK(j)'
    <3>1. /\ work'[Place(j)][d] = IF from[j] = None THEN 0 ELSE snap[from[j]][d].disk
          /\ \A e \in Disks \ {d} : work'[Place(j)][e] = work[Place(j)][e]
      BY <1>0, <1>2, <1>t, PlaceOf DEF Load, TypeOK
    <3>2. from[j] # None => SnapOf(from[j])[d] = snap[from[j]][d].disk
      BY <1>2, <1>t DEF Load, SnapOf, DiskOf
    <3>3. SnapOf(from[j])' = SnapOf(from[j])
      BY <2>1 DEF SnapOf
    <3>4. \A e \in Images \ todo'[j] : e = d \/ e \in Images \ todo[j]
      BY <1>0, <1>2 DEF Load, TypeOK
    <3>5. Loading(j)
      BY <1>i DEF JobOK
    <3> QED
      BY <1>t, <2>1, <3>1, <3>2, <3>3, <3>4, <3>5
         DEF JobOK, Loading, Running, SavingOK, Copying, Saving
  <2>4. ASSUME NEW s \in Stages, s = stage'[j] PROVE StageOK(s)'
    BY <2>4, <1>0, <1>i, <1>t, <2>1, PlaceOf, StageStays
  <2> QED
    BY <1>f, <2>1, <2>2, <2>3, <2>4
<1>3. ASSUME NEW j \in Jobs, NEW d \in Images, Write(j, d)
      PROVE  (\A r \in Stages : StageOK(r))' /\ (\A k \in Jobs : JobOK(k))'
  <2>1. /\ script' = script /\ writes' = writes + 1 /\ state' = state /\ snap' = snap
        /\ pc' = pc /\ stage' = stage /\ from' = from /\ todo' = todo
        /\ Shared' = Shared /\ Images' = Images /\ Place(j)' = Place(j)
        /\ pc[j] \in {"run", "saved"}
        /\ late' = IF pc[j] = "saved" THEN late \cup {stage[j]} ELSE late
    BY <1>3 DEF Write, Shared, Images, Place
  <2>2. Others(j)
    <3>1. \A p \in Places : p # Place(j)' => work'[p] = work[p]
      BY <1>0, <1>3, <2>1 DEF Write, TypeOK
    <3>2. \A k \in Jobs \ {j} : mem'[k] = mem[k]
      BY <1>0, <1>3 DEF Write, TypeOK
    <3> QED
      BY <1>0, <1>t, <2>1, <3>1, <3>2, OthersAre DEF Others
  <2>3. /\ work'[Place(j)][d] = writes + 1 /\ mem'[j][d] = writes + 1
        /\ \A e \in Disks \ {d} : work'[Place(j)][e] = work[Place(j)][e] /\ mem'[j][e] = mem[j][e]
    BY <1>0, <1>3, <1>t, PlaceOf DEF Write, TypeOK
  <2>4. JobOK(j)'
    <3>1. CASE pc[j] = "run"
      <4>1. Match(work[Place(j)], mem[j], from[j] \notin late)
        BY <1>i, <3>1 DEF JobOK, Running
      <4>2. Match(work[Place(j)], mem[j], from[j] \notin late)'
        BY <1>t, <2>1, <2>3, <3>1, <4>1 DEF Match
      <4> QED
        BY <2>1, <3>1, <4>2 DEF JobOK, Loading, Running, SavingOK, Copying, Saving
    <3>2. CASE pc[j] = "saved"
      <4>1. Match(work[Place(j)], state[stage[j]], stage[j] \notin late)
        BY <1>i, <3>2 DEF JobOK, SavingOK, Saving
      <4>2. stage[j] \in late'
        BY <2>1, <3>2
      <4>3. Match(work[Place(j)], state[stage[j]], stage[j] \notin late)'
        BY <1>t, <2>1, <2>3, <4>1, <4>2 DEF Match
      <4> QED
        BY <2>1, <3>2, <4>3 DEF JobOK, Loading, Running, SavingOK, Copying
    <3> QED
      BY <2>1, <3>1, <3>2
  <2>5. ASSUME NEW s \in Stages, s = stage'[j] PROVE StageOK(s)'
    <3>1. CASE pc[j] = "run"
      BY <2>5, <1>0, <1>i, <1>t, <2>1, <3>1, PlaceOf, StageStays
    <3>2. CASE pc[j] = "saved"
      BY <2>5, <2>1, <3>2 DEF StageOK, Saving
    <3> QED
      BY <2>5, <2>1, <3>1, <3>2
  <2> QED
    BY <1>f, <2>1, <2>2, <2>4, <2>5
<1>4. ASSUME NEW j \in Jobs, NEW d \in Images, Copy(j, d)
      PROVE  (\A r \in Stages : StageOK(r))' /\ (\A k \in Jobs : JobOK(k))'
  <2>1. /\ script' = script /\ writes' = writes /\ state' = state /\ work' = work /\ late' = late
        /\ pc' = pc /\ stage' = stage /\ from' = from /\ mem' = mem
        /\ Shared' = Shared /\ Images' = Images /\ Place(j)' = Place(j)
        /\ pc[j] = "copy"
    BY <1>4 DEF Copy, Shared, Images, Place
  <2>2. Others(j)
    <3>1. \A s \in Stages : s # stage'[j] => snap'[s] = snap[s]
      BY <1>0, <1>4, <2>1 DEF Copy, TypeOK
    <3>2. \A k \in Jobs \ {j} : todo'[k] = todo[k]
      BY <1>0, <1>4 DEF Copy, TypeOK
    <3> QED
      BY <1>0, <1>t, <2>1, <3>1, <3>2, OthersAre DEF Others
  <2>3. JobOK(j)'
    <3>1. /\ snap'[stage[j]][d] = [disk |-> work[Place(j)][d], run |-> number[j]]
          /\ \A e \in Disks \ {d} : snap'[stage[j]][e] = snap[stage[j]][e]
      BY <1>0, <1>4, <1>t, PlaceOf DEF Copy, TypeOK
    <3>2. [disk |-> work[Place(j)][d], run |-> number[j]] # Absent
      <4>1. work[Place(j)][d] \in Nat \cup {Absent} /\ number[j] \in Nat
        BY <1>0, <1>t, PlaceOf, LimitsAreNat DEF TypeOK, Files
      <4> QED
        BY <4>1, DisksExist
    <3>3. SnapOf(stage[j])'[d] = work[Place(j)][d]
      BY <1>t, <2>1, <3>1, <3>2 DEF SnapOf, DiskOf
    <3>4. \A e \in Disks \ {d} : SnapOf(stage[j])'[e] = SnapOf(stage[j])[e]
      BY <2>1, <3>1 DEF SnapOf
    <3>5. \A e \in Images \ todo'[j] : e = d \/ e \in Images \ todo[j]
      BY <1>0, <1>4 DEF Copy, TypeOK
    <3>6. Copying(j)'
      BY <1>i, <1>t, <2>1, <3>3, <3>4, <3>5 DEF JobOK, Copying
    <3>7. SavingOK(j)'
      BY <1>i, <2>1 DEF JobOK, SavingOK, Match
    <3> QED
      BY <2>1, <3>6, <3>7 DEF JobOK, Loading, Running
  <2>4. ASSUME NEW s \in Stages, s = stage'[j] PROVE StageOK(s)'
    BY <2>4, <2>1 DEF StageOK, Saving
  <2> QED
    BY <1>f, <2>1, <2>2, <2>3, <2>4
<1>5. ASSUME NEW j \in Jobs, Boot(j)
      PROVE  (\A r \in Stages : StageOK(r))' /\ (\A k \in Jobs : JobOK(k))'
  <2>1. /\ script' = script /\ writes' = writes /\ state' = state /\ work' = work /\ late' = late
        /\ snap' = snap /\ stage' = stage /\ from' = from /\ todo' = todo
        /\ Shared' = Shared /\ Images' = Images /\ Place(j)' = Place(j)
        /\ pc[j] = "load" /\ pc'[j] = "run" /\ todo[j] = {}
        /\ mem'[j] = IF from[j] = None THEN work[Place(j)] ELSE state[from[j]]
    BY <1>0, <1>5 DEF Boot, Goto, TypeOK, Shared, Images, Place
  <2>2. Others(j)
    <3>1. \A k \in Jobs \ {j} : pc'[k] = pc[k] /\ mem'[k] = mem[k]
      BY <1>0, <1>5 DEF Boot, Goto, TypeOK
    <3> QED
      BY <1>0, <1>t, <2>1, <3>1, OthersAre DEF Others
  <2>3. \A d \in Images : work[Place(j)][d] = IF from[j] = None THEN 0 ELSE SnapOf(from[j])[d]
    BY <1>i, <2>1 DEF JobOK, Loading
  <2>4. \A d \in Disks \ Images : work[Place(j)][d] = Absent
    BY <1>0, PlaceOf DEF OnlyImages
  <2>5. Match(work[Place(j)], mem'[j], from[j] \notin late)
    <3>1. CASE from[j] = None
      BY <1>t, <2>1, <2>3, <2>4, <3>1 DEF Match
    <3>2. CASE from[j] # None
      <4>1. from[j] \in Stages /\ state[from[j]] # None
        BY <1>0, <2>1, <3>2 DEF TypeOK, Sources
      <4>2. \A k \in Jobs : pc[k] \in Saving => stage[k] # from[j]
        BY <1>0, <2>1 DEF KeepApart, Saving
      <4>3. Match(SnapOf(from[j]), state[from[j]], from[j] \notin late)
        BY <1>i, <4>1, <4>2 DEF StageOK
      <4> QED
        BY <2>1, <2>3, <2>4, <3>2, <4>3 DEF Match
    <3> QED
      BY <3>1, <3>2
  <2>6. JobOK(j)'
    BY <2>1, <2>5 DEF JobOK, Loading, Running, SavingOK, Copying, Saving, Match
  <2>7. ASSUME NEW s \in Stages, s = stage'[j] PROVE StageOK(s)'
    <3>1. \A k \in Jobs : pc[k] \in Saving /\ stage[k] = stage[j] => pc'[k] \in Saving
      BY <2>7, <2>1, <2>2 DEF Others, Saving
    <3> QED
      BY <2>7, <1>0, <1>i, <1>t, <2>1, <3>1, PlaceOf, StageStays
  <2> QED
    BY <1>f, <2>1, <2>2, <2>6, <2>7
<1>6. ASSUME NEW j \in Jobs, Save(j)
      PROVE  (\A r \in Stages : StageOK(r))' /\ (\A k \in Jobs : JobOK(k))'
  <2>1. /\ script' = script /\ writes' = writes /\ work' = work /\ mem' = mem
        /\ snap' = snap /\ stage' = stage /\ from' = from /\ todo' = todo
        /\ Shared' = Shared /\ Images' = Images /\ Place(j)' = Place(j)
        /\ pc[j] = "run" /\ pc'[j] = "saved"
        /\ state'[stage[j]] = mem[j]
        /\ late' = IF from[j] \in late THEN late \cup {stage[j]} ELSE late \ {stage[j]}
    BY <1>0, <1>6 DEF Save, Goto, TypeOK, Shared, Images, Place
  <2>2. Others(j)
    <3>1. \A k \in Jobs \ {j} : pc'[k] = pc[k]
      BY <1>0, <1>6 DEF Save, Goto, TypeOK
    <3>2. \A s \in Stages : s # stage'[j] => state'[s] = state[s] /\ (s \in late' <=> s \in late)
      BY <1>0, <1>6, <2>1 DEF Save, TypeOK
    <3> QED
      BY <1>0, <1>t, <2>1, <3>1, <3>2, OthersAre DEF Others
  <2>3. Match(work[Place(j)], mem[j], from[j] \notin late)
    BY <1>i, <2>1 DEF JobOK, Running
  <2>4. stage[j] \in late' <=> from[j] \in late
    BY <2>1
  <2>5. SavingOK(j)'
    BY <2>1, <2>3, <2>4 DEF SavingOK, Match
  <2>6. JobOK(j)'
    BY <2>1, <2>5 DEF JobOK, Loading, Running, Copying
  <2>7. ASSUME NEW s \in Stages, s = stage'[j] PROVE StageOK(s)'
    BY <2>7, <2>1 DEF StageOK, Saving
  <2> QED
    BY <1>f, <2>1, <2>2, <2>6, <2>7
<1>7. ASSUME NEW j \in Jobs, Exit(j)
      PROVE  (\A r \in Stages : StageOK(r))' /\ (\A k \in Jobs : JobOK(k))'
  <2>1. /\ script' = script /\ writes' = writes /\ work' = work /\ mem' = mem /\ state' = state
        /\ snap' = snap /\ stage' = stage /\ from' = from /\ late' = late
        /\ Shared' = Shared /\ Images' = Images /\ Place(j)' = Place(j)
        /\ pc[j] = "saved" /\ pc'[j] \in {"clear", "copy"}
        /\ pc'[j] = "copy" => todo'[j] = Present(work[Place(j)])
    BY <1>0, <1>7 DEF Exit, TypeOK, Shared, Images, Place
  <2>2. Others(j)
    <3>1. \A k \in Jobs \ {j} : pc'[k] = pc[k] /\ todo'[k] = todo[k]
      BY <1>0, <1>7 DEF Exit, TypeOK
    <3> QED
      BY <1>0, <1>t, <2>1, <3>1, OthersAre DEF Others
  <2>3. Match(work[Place(j)], state[stage[j]], stage[j] \notin late)
    BY <1>i, <2>1 DEF JobOK, SavingOK, Saving
  <2>4. Images \subseteq Present(work[Place(j)])
    BY <1>t, <2>3, DisksExist DEF Match, Present
  <2>5. Copying(j)'
    BY <2>1, <2>4 DEF Copying
  <2>6. SavingOK(j)'
    BY <2>1, <2>3 DEF SavingOK, Match
  <2>7. JobOK(j)'
    BY <2>1, <2>5, <2>6 DEF JobOK, Loading, Running
  <2>8. ASSUME NEW s \in Stages, s = stage'[j] PROVE StageOK(s)'
    BY <2>8, <2>1 DEF StageOK, Saving
  <2> QED
    BY <1>f, <2>1, <2>2, <2>7, <2>8
<1>8. ASSUME NEW j \in Jobs, Clear(j)
      PROVE  (\A r \in Stages : StageOK(r))' /\ (\A k \in Jobs : JobOK(k))'
  <2>1. /\ script' = script /\ writes' = writes /\ work' = work /\ mem' = mem /\ state' = state
        /\ stage' = stage /\ from' = from /\ late' = late
        /\ Shared' = Shared /\ Images' = Images /\ Place(j)' = Place(j)
        /\ pc[j] = "clear"
    BY <1>8 DEF Clear, Shared, Images, Place
  <2>2. /\ pc'[j] \in {"clear", "copy"}
        /\ pc'[j] = "copy" => todo'[j] = Present(work[Place(j)])
        /\ \A k \in Jobs \ {j} : pc'[k] = pc[k] /\ todo'[k] = todo[k]
    BY <1>0, <1>8 DEF Clear, TypeOK
  <2>3. Others(j)
    <3>1. \A s \in Stages : s # stage[j] => snap'[s] = snap[s]
      BY <1>0, <1>8 DEF Clear, TypeOK
    <3> QED
      BY <1>0, <1>t, <2>1, <2>2, <3>1, OthersAre DEF Others
  <2>4. Match(work[Place(j)], state[stage[j]], stage[j] \notin late)
    BY <1>i, <2>1 DEF JobOK, SavingOK, Saving
  <2>5. Images \subseteq Present(work[Place(j)])
    BY <1>t, <2>4, DisksExist DEF Match, Present
  <2>6. Copying(j)'
    BY <2>1, <2>2, <2>5 DEF Copying
  <2>7. SavingOK(j)'
    BY <2>1, <2>4 DEF SavingOK, Match
  <2>8. JobOK(j)'
    BY <2>1, <2>2, <2>6, <2>7 DEF JobOK, Loading, Running
  <2>9. ASSUME NEW s \in Stages, s = stage'[j] PROVE StageOK(s)'
    BY <2>9, <2>1, <2>2 DEF StageOK, Saving
  <2> QED
    BY <1>f, <2>1, <2>3, <2>8, <2>9
<1>9. ASSUME NEW j \in Jobs, End(j)
      PROVE  (\A r \in Stages : StageOK(r))' /\ (\A k \in Jobs : JobOK(k))'
  <2>1. /\ script' = script /\ writes' = writes /\ work' = work /\ mem' = mem /\ state' = state
        /\ snap' = snap /\ stage' = stage /\ from' = from /\ late' = late /\ todo' = todo
        /\ Shared' = Shared /\ Images' = Images /\ Place(j)' = Place(j)
        /\ pc[j] = "copy" /\ pc'[j] = "off" /\ todo[j] = {}
    BY <1>0, <1>9 DEF End, Goto, TypeOK, Shared, Images, Place
  <2>2. Others(j)
    <3>1. \A k \in Jobs \ {j} : pc'[k] = pc[k]
      BY <1>0, <1>9 DEF End, Goto, TypeOK
    <3> QED
      BY <1>0, <1>t, <2>1, <3>1, OthersAre DEF Others
  <2>3. Match(work[Place(j)], state[stage[j]], stage[j] \notin late)
    BY <1>i, <2>1 DEF JobOK, SavingOK, Saving
  <2>4. \A d \in Images : SnapOf(stage[j])[d] = work[Place(j)][d]
    BY <1>i, <2>1 DEF JobOK, Copying
  <2>5. \A d \in Disks \ Images : SnapOf(stage[j])[d] = Absent
    BY <1>0, PlaceOf DEF OnlyImages, SnapOf, DiskOf
  <2>6. Match(SnapOf(stage[j]), state[stage[j]], stage[j] \notin late)
    BY <2>3, <2>4, <2>5 DEF Match
  <2>7. ASSUME NEW s \in Stages, s = stage'[j] PROVE StageOK(s)'
    BY <2>7, <2>1, <2>6 DEF StageOK, Match, SnapOf
  <2>8. JobOK(j)'
    BY <2>1 DEF JobOK, Loading, Running, SavingOK, Copying, Saving
  <2> QED
    BY <1>f, <2>1, <2>2, <2>7, <2>8
<1>10. ASSUME NEW j \in Jobs, Kill(j)
       PROVE  FALSE
  BY <1>0, <1>k, <1>10 DEF Kill
<1>11. CASE UNCHANGED stageVars
  <2>1. UNCHANGED <<script, pc, stage, from, todo, mem, work, state, snap, writes, late>>
    BY <1>11 DEF stageVars
  <2>2. \A s \in Stages : StageOK(s)'
    BY <1>0, <1>i, <1>t, <2>1, StageStays
  <2>3. \A j \in Jobs : JobOK(j)'
    <3> SUFFICES ASSUME NEW j \in Jobs PROVE JobOK(j)'
      OBVIOUS
    <3>1. Loading(j) /\ Running(j) /\ SavingOK(j) /\ Copying(j)
      BY <1>i DEF JobOK
    <3>2. Loading(j)'
      BY <2>1, <3>1 DEF Loading, SnapOf, DiskOf, Place, Images, Shared
    <3>3. Running(j)'
      BY <2>1, <3>1 DEF Running, Match, DiskOf, Place, Images, Shared
    <3>4. SavingOK(j)'
      BY <2>1, <3>1 DEF SavingOK, Match, DiskOf, Place, Images, Shared
    <3>5. Copying(j)'
      BY <2>1, <3>1 DEF Copying, SnapOf, DiskOf, Place, Images, Shared
    <3> QED
      BY <3>2, <3>3, <3>4, <3>5 DEF JobOK
  <2> QED
    BY <2>2, <2>3
<1> QED
  BY <1>1, <1>2, <1>3, <1>4, <1>5, <1>6, <1>7, <1>8, <1>9, <1>10, <1>11 DEF StageNext

LEMMA InitStored == StageInit => Stored
BY DEF StageInit, Stored, StageOK, JobOK, Loading, Running, SavingOK, Copying, Saving

LEMMA Always == StageSpec => [](Shape /\ Stored)
<1>1. StageInit => Shape /\ Stored
  BY InitShape, InitStored
<1>2. Shape /\ Stored /\ [StageNext]_stageVars => (Shape /\ Stored)'
  BY ShapeStep, StoredStep
<1> QED
  BY <1>1, <1>2, PTL DEF StageSpec

\* Nobody is about to save a settled stage.
LEMMA SettledMatches ==
  ASSUME Shape, Stored, kills = 0, NEW s \in Stages, state[s] # None, Settled(s)
  PROVE  Match(SnapOf(s), state[s], s \notin late)
BY DEF Stored, StageOK, Settled, Saving

\* Without killed runs every stage whose machine was quiet in its last second, and
\* that of its source too, can be resumed, whatever stages were run in between.
THEOREM QuietStagesResume == StageSpec => []QuietStageResumes
<1>1. Shape /\ Stored => QuietStageResumes
  <2> SUFFICES ASSUME Shape, Stored, kills = 0, NEW s \in Stages \ late, state[s] # None,
                      Settled(s)
               PROVE  SnapOf(s) = state[s]
    BY DEF QuietStageResumes, Resumable
  <2>1. Match(SnapOf(s), state[s], s \notin late)
    BY SettledMatches
  <2>2. \A d \in Disks : SnapOf(s)[d] = state[s][d]
    BY <2>1 DEF Match
  <2>3. state[s] \in [Disks -> Files]
    BY DEF Shape, TypeOK
  <2> QED
    BY <2>2, <2>3 DEF SnapOf
<1> QED
  BY <1>1, Always, PTL

\* Without killed runs a running machine finds on its disks what it remembers.
THEOREM MachinesKnowDisks == StageSpec => []MachineKnowsDisks
<1>1. Shape /\ Stored => MachineKnowsDisks
  <2> SUFFICES ASSUME Shape, Stored, kills = 0, NEW j \in Jobs, pc[j] = "run",
                      from[j] \notin late
               PROVE  work[Place(j)] = mem[j]
    BY DEF MachineKnowsDisks
  <2>1. Match(work[Place(j)], mem[j], from[j] \notin late)
    BY DEF Stored, JobOK, Running
  <2>2. \A d \in Disks : work[Place(j)][d] = mem[j][d]
    BY <2>1 DEF Match
  <2>3. work[Place(j)] \in [Disks -> Files] /\ mem[j] \in [Disks -> Files]
    BY PlaceOf DEF Shape, TypeOK
  <2> QED
    BY <2>2, <2>3
<1> QED
  BY <1>1, Always, PTL

\* Without killed runs the disks of a saved stage are complete and not older than
\* its state.
THEOREM SnapshotsNotOlder == StageSpec => []SnapshotNotOlder
<1>1. Shape /\ Stored => SnapshotNotOlder
  <2> SUFFICES ASSUME Shape, Stored, kills = 0, NEW s \in Stages, state[s] # None, Settled(s),
                      NEW d \in Images
               PROVE  snap[s][d] # Absent /\ snap[s][d].disk >= state[s][d]
    BY DEF SnapshotNotOlder
  <2>1. Match(SnapOf(s), state[s], s \notin late)
    BY SettledMatches
  <2>2. SnapOf(s)[d] \in Nat /\ state[s][d] \in Nat /\ state[s][d] <= SnapOf(s)[d]
    BY <2>1, ImagesAreDisks DEF Match
  <2>3. SnapOf(s)[d] = DiskOf(snap[s][d])
    BY ImagesAreDisks DEF SnapOf
  <2> QED
    BY <2>2, <2>3, DisksExist DEF DiskOf
<1> QED
  BY <1>1, Always, PTL
===============================================================================
