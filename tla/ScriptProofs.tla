----------------------------- MODULE ScriptProofs -----------------------------
(***************************************************************************)
(* Theorems about two kinds of scripts.                                     *)
(*                                                                          *)
(* RomFolder, the builder of the ROM folder: for any set of scripts, any    *)
(* number of images and any number of runs and kills.                       *)
(*                                                                          *)
(* Surgery, the scripts that edit a system disk: for any originals that are *)
(* as OriginalsAssumption says, any sizes, any modules to copy and any      *)
(* lists of sub-modules.  The argument is by one invariant, SurgeryInv: the *)
(* image is what one script has made of the original (Good), with entries   *)
(* renamed since (Relabelled).  What each script makes is described by a    *)
(* predicate on areas (Swap, Exchange, Filed); LibraryProofs shows of each  *)
(* of them that the directory and the modules still fit together.           *)
(***************************************************************************)
EXTENDS RomFolder, LibraryProofs

(* The builder of the ROM folder.                                           *)

\* The type invariant holds in every reachable state.
THEOREM TypeCorrect == Spec => []TypeOK
<1> USE BoundsAreNat DEF Roms, Labels, Building, Goto, TypeOK
<1>1. Init => TypeOK
  <2> SUFFICES ASSUME Init
               PROVE  TypeOK
    OBVIOUS
  <2>1. rom \in [Roms -> {"absent", "partial", "whole"}]
    <3>1. CASE done
      BY <3>1 DEF Init
    <3>2. CASE ~done
      BY <3>2 DEF Init
    <3> QED
      BY <3>1, <3>2
  <2>2. done \in BOOLEAN /\ lock \in BOOLEAN
    BY DEF Init
  <2>3. /\ pc \in [Scripts -> Labels]
        /\ next \in [Scripts -> 1 .. NRoms + 1]
        /\ runs \in [Scripts -> 0 .. MaxRuns]
        /\ kills \in 0 .. MaxKills
    BY DEF Init
  <2> QED
    BY <2>1, <2>2, <2>3
<1>2. TypeOK /\ [Next]_vars => TypeOK'
  <2> SUFFICES ASSUME TypeOK, [Next]_vars
               PROVE  TypeOK'
    OBVIOUS
  <2>1. CASE UNCHANGED vars
    BY <2>1 DEF vars
  <2>2. ASSUME NEW s \in Scripts, Start(s)
        PROVE  TypeOK'
    BY <2>2 DEF Start
  <2>3. ASSUME NEW s \in Scripts, Kill(s)
        PROVE  TypeOK'
    BY <2>3 DEF Kill
  <2>4. ASSUME NEW s \in Scripts,
               MarkerFound(s) \/ MarkerMissing(s) \/ LockIsTaken(s)
                 \/ WaitOver(s) \/ Finish(s)
        PROVE  TypeOK'
    BY <2>4 DEF MarkerFound, MarkerMissing, LockIsTaken, WaitOver, Finish
  <2>5. ASSUME NEW s \in Scripts, TakeLock(s) \/ Unlock(s) \/ Mark(s)
        PROVE  TypeOK'
    <3>1. /\ pc' \in [Scripts -> Labels]
          /\ UNCHANGED <<next, rom, runs, kills>>
      BY <2>5 DEF TakeLock, Unlock, Mark
    <3>2. lock' \in BOOLEAN /\ done' \in BOOLEAN
      BY <2>5 DEF TakeLock, Unlock, Mark
    <3> QED
      BY <3>1, <3>2
  <2>6. ASSUME NEW s \in Scripts, ClearEntry(s) \/ ClearDone(s)
        PROVE  TypeOK'
    <3>1. /\ pc' \in [Scripts -> Labels]
          /\ UNCHANGED <<lock, runs, kills>>
      BY <2>6 DEF ClearEntry, ClearDone
    <3>2. next' \in [Scripts -> 1 .. NRoms + 1]
      BY <2>6 DEF ClearEntry, ClearDone
    <3>3. rom' \in [Roms -> {"absent", "partial", "whole"}]
      <4>1. \/ rom' = rom
            \/ \E k \in Roms : rom' = [rom EXCEPT ![k] = "absent"]
        BY <2>6 DEF ClearEntry, ClearDone
      <4> QED
        BY <4>1
    <3>4. done' \in BOOLEAN
      BY <2>6 DEF ClearEntry, ClearDone
    <3> QED
      BY <3>1, <3>2, <3>3, <3>4
  <2>7. ASSUME NEW s \in Scripts, CopyBegin(s)
        PROVE  TypeOK'
    BY <2>7 DEF CopyBegin
  <2>8. ASSUME NEW s \in Scripts, CopyEnd(s)
        PROVE  TypeOK'
    <3>1. next[s] \in Roms /\ next[s] + 1 \in 1 .. NRoms + 1
      BY <2>8 DEF CopyEnd
    <3>2. /\ next' = [next EXCEPT ![s] = next[s] + 1]
          /\ rom' = [rom EXCEPT ![next[s]] = "whole"]
          /\ UNCHANGED <<pc, done, lock, runs, kills>>
      BY <2>8 DEF CopyEnd
    <3>3. next' \in [Scripts -> 1 .. NRoms + 1]
      BY <3>1, <3>2
    <3>4. rom' \in [Roms -> {"absent", "partial", "whole"}]
      BY <3>1, <3>2
    <3> QED
      BY <3>2, <3>3, <3>4
  <2> QED
    BY <2>1, <2>2, <2>3, <2>4, <2>5, <2>6, <2>7, <2>8 DEF Next, Run, Build
<1> QED
  BY ONLY <1>1, <1>2, PTL DEF Spec

------------------------------------------------------------------------------

\* OneBuilder and BrokenOnlyUnderLock are not inductive: whether the marker
\* goes on a complete folder depends on how far the builder's copies have come.
CopyProgress ==
  \A s \in Scripts :
    /\ pc[s] = "copy" => /\ ~done
                         /\ \A k \in 1 .. next[s] - 1 : rom[k] = "whole"
    /\ pc[s] = "unlock" => done /\ Complete

IInv == TypeOK /\ OneBuilder /\ BrokenOnlyUnderLock /\ CopyProgress

LEMMA InitIInv == Init /\ TypeOK => IInv
<1> SUFFICES ASSUME Init, TypeOK
             PROVE  IInv
  OBVIOUS
<1> USE DEF Init, Building
<1>1. OneBuilder /\ CopyProgress
  BY DEF OneBuilder, CopyProgress
<1>2. CASE done
  <2>1. Complete
    BY <1>2 DEF Complete
  <2> QED
    BY <1>1, <1>2, <2>1 DEF IInv, BrokenOnlyUnderLock
<1>3. CASE ~done
  <2>1. Empty
    BY <1>3 DEF Empty
  <2> QED
    BY <1>1, <1>3, <2>1 DEF IInv, BrokenOnlyUnderLock
<1> QED
  BY <1>2, <1>3

\* Steps that leave the folder, the lock and the set of builders alone.
LEMMA QuietStep ==
  ASSUME IInv, NEW s \in Scripts,
         Start(s) \/ MarkerFound(s) \/ MarkerMissing(s) \/ LockIsTaken(s)
           \/ WaitOver(s) \/ Finish(s) \/ Kill(s)
  PROVE  OneBuilder' /\ BrokenOnlyUnderLock' /\ CopyProgress'
<1> USE DEF IInv, TypeOK, Goto, Building, Labels, Roms
<1>1. UNCHANGED <<next, rom, done, lock>>
  BY DEF Start, MarkerFound, MarkerMissing, LockIsTaken, WaitOver, Finish, Kill
<1>2. \A t \in Scripts : pc'[t] \in Building => pc'[t] = pc[t]
  BY DEF Start, MarkerFound, MarkerMissing, LockIsTaken, WaitOver, Finish, Kill
<1>3. OneBuilder'
  BY <1>1, <1>2 DEF OneBuilder
<1>4. BrokenOnlyUnderLock'
  BY <1>1 DEF BrokenOnlyUnderLock, Complete, Empty
<1>5. CopyProgress'
  BY <1>1, <1>2 DEF CopyProgress, Complete
<1> QED
  BY <1>3, <1>4, <1>5

\* Steps of the builder.
LEMMA BuildStep ==
  ASSUME IInv, NEW s \in Scripts, Build(s)
  PROVE  OneBuilder' /\ BrokenOnlyUnderLock' /\ CopyProgress'
<1> USE BoundsAreNat
    DEF IInv, TypeOK, Goto, Building, Labels, Roms, OneBuilder,
        BrokenOnlyUnderLock, CopyProgress, Complete, Empty
<1>1. CASE TakeLock(s)
  BY <1>1 DEF TakeLock
<1>2. CASE ClearEntry(s)
  BY <1>2 DEF ClearEntry
<1>3. CASE ClearDone(s)
  BY <1>3 DEF ClearDone
<1>4. CASE CopyBegin(s)
  BY <1>4 DEF CopyBegin
<1>5. CASE CopyEnd(s)
  BY <1>5 DEF CopyEnd
<1>6. CASE Mark(s)
  BY <1>6 DEF Mark
<1>7. CASE Unlock(s)
  BY <1>7 DEF Unlock
<1> QED
  BY <1>1, <1>2, <1>3, <1>4, <1>5, <1>6, <1>7 DEF Build

THEOREM Inductive == Spec => []IInv
<1>1. IInv /\ [Next]_vars /\ TypeOK' => IInv'
  <2> SUFFICES ASSUME IInv, [Next]_vars, TypeOK'
               PROVE  IInv'
    OBVIOUS
  <2>1. CASE UNCHANGED vars
    BY <2>1 DEF vars, IInv, TypeOK, OneBuilder, BrokenOnlyUnderLock,
                CopyProgress, Complete, Empty
  <2>2. CASE Next
    BY <2>2, QuietStep, BuildStep DEF Next, Run, IInv
  <2> QED
    BY <2>1, <2>2
<1> QED
  BY <1>1, InitIInv, TypeCorrect, PTL DEF Spec

\* At most one script is between mkdir and rmdir of the lock.
THEOREM MutualExclusion == Spec => []OneBuilder
  BY Inductive, PTL DEF IInv

\* Without the lock directory the folder is complete and marked, or empty,
\* however many builders were killed.
THEOREM BrokenNeedsLock == Spec => []BrokenOnlyUnderLock
  BY Inductive, PTL DEF IInv

------------------------------------------------------------------------------

\* A script in use of the folder has the complete set unless the lock exists.
THEOREM UserSafety == Spec => []UserHasSetOrRebuild
<1> USE DEF IInv, TypeOK, Goto, Building, Labels, Roms, OneBuilder,
            BrokenOnlyUnderLock, CopyProgress, Complete, Empty,
            UserHasSetOrRebuild
<1>1. Init => UserHasSetOrRebuild
  BY DEF Init
<1>2. UserHasSetOrRebuild /\ IInv /\ [Next]_vars => UserHasSetOrRebuild'
  <2> SUFFICES ASSUME UserHasSetOrRebuild, IInv, [Next]_vars
               PROVE  UserHasSetOrRebuild'
    OBVIOUS
  <2>1. CASE UNCHANGED vars
    BY <2>1 DEF vars
  <2>2. ASSUME NEW s \in Scripts,
               Start(s) \/ MarkerFound(s) \/ MarkerMissing(s)
                 \/ LockIsTaken(s) \/ WaitOver(s) \/ Finish(s) \/ Kill(s)
        PROVE  UserHasSetOrRebuild'
    BY <2>2 DEF Start, MarkerFound, MarkerMissing, LockIsTaken, WaitOver,
                Finish, Kill
  <2>3. ASSUME NEW s \in Scripts, Build(s), ~Unlock(s)
        PROVE  UserHasSetOrRebuild'
    <3>1. lock'
      BY <2>3 DEF Build, TakeLock, ClearEntry, ClearDone, CopyBegin, CopyEnd,
                  Mark
    <3> QED
      BY <3>1
  <2>4. ASSUME NEW s \in Scripts, Unlock(s)
        PROVE  UserHasSetOrRebuild'
    BY <2>4 DEF Unlock
  <2> QED
    BY <2>1, <2>2, <2>3, <2>4 DEF Next, Run
<1> QED
  BY <1>1, <1>2, Inductive, PTL DEF Spec

------------------------------------------------------------------------------

LEMMA OwnerIs ==
  ASSUME OneBuilder, NEW s \in Scripts, pc[s] \in Building
  PROVE  Owner = s
  BY DEF OneBuilder, Owner

\* What Owner is when nobody builds.
LEMMA OwnerNone ==
  ASSUME \A s \in Scripts : pc[s] \notin Building
  PROVE  Owner = IF lock THEN Orphan ELSE Free
  BY DEF Owner

\* The scripts implement the owned lock: mkdir acquires it, rmdir releases it,
\* and a killed builder leaves it an orphan for good.
THEOREM ImplementsLock == Spec => LockSpec
<1> USE OwnersDistinct
<1>1. Init => Lock!Init
  BY DEF Init, Lock!Init, Owner
<1>2. IInv /\ IInv' /\ [Next]_vars => [Lock!Next]_Owner
  <2> SUFFICES ASSUME IInv, IInv', [Next]_vars
               PROVE  [Lock!Next]_Owner
    OBVIOUS
  <2> USE DEF IInv, Goto, TypeOK
  <2>1. CASE UNCHANGED vars
    BY <2>1 DEF vars, Owner
  <2>2. ASSUME NEW s \in Scripts, UNCHANGED lock,
               \A t \in Scripts : pc'[t] \in Building <=> pc[t] \in Building
        PROVE  UNCHANGED Owner
    <3>1. CASE \E t \in Scripts : pc[t] \in Building
      <4>1. PICK t \in Scripts : pc[t] \in Building
        BY <3>1
      <4>2. Owner = t
        BY <4>1, OwnerIs
      <4>3. Owner' = t
        BY <4>1, <2>2 DEF OneBuilder, Owner
      <4> QED
        BY <4>2, <4>3
    <3>2. CASE \A t \in Scripts : pc[t] \notin Building
      BY <3>2, <2>2 DEF Owner
    <3> QED
      BY <3>1, <3>2
  <2>3. ASSUME NEW s \in Scripts, TakeLock(s)
        PROVE  Lock!Acquire(s)
    <3>1. Owner = Free
      BY <2>3 DEF TakeLock, Owner
    <3>2. pc'[s] \in Building
      BY <2>3 DEF TakeLock, Building
    <3>3. Owner' = s
      BY <3>2 DEF OneBuilder, Owner
    <3> QED
      BY <3>1, <3>3 DEF Lock!Acquire
  <2>4. ASSUME NEW s \in Scripts, Unlock(s)
        PROVE  Lock!Release(s)
    <3>1. pc[s] \in Building
      BY <2>4 DEF Unlock, Building
    <3>2. Owner = s
      BY <3>1, OwnerIs
    <3>3. Owner' = Free
      BY <2>4 DEF Unlock, Owner
    <3> QED
      BY <3>2, <3>3 DEF Lock!Release
  <2>5. ASSUME NEW s \in Scripts, Kill(s), pc[s] \in Building
        PROVE  Lock!Abandon(s)
    <3>1. Owner = s
      BY <2>5, OwnerIs
    <3>2. /\ lock'
          /\ \A t \in Scripts : pc'[t] \notin Building
      BY <2>5 DEF Kill, OneBuilder, Building
    <3>3. Owner' = Orphan
      BY <3>2 DEF Owner
    <3> QED
      BY <3>1, <3>3 DEF Lock!Abandon
  <2>6. ASSUME NEW s \in Scripts, Kill(s), pc[s] \notin Building
        PROVE  UNCHANGED Owner
    <3>1. /\ UNCHANGED lock
          /\ \A t \in Scripts : pc'[t] \in Building <=> pc[t] \in Building
      BY <2>6 DEF Kill, Building
    <3> QED
      BY <2>2, <3>1
  <2>7. ASSUME NEW s \in Scripts,
               Start(s) \/ MarkerFound(s) \/ MarkerMissing(s)
                 \/ LockIsTaken(s) \/ WaitOver(s) \/ Finish(s)
                 \/ ClearEntry(s) \/ ClearDone(s) \/ CopyBegin(s)
                 \/ CopyEnd(s) \/ Mark(s)
        PROVE  UNCHANGED Owner
    <3>1. /\ UNCHANGED lock
          /\ \A t \in Scripts : pc'[t] \in Building <=> pc[t] \in Building
      BY <2>7 DEF Start, MarkerFound, MarkerMissing, LockIsTaken, WaitOver,
                  Finish, ClearEntry, ClearDone, CopyBegin, CopyEnd, Mark,
                  Building
    <3> QED
      BY <2>2, <3>1
  <2> QED
    BY <2>1, <2>3, <2>4, <2>5, <2>6, <2>7
       DEF Next, Run, Build, Lock!Next
<1> QED
  BY <1>1, <1>2, Inductive, PTL DEF Spec, LockSpec, Lock!Spec

------------------------------------------------------------------------------
(* The scripts that edit a disk.                                            *)

(* What every script keeps.                                                 *)

\* The original, and the sectors of its directory.
Was == Original.data

DirRoom == Room(disk, Original)

Fmd == script[1] \in {"fmd_patc", "fmd_allres"}

\* Sub-module x of container i is what it was, or the one of K02743 if it was
\* asked for.
SubKept(data, i, x) ==
  LET o   == i * Sector
      k   == shelf.K02743.data
      old == Was[o + x].name
      by  == {s \in script[2] : s.name = old /\ Pair(s)[1] = Was[o].name}
  IN  IF by = {} THEN \A n \in 0 .. Was[o + x].length : data[o + x + n] = Was[o + x + n]
      ELSE \E s \in by :
             LET at == span(k, Pair(s)[2], old).at
             IN  /\ i \in headers(data) /\ x \in ToSet(sub_offsets(data, o))
                 /\ at \in Nat /\ k[at].length \in Nat
                 /\ o + x + k[at].length < Behind(Was, i) * Sector
                 /\ \A n \in 0 .. k[at].length : data[o + x + n] = k[at + n]

ModulesKept(data) ==
  \A i \in headers(Was) :
    /\ Was[i * Sector].name \notin Replaces => \A c \in Cells(Was, i) : data[c] = Was[c]
    /\ script[1] = "ffr" /\ i = Max(Named(Was, Was[i * Sector].name)) =>
         \A x \in ToSet(sub_offsets(Was, i * Sector)) : SubKept(data, i, x)

SlotsMade ==
  script[1] = "containers" =>
    \E rts, ini :
      /\ script = <<"containers", <<rts, ini>>>>
      /\ Named(Was, rts) # {} /\ Named(Was, ini) # {}
      /\ image.slots = <<SlotFor(Was, Max(Named(Was, rts))), SlotFor(Was, Max(Named(Was, ini)))>>

\* What a script has made, before names are changed.
Good(data) ==
  /\ DOMAIN data = DOMAIN Was
  /\ Laid(data, DirAt, DirRoom)
  /\ AllAlone(data, DirAt, DirRoom)
  /\ AllLead(data, DirAt, Fmd, Swapped)
  /\ IndexKept(Was, data, DirAt, Fmd)
  /\ ModulesKept(data)
  /\ script[1] \in {"none", "containers"} => data = Was

\* The image is what a script has made, with the names changed.
Made(data) ==
  /\ Good(data) /\ NamesOK(data, DirAt, renamed) /\ image.data = Relabelled(data, renamed)

SurgeryInv ==
  /\ shelf \in Shelves /\ disk \in DOMAIN shelf
  /\ image = [data |-> image.data, pointer |-> Original.pointer, dir |-> DirAt, slots |-> image.slots]
  /\ SlotsMade
  /\ \E data : Made(data)

LEMMA WasIs ==
  ASSUME shelf \in Shelves, disk \in DOMAIN shelf
  PROVE  /\ Laid(Was, DirAt, DirRoom) /\ ContainersOK(Was) /\ EntriesLead(Was, DirAt, DirRoom)
         /\ Original.pointer \in {0, DirAt + 1}
BY OriginalIs DEF Was, DirAt, DirRoom, Original

\* What an entry of the image was, and where it leads.
LEMMA EntryWas ==
  ASSUME SurgeryInv, NEW b, Made(b), NEW c \in DirCells(b, DirAt) \ {DirAt * Sector},
         NEW e, e = image.data[c]
  PROVE  /\ e = Entry(NewName(b[c].name, renamed), b[c].start, b[c].length)
         /\ Alone(b, DirAt, DirRoom, b[c])
         /\ b[c].start \in Nat /\ b[c].start > DirRoom /\ DirAt + b[c].start - 1 \in Nat
         /\ \A o \in DOMAIN b : o = (DirAt + b[c].start - 1) * Sector =>
              /\ image.data[o] = b[o] /\ o \notin DirCells(b, DirAt)
              /\ DirAt + b[c].start - 1 < nsec(b)
<1>1. /\ Laid(b, DirAt, DirRoom) /\ AllAlone(b, DirAt, DirRoom)
      /\ image.data = Relabelled(b, renamed)
  BY DEF Made, Good
<1>2. /\ \A x \in DOMAIN b \ DirCells(b, DirAt) : image.data[x] = b[x]
      /\ \A x \in DirCells(b, DirAt) :
           image.data[x] = Entry(NewName(b[x].name, renamed), b[x].start, b[x].length)
  BY <1>1, RelabelledIs
<1>3. Alone(b, DirAt, DirRoom, b[c])
  BY <1>1 DEF AllAlone
<1>4. b[c].start \in Nat /\ b[c].start > DirRoom
  BY <1>3 DEF Alone
<1>5. /\ DirAt \in Nat /\ DirRoom \in Nat \ {0}
      /\ DirCells(b, DirAt) \subseteq DirAt * Sector .. (DirAt + DirRoom) * Sector - 1
  BY <1>1, DirIs
<1>6. PICK p : p = DirAt + b[c].start - 1
  OBVIOUS
<1>7. p \in Nat /\ DirAt + DirRoom \in Nat /\ DirAt + DirRoom <= p
  BY <1>4, <1>5, <1>6
<1>8. p * Sector \in Nat /\ (DirAt + DirRoom) * Sector <= p * Sector /\ (DirAt + DirRoom) * Sector \in Nat
  BY <1>7, Product
<1>9. p * Sector \notin DirCells(b, DirAt)
  BY <1>5, <1>8
<1>10. p * Sector \in DOMAIN b => p < nsec(b)
  BY <1>1, <1>7, LaidIs
<1> QED
  BY <1>2, <1>3, <1>4, <1>6, <1>7, <1>9, <1>10

LEMMA ImageDir ==
  ASSUME SurgeryInv, NEW b, Made(b)
  PROVE  /\ HasDir(image.data, DirAt, DirRoom) /\ EntryCells(image.data, DirAt)
         /\ DirCells(image.data, DirAt) = DirCells(b, DirAt)
         /\ nsec(image.data) = nsec(b) /\ DOMAIN image.data = DOMAIN b
         /\ headers(image.data) = headers(b)
<1>1. /\ Laid(b, DirAt, DirRoom) /\ AllAlone(b, DirAt, DirRoom)
      /\ image.data = Relabelled(b, renamed) /\ renamed \in SUBSET DOMAIN Typeable
  BY DEF Made, Good, NamesOK
<1>2. HasDir(image.data, DirAt, DirRoom)
  BY <1>1, RelabelledDir
<1>3. /\ DOMAIN image.data = DOMAIN b /\ nsec(image.data) = nsec(b)
      /\ \A c \in DirCells(b, DirAt) :
           image.data[c] = Entry(NewName(b[c].name, renamed), b[c].start, b[c].length)
      /\ DirCells(image.data, DirAt) = DirCells(b, DirAt)
      /\ headers(image.data) = headers(b)
  BY <1>1, RelabelledIs
<1>4. ASSUME NEW c \in DirCells(b, DirAt)
      PROVE  image.data[c] = Entry(image.data[c].name, image.data[c].start, image.data[c].length)
  BY <1>3, EntryIs
<1> QED
  BY <1>2, <1>3, <1>4 DEF EntryCells

LEMMA FoundFromInv == SurgeryInv => DirectoryFound
<1> SUFFICES ASSUME SurgeryInv
             PROVE  DirectoryFound
  OBVIOUS
<1>1. PICK b : Made(b)
  BY DEF SurgeryInv
<1>2. /\ HasDir(image.data, DirAt, DirRoom)
      /\ DirCells(image.data, DirAt) = DirCells(b, DirAt)
      /\ nsec(image.data) = nsec(b) /\ DOMAIN image.data = DOMAIN b
  BY <1>1, ImageDir
<1>3. Laid(Was, DirAt, DirRoom) /\ Original.pointer \in {0, DirAt + 1}
  BY WasIs DEF SurgeryInv
<1>4. image.pointer = Original.pointer
  BY DEF SurgeryInv
<1>5. /\ directory_index(image) \in {DirAt, -1}
      /\ _dir_score(image.data, DirAt) >= (IF image.pointer = 0 THEN 5 ELSE 3) =>
           directory_index(image) = DirAt
  BY <1>2, <1>3, <1>4, Found
<1> DEFINE ents == Read(Was, DirAt * Sector, Min({Scored, Was[DirAt * Sector].start}))
           T == {i \in 2 .. Len(ents) :
                   /\ ents[i].name \in {Was[h * Sector].name : h \in headers(Was)}
                   /\ ents[i].name \notin renamed
                   /\ ~(ents[i].name = "0FMU" /\ Fmd)}
<1>6. PICK a, s, n : a = DirAt * Sector /\ s = Was[DirAt * Sector].start /\ n = Min({Scored, s})
  OBVIOUS
<1>7. a \in Nat /\ s \in Nat /\ n \in Nat /\ n <= Scored /\ n <= s /\ Scored \in Nat
  <2>1. a \in Nat /\ s \in Counts
    BY <1>3, <1>6, DirIs
  <2>2. s \in Nat
    BY <2>1, Between
  <2>3. {Scored, s} \in SUBSET Nat /\ {Scored, s} # {}
    BY <2>2, GeometryAssumption
  <2> QED
    BY <1>6, <2>1, <2>2, <2>3, MinOf, GeometryAssumption
<1>8. ents = [k \in 1 .. n |-> Was[a + k - 1]] /\ Len(ents) = n
  <2>1. ents = [k \in 1 .. n |-> Was[a + k - 1]]
    BY <1>6 DEF Read
  <2> DEFINE f == [k \in 1 .. n |-> Was[a + k - 1]]
             S == {f[k] : k \in 1 .. n}
  <2>2. f \in [1 .. n -> S]
    OBVIOUS
  <2>3. Len(f) = n
    <3> HIDE DEF f, S
    <3> QED
      BY <1>7, <2>2, FcnIsSeq
  <2> QED
    BY <2>1, <2>3
<1>9. ASSUME NEW i \in T
      PROVE  /\ i \in 2 .. Scored /\ i <= image.data[DirAt * Sector].start
             /\ PointsAt(DirAt, image.data[DirAt * Sector + i - 1]) \in 0 .. nsec(image.data) - 1
             /\ image.data[PointsAt(DirAt, image.data[DirAt * Sector + i - 1]) * Sector].name
                  = image.data[DirAt * Sector + i - 1].name
  <2>1. i \in 2 .. n /\ i \in 1 .. n
    <3> HIDE DEF ents
    <3> QED
      BY <1>7, <1>8
  <2>2. PICK c : c = a + i - 1
    OBVIOUS
  <2>3. ents[i] = Was[c]
    BY <1>8, <2>1, <2>2
  <2>4. /\ Was[c].name \in {Was[h * Sector].name : h \in headers(Was)}
        /\ Was[c].name \notin renamed
        /\ ~(Was[c].name = "0FMU" /\ Fmd)
    <3> HIDE DEF ents
    <3> QED
      BY <2>3
  <2>5. c \in DirCells(Was, DirAt) \ {DirAt * Sector}
    <3>1. DirCells(Was, DirAt) = a .. a + s - 1
      BY <1>6 DEF DirCells
    <3>2. c \in a .. a + s - 1 /\ c # a
      BY ONLY <1>7, <2>1, <2>2
    <3> QED
      BY <1>6, <3>1, <3>2
  <2>6. /\ c \in DirCells(b, DirAt) /\ b[c].name = Was[c].name
        /\ (DirAt + b[c].start - 1) * Sector \in DOMAIN b
        /\ b[(DirAt + b[c].start - 1) * Sector].name = Was[c].name
    <3>1. IndexKept(Was, b, DirAt, Fmd)
      BY <1>1 DEF Made, Good
    <3> QED
      BY <2>4, <2>5, <3>1 DEF IndexKept
  <2>7. PICK e, p : e = image.data[c] /\ p = DirAt + b[c].start - 1
    OBVIOUS
  <2>8. /\ e = Entry(NewName(b[c].name, renamed), b[c].start, b[c].length)
        /\ p \in Nat /\ image.data[p * Sector] = b[p * Sector] /\ p < nsec(b)
    BY <1>1, <2>5, <2>6, <2>7, EntryWas
  <2>9. e.name = Was[c].name /\ PointsAt(DirAt, e) = p
    <3>1. NewName(b[c].name, renamed) = Was[c].name
      BY <2>4, <2>6 DEF NewName
    <3>2. e.name = Was[c].name /\ e.start = b[c].start
      BY <2>8, <3>1, EntryIs
    <3> QED
      BY <2>7, <3>2 DEF PointsAt
  <2>10. i <= image.data[DirAt * Sector].start
    <3>1. PICK l : l = image.data[DirAt * Sector].start
      OBVIOUS
    <3>2. c \in a .. a + l - 1
      BY <1>2, <1>6, <2>6, <3>1 DEF DirCells
    <3>3. l \in Counts
      BY <1>2, <3>1 DEF HasDir
    <3> QED
      BY ONLY <1>7, <2>1, <2>2, <3>1, <3>2, <3>3, Between
  <2>11. p \in 0 .. nsec(image.data) - 1
    <3>1. nsec(b) \in Nat
      BY <1>2 DEF HasDir
    <3> QED
      BY <1>2, <2>8, <3>1
  <2>12. i \in 2 .. Scored
    BY <1>7, <2>1
  <2>13. DirAt * Sector + i - 1 = c
    BY <1>6, <2>2
  <2>14. image.data[p * Sector].name = e.name
    BY <2>6, <2>7, <2>8, <2>9
  <2> QED
    BY ONLY <2>7, <2>9, <2>10, <2>11, <2>12, <2>13, <2>14
<1>10. Cardinality(T) \in Nat /\ Cardinality(T) <= _dir_score(image.data, DirAt)
  <2> HIDE DEF T
  <2> QED
    BY <1>2, <1>9, ScoreDir
<1>11. _dir_score(image.data, DirAt) \in Nat
  <2>1. DirAt \in 0 .. nsec(image.data) - 1
    BY <1>2 DEF HasDir
  <2> QED
    BY <1>2, <2>1, ScoreType
<1>12. Cardinality(T) >= (IF Original.pointer = 0 THEN 5 ELSE 3) => directory_index(image) = DirAt
  <2> HIDE DEF T
  <2> QED
    BY <1>4, <1>5, <1>10, <1>11
<1>13. DirectoryFound <=>
         /\ directory_index(image) \in {DirAt, -1}
         /\ Cardinality(T) >= (IF Original.pointer = 0 THEN 5 ELSE 3) => directory_index(image) = DirAt
  BY DEF DirectoryFound, Was, DirAt, Fmd
<1> HIDE DEF T
<1> QED
  BY <1>5, <1>12, <1>13

\* The name of the module that an entry was made for, from the one that it had.
LEMMA ProperIs ==
  ASSUME SurgeryInv, NEW b, Made(b), NEW c \in DirCells(b, DirAt)
  PROVE  Proper(NewName(b[c].name, renamed)) = AsCopied(b[c].name)
<1>1. /\ renamed \subseteq DOMAIN Typeable
      /\ \A n \in renamed : b[c].name # Typeable[n]
  BY DEF Made, NamesOK
<1>2. CASE b[c].name \in renamed
  <2>1. PICK n : n = b[c].name
    OBVIOUS
  <2>2. n \in renamed /\ NewName(b[c].name, renamed) = Typeable[n]
    BY <1>2, <2>1 DEF NewName
  <2>3. \A k \in renamed : Typeable[k] = Typeable[n] => k = n
    BY <1>1, <2>2, TypeableAssumption
  <2>4. (CHOOSE k \in renamed : Typeable[k] = Typeable[n]) = n
    BY <2>2, <2>3
  <2>5. Proper(Typeable[n]) = n
    BY <2>2, <2>4 DEF Proper
  <2>6. AsCopied(n) = n
    <3>1. CASE \E m \in ToSet(OSG) : m.as = n
      <4>1. PICK m : m = CHOOSE x \in ToSet(OSG) : x.as = n
        OBVIOUS
      <4>2. m \in ToSet(OSG) /\ m.as = n
        BY <3>1, <4>1
      <4>3. m.as = m.name
        BY ONLY <1>1, <2>2, <4>2, ScriptsAssumption
      <4> QED
        BY <3>1, <4>1, <4>2, <4>3 DEF AsCopied
    <3>2. CASE ~\E m \in ToSet(OSG) : m.as = n
      BY <3>2 DEF AsCopied
    <3> QED
      BY <3>1, <3>2
  <2> QED
    BY <2>1, <2>2, <2>5, <2>6
<1>3. CASE b[c].name \notin renamed
  <2>1. NewName(b[c].name, renamed) = b[c].name
    BY <1>3 DEF NewName
  <2>2. ~\E n \in renamed : Typeable[n] = b[c].name
    BY <1>1
  <2> QED
    BY <2>1, <2>2 DEF Proper, AsCopied
<1> QED
  BY <1>2, <1>3

\* A module of the library, and the header that it leads to.
LEMMA ModuleIs ==
  ASSUME SurgeryInv, NEW b, Made(b), NEW e \in Entries, e.name \notin Specials
  PROVE  \E p \in headers(b) :
           /\ p = PointsAt(DirAt, e) /\ e.start = p + 1 - DirAt /\ p \in Nat /\ DirAt \in Nat
           /\ HeaderOK(b, p) /\ \A x \in Cells(b, p) : image.data[x] = b[x]
           /\ e.length \in Nat /\ e.length <= b[p * Sector].length
           /\ \E h \in Heads(b, p * Sector) :
                /\ h.name = Proper(e.name) \/ (h.name = "0FMD" /\ e.name = "0FMU" /\ Fmd)
                /\ h.length = e.length \/ Proper(e.name) \in Swapped
<1>1. /\ HasDir(image.data, DirAt, DirRoom) /\ DirCells(image.data, DirAt) = DirCells(b, DirAt)
  BY ImageDir
<1>2. /\ Laid(b, DirAt, DirRoom) /\ AllLead(b, DirAt, Fmd, Swapped)
      /\ image.data = Relabelled(b, renamed) /\ renamed \subseteq DOMAIN Typeable
  BY DEF Made, Good, NamesOK
<1>a. PICK a, s, t : DirSpans(image.data, DirAt, a, s, t)
  BY <1>1, DirRead
<1>3. /\ a \in Nat /\ s \in Nat /\ t \in Nat
      /\ a = DirAt * Sector /\ s = image.data[DirAt * Sector].start /\ t = nsec(image.data) * Sector
      /\ s \in Counts /\ a + s <= t
      /\ DirCells(image.data, DirAt) = a .. a + s - 1
      /\ ReadsAs(read_directory(image.data, DirAt), image.data, a, s)
  BY ONLY <1>a DEF DirSpans
<1>4. PICK i \in 2 .. s : e = read_directory(image.data, DirAt)[i]
  <2>1. Entries = {read_directory(image.data, DirAt)[i] : i \in 2 .. Len(read_directory(image.data, DirAt))}
    BY DEF Entries
  <2>2. Len(read_directory(image.data, DirAt)) = s
    BY <1>3 DEF ReadsAs
  <2> QED
    BY ONLY <2>1, <2>2, e \in Entries
<1>5. PICK c : c = a + i - 1
  OBVIOUS
<1>6. c \in a .. a + s - 1 /\ c # a /\ i \in 1 .. s
  <2>1. a \in Nat /\ s \in Nat
    BY ONLY <1>3
  <2> QED
    BY ONLY <1>5, <2>1, i \in 2 .. s
<1>7. c \in DirCells(b, DirAt) \ {DirAt * Sector} /\ e = image.data[c]
  <2>1. e = image.data[c]
    <3>1. read_directory(image.data, DirAt)[i] = image.data[a + i - 1]
      BY ONLY <1>3, <1>6 DEF ReadsAs
    <3> QED
      BY ONLY <1>4, <1>5, <3>1
  <2> QED
    BY <1>1, <1>3, <1>6, <2>1
<1>8. PICK p, n : p = DirAt + b[c].start - 1 /\ n = b[c].name
  OBVIOUS
<1>9. /\ e = Entry(NewName(n, renamed), b[c].start, b[c].length)
      /\ b[c].start \in Nat /\ p \in Nat
      /\ p * Sector \in DOMAIN b => p < nsec(b)
  BY <1>7, <1>8, EntryWas
<1>10. /\ e.name = NewName(n, renamed) /\ e.start = b[c].start /\ e.length = b[c].length
  BY <1>9, EntryIs
<1>11. Proper(e.name) = AsCopied(n)
  BY <1>7, <1>8, <1>10, ProperIs
<1>12. n \notin Specials
  <2>1. n \in Specials => n \notin renamed
    BY <1>2, ScriptsAssumption
  <2> QED
    BY <1>10, <2>1 DEF NewName
<1>13. Leads(b, DirAt, b[c], Fmd, Swapped)
  BY <1>2, <1>7, <1>8, <1>12 DEF AllLead
<1>14. /\ p * Sector \in DOMAIN b /\ b[p * Sector].kind = "head" /\ b[c].length <= b[p * Sector].length
       /\ \E h \in Heads(b, p * Sector) :
            /\ h.name = AsCopied(n) \/ (h.name = "0FMD" /\ n = "0FMU" /\ Fmd)
            /\ h.length = b[c].length \/ AsCopied(n) \in Swapped
  BY <1>8, <1>13 DEF Leads
<1>15. p \in headers(b)
  <2>1. nsec(b) \in Nat
    BY <1>2, LaidIs
  <2>2. p \in 0 .. nsec(b) - 1
    BY <1>9, <1>14, <2>1
  <2> QED
    BY <1>14, <2>2 DEF headers
<1>16. HeaderOK(b, p)
  BY <1>2, <1>15, HeaderIs
<1>17. ASSUME NEW x \in Cells(b, p)
       PROVE  image.data[x] = b[x]
  BY <1>2, <1>15, NotDir, RelabelledIs
<1>18. n = "0FMU" => e.name = "0FMU"
  <2>1. "0FMU" \notin renamed
    BY <1>2, ScriptsAssumption
  <2> QED
    BY <1>10, <2>1 DEF NewName
<1>19. DirAt \in Nat
  BY <1>2, DirIs
<1>20. p = PointsAt(DirAt, e) /\ e.start = p + 1 - DirAt
  <2>1. PointsAt(DirAt, e) = DirAt + e.start - 1
    BY DEF PointsAt
  <2>2. p = DirAt + e.start - 1 /\ e.start \in Nat
    BY <1>8, <1>9, <1>10
  <2>3. PICK x, y : x = DirAt /\ y = e.start
    OBVIOUS
  <2>4. x \in Nat /\ y \in Nat /\ p = x + y - 1
    BY ONLY <1>19, <2>2, <2>3
  <2>5. y = p + 1 - x
    BY ONLY <2>4
  <2> QED
    BY ONLY <2>1, <2>2, <2>3, <2>5
<1>21. e.length \in Nat /\ e.length <= b[p * Sector].length
  <2>1. b[c].length \in Nat
    BY <1>2, <1>7, EntryFields
  <2> QED
    BY <1>10, <1>14, <2>1
<1>22. \E h \in Heads(b, p * Sector) :
         /\ h.name = Proper(e.name) \/ (h.name = "0FMD" /\ e.name = "0FMU" /\ Fmd)
         /\ h.length = e.length \/ Proper(e.name) \in Swapped
  BY <1>10, <1>11, <1>14, <1>18
<1> QED
  BY <1>9, <1>15, <1>16, <1>17, <1>19, <1>20, <1>21, <1>22

LEMMA LibraryFromInv == SurgeryInv => LibraryHolds
<1> SUFFICES ASSUME SurgeryInv
             PROVE  LibraryHolds
  OBVIOUS
<1>1. PICK b : Made(b)
  BY DEF SurgeryInv
<1>2. /\ Laid(b, DirAt, DirRoom)
  BY <1>1 DEF Made, Good
<1>3. nsec(image.data) = nsec(b) /\ DOMAIN image.data = DOMAIN b
  BY <1>1, ImageDir
<1>4. ASSUME NEW e \in Entries, e.name \notin Specials
      PROVE  /\ \E h \in Meant(e) :
                  /\ \/ h.name = Proper(e.name)
                     \/ h.name = "0FMD" /\ e.name = "0FMU" /\ script[1] \in {"fmd_patc", "fmd_allres"}
                  /\ h.length = e.length \/ Proper(e.name) \in Swapped
             /\ (PointsAt(DirAt, e) + SectorsOf(e.length)) * Sector <= Cardinality(DOMAIN image.data)
  <2>1. PICK p \in headers(b) :
           /\ p = PointsAt(DirAt, e) /\ p \in Nat
           /\ HeaderOK(b, p) /\ \A x \in Cells(b, p) : image.data[x] = b[x]
           /\ e.length \in Nat /\ e.length <= b[p * Sector].length
           /\ \E h \in Heads(b, p * Sector) :
                /\ h.name = Proper(e.name) \/ (h.name = "0FMD" /\ e.name = "0FMU" /\ Fmd)
                /\ h.length = e.length \/ Proper(e.name) \in Swapped
    BY <1>1, <1>4, ModuleIs
  <2>2. /\ Heads(image.data, p * Sector) = Heads(b, p * Sector)
        /\ image.data[p * Sector] = b[p * Sector]
    BY <2>1, SameModule
  <2>3. /\ p * Sector \in DOMAIN b /\ b[p * Sector].kind = "head" /\ b[p * Sector].length \in Nat
        /\ Behind(b, p) \in Nat /\ Behind(b, p) <= nsec(b)
    BY <2>1 DEF HeaderOK
  <2>4. Meant(e) = Heads(b, p * Sector)
    BY <1>3, <2>1, <2>2, <2>3 DEF Meant
  <2>5. (p + SectorsOf(e.length)) * Sector <= nsec(b) * Sector
    <3>1. SectorsOf(e.length) \in Nat /\ SectorsOf(e.length) <= SectorsOf(b[p * Sector].length)
          /\ SectorsOf(b[p * Sector].length) \in Nat
      BY <2>1, <2>3, SectorsOfIs
    <3>2. Behind(b, p) = p + SectorsOf(b[p * Sector].length)
      BY DEF Behind
    <3>3. nsec(b) \in Nat
      BY <1>2, LaidIs
    <3>4. p + SectorsOf(e.length) \in Nat /\ p + SectorsOf(e.length) <= nsec(b)
      BY <2>1, <2>3, <3>1, <3>2, <3>3
    <3> QED
      BY <3>3, <3>4, Product
  <2>6. Cardinality(DOMAIN image.data) = nsec(b) * Sector
    BY <1>2, <1>3, LaidIs
  <2>7. (PointsAt(DirAt, e) + SectorsOf(e.length)) * Sector <= Cardinality(DOMAIN image.data)
    BY ONLY <2>1, <2>5, <2>6
  <2>8. \E h \in Meant(e) :
           /\ h.name = Proper(e.name) \/ (h.name = "0FMD" /\ e.name = "0FMU" /\ Fmd)
           /\ h.length = e.length \/ Proper(e.name) \in Swapped
    BY <2>1, <2>4
  <2> QED
    BY <2>7, <2>8 DEF Fmd
<1>5. ASSUME NEW e \in Entries, e.name \notin Specials, NEW f \in Entries, f.name \notin Specials,
             e.start < f.start
      PROVE  e.start + SectorsOf(image.data[PointsAt(DirAt, e) * Sector].length) <= f.start
  <2>1. PICK p \in headers(b) :
           /\ p = PointsAt(DirAt, e) /\ e.start = p + 1 - DirAt /\ p \in Nat /\ DirAt \in Nat
           /\ HeaderOK(b, p) /\ \A x \in Cells(b, p) : image.data[x] = b[x]
    BY <1>1, <1>5, ModuleIs
  <2>2. PICK q \in headers(b) : f.start = q + 1 - DirAt /\ q \in Nat
    BY <1>1, <1>5, ModuleIs
  <2>3. p < q
    BY <1>5, <2>1, <2>2
  <2>4. Behind(b, p) <= q
    BY <1>2, <2>3 DEF Laid
  <2>5. image.data[p * Sector] = b[p * Sector]
    <3>1. HeaderOK(b, p) /\ \A x \in Cells(b, p) : image.data[x] = b[x]
      BY <2>1
    <3> QED
      BY ONLY <3>1, SameModule
  <2>6. PICK k : k = SectorsOf(b[p * Sector].length)
    OBVIOUS
  <2>7. Behind(b, p) = p + k /\ k \in Nat
    <3>1. b[p * Sector].length \in Nat
      BY <2>1 DEF HeaderOK
    <3> QED
      BY <2>6, <3>1, SectorsOfIs DEF Behind
  <2>8. e.start + k <= f.start
    BY ONLY <2>1, <2>2, <2>4, <2>7
  <2> QED
    BY <2>1, <2>5, <2>6, <2>8
<1> QED
  BY <1>4, <1>5 DEF LibraryHolds

\* The cells of a module of the original.
LEMMA ImageCell ==
  ASSUME SurgeryInv, NEW b, Made(b), NEW i \in headers(Was), NEW x \in Cells(Was, i)
  PROVE  image.data[x] = b[x]
<1>1. /\ Laid(b, DirAt, DirRoom) /\ image.data = Relabelled(b, renamed) /\ DOMAIN b = DOMAIN Was
  BY DEF Made, Good
<1>2. Laid(Was, DirAt, DirRoom)
  BY WasIs DEF SurgeryInv
<1>3. x \in DOMAIN Was /\ x \notin DirAt * Sector .. (DirAt + DirRoom) * Sector - 1
  BY <1>2, NotDir
<1>4. x \in DOMAIN b \ DirCells(b, DirAt)
  BY ONLY <1>1, <1>3, DirIs
<1>5. \A y \in DOMAIN b \ DirCells(b, DirAt) : Relabelled(b, renamed)[y] = b[y]
  BY ONLY <1>1, RelabelledIs
<1> QED
  BY ONLY <1>1, <1>4, <1>5

LEMMA WantedFromInv == SurgeryInv => OnlyTheWanted
<1> SUFFICES ASSUME SurgeryInv
             PROVE  OnlyTheWanted
  OBVIOUS
<1>1. PICK b : Made(b)
  BY DEF SurgeryInv
<1>2. Laid(Was, DirAt, DirRoom) /\ ContainersOK(Was)
  BY WasIs DEF SurgeryInv
<1>3. /\ Laid(b, DirAt, DirRoom) /\ ModulesKept(b) /\ image.data = Relabelled(b, renamed)
  BY <1>1 DEF Made, Good
<1> DEFINE Sub(data, i, x) == Read(data, i * Sector + x, 1 + data[i * Sector + x].length)
           K == shelf.K02743.data
           By(i, x) == {s \in script[2] : /\ s.name = Was[i * Sector + x].name
                                          /\ Pair(s)[1] = Was[i * Sector].name}
<1>4. ASSUME NEW i \in headers(Was), Was[i * Sector].name \notin Replaces
      PROVE  Read(image.data, i * Sector, Len(body(Was, i))) = body(Was, i)
  <2>1. HeaderOK(Was, i)
    BY <1>2, HeaderIs
  <2>2. PICK a, n : a = i * Sector /\ n = Sector * SectorsOf(Was[i * Sector].length)
    OBVIOUS
  <2>3. a \in Nat /\ n \in Nat /\ Cells(Was, i) = a .. a + n - 1
    <3>1. i \in Nat /\ Was[i * Sector].length \in Nat
      BY <2>1 DEF HeaderOK
    <3>2. PICK k : k = SectorsOf(Was[i * Sector].length)
      OBVIOUS
    <3>3. k \in Nat /\ Behind(Was, i) = i + k
      BY <3>1, <3>2, SectorsOfIs DEF Behind
    <3>4. (i + k) * Sector = i * Sector + k * Sector /\ k * Sector \in Nat /\ i * Sector \in Nat
      BY <3>1, <3>3, Product
    <3>5. n = k * Sector
      BY <2>2, <3>2, <3>3, GeometryAssumption
    <3> QED
      BY <2>2, <3>3, <3>4, <3>5 DEF Cells
  <2>4. body(Was, i) = Read(Was, a, n)
    BY <2>2 DEF body
  <2>5. Len(body(Was, i)) = n
    BY <2>3, <2>4, ReadIs
  <2>6. ASSUME NEW k \in 0 .. n - 1
        PROVE  image.data[a + k] = Was[a + k]
    <3>1. a + k \in Cells(Was, i)
      BY <2>3
    <3>2. b[a + k] = Was[a + k]
      BY <1>3, <1>4, <3>1 DEF ModulesKept
    <3>3. image.data[a + k] = b[a + k]
      BY <1>1, <3>1, ImageCell
    <3> QED
      BY <3>2, <3>3
  <2>7. Read(image.data, a, n) = Read(Was, a, n)
    <3>1. a \in Int
      BY <2>3
    <3> QED
      BY ONLY <2>3, <2>6, <3>1, SameRead
  <2> QED
    BY <2>2, <2>4, <2>5, <2>7
<1>5. ASSUME NEW i \in headers(Was), script[1] = "ffr", i = Max(Named(Was, Was[i * Sector].name)),
             NEW x \in ToSet(sub_offsets(Was, i * Sector))
      PROVE  IF By(i, x) = {} THEN Sub(image.data, i, x) = Sub(Was, i, x)
             ELSE \E s \in By(i, x) :
                    /\ x \in ToSet(sub_offsets(image.data, i * Sector))
                    /\ Sub(image.data, i, x)
                         = Sub(K, 0, span(K, Pair(s)[2], Was[i * Sector + x].name).at)
  <2>1. HeaderOK(Was, i)
    BY <1>2, HeaderIs
  <2>2. PICK o : o = i * Sector
    OBVIOUS
  <2>3. PICK n \in DOMAIN sub_offsets(Was, o) : x = sub_offsets(Was, o)[n]
    BY <2>2 DEF ToSet
  <2>4. /\ x \in 1 .. Was[o].length /\ Was[o + x].length \in Nat
        /\ SubEnd(Was, o, n) \in Nat /\ SubEnd(Was, o, n) <= 1 + Was[o].length
        /\ x + Was[o + x].length < SubEnd(Was, o, n)
    BY <1>2, <2>2, <2>3, SubRanges
  <2>5. /\ Was[o].length \in Nat /\ o + Was[o].length < Behind(Was, i) * Sector
        /\ o \in Nat /\ Behind(Was, i) * Sector \in Nat
        /\ Cells(Was, i) = o .. Behind(Was, i) * Sector - 1
    <3>1. i \in Nat /\ Behind(Was, i) \in Nat
      BY <2>1 DEF HeaderOK
    <3> QED
      BY <2>1, <2>2, <3>1, Product DEF HeaderOK, Cells
  <2>6. SubKept(b, i, x)
    BY <1>3, <1>5 DEF ModulesKept
  <2>7. CASE By(i, x) = {}
    <3>1. \A k \in 0 .. Was[o + x].length : b[o + x + k] = Was[o + x + k]
      BY <2>2, <2>6, <2>7 DEF SubKept
    <3>2. PICK l, q : l = Was[o + x].length /\ q = o + x
      OBVIOUS
    <3>3. l \in Nat /\ q \in Nat /\ q + l < Behind(Was, i) * Sector /\ o <= q
      <4>1. PICK h, e, m : h = Behind(Was, i) * Sector /\ e = SubEnd(Was, o, n) /\ m = Was[o].length
        OBVIOUS
      <4>2. /\ x \in 1 .. m /\ l \in Nat /\ e \in Nat /\ e <= 1 + m /\ x + l < e
            /\ m \in Nat /\ o + m < h /\ o \in Nat /\ h \in Nat /\ q = o + x
        BY ONLY <2>4, <2>5, <3>2, <4>1
      <4>3. l \in Nat /\ q \in Nat /\ q + l < h /\ o <= q
        BY ONLY <4>2
      <4> QED
        BY ONLY <4>1, <4>3
    <3>4. ASSUME NEW k \in 0 .. l
          PROVE  image.data[q + k] = Was[q + k]
      <4>1. q + k \in Cells(Was, i)
        BY ONLY <2>5, <3>3, k \in 0 .. l
      <4>2. image.data[q + k] = b[q + k]
        BY <1>1, <4>1, ImageCell
      <4> QED
        BY <3>1, <3>2, <4>2
    <3>5. image.data[q] = Was[q]
      <4>1. 0 \in 0 .. l /\ q + 0 = q
        BY <3>3
      <4> QED
        BY <3>4, <4>1
    <3>6. Read(image.data, q, 1 + l) = Read(Was, q, 1 + l)
      <4>1. q \in Int /\ 1 + l \in Nat /\ \A k \in 0 .. (1 + l) - 1 : k \in 0 .. l
        BY <3>3
      <4>2. \A k \in 0 .. (1 + l) - 1 : image.data[q + k] = Was[q + k]
        BY <3>4, <4>1
      <4> QED
        BY ONLY <4>1, <4>2, SameRead
    <3> QED
      BY <2>2, <2>7, <3>2, <3>5, <3>6
  <2>8. CASE By(i, x) # {}
    <3>1. PICK s \in By(i, x), at \in Nat :
            /\ at = span(K, Pair(s)[2], Was[o + x].name).at
            /\ i \in headers(b) /\ x \in ToSet(sub_offsets(b, o))
            /\ K[at].length \in Nat
            /\ o + x + K[at].length < Behind(Was, i) * Sector
            /\ \A k \in 0 .. K[at].length : b[o + x + k] = K[at + k]
      BY <2>2, <2>6, <2>8 DEF SubKept
    <3> HIDE DEF K, By
    <3>2. PICK l, q : l = K[at].length /\ q = o + x
      OBVIOUS
    <3>3. l \in Nat /\ q \in Nat /\ q + l < Behind(Was, i) * Sector /\ o <= q
      <4>1. l \in Nat /\ o + x + l < Behind(Was, i) * Sector
        BY ONLY <3>1, <3>2
      <4> QED
        BY ONLY <2>4, <2>5, <3>2, <4>1
    <3>4. ASSUME NEW k \in 0 .. l
          PROVE  image.data[q + k] = K[at + k]
      <4>1. q + k \in Cells(Was, i)
        BY ONLY <2>5, <3>3, k \in 0 .. l
      <4>2. image.data[q + k] = b[q + k]
        BY <1>1, <4>1, ImageCell
      <4> QED
        BY <3>1, <3>2, <4>2
    <3>5. image.data[q] = K[at]
      <4>1. 0 \in 0 .. l /\ q + 0 = q /\ at + 0 = at
        BY <3>3
      <4> QED
        BY <3>4, <4>1
    <3>6. Read(image.data, q, 1 + l) = Read(K, at, 1 + l)
      <4>1. q \in Int /\ at \in Int /\ 1 + l \in Nat /\ \A k \in 0 .. (1 + l) - 1 : k \in 0 .. l
        BY <3>3
      <4>2. \A k \in 0 .. (1 + l) - 1 : image.data[q + k] = K[at + k]
        BY <3>4, <4>1
      <4>3. PICK kk : kk = K
        OBVIOUS
      <4>4. \A k \in 0 .. (1 + l) - 1 : image.data[q + k] = kk[at + k]
        BY <4>2, <4>3
      <4>5. Read(image.data, q, 1 + l) = Read(kk, at, 1 + l)
        <5>1. PICK d, z : d = image.data /\ z = 1 + l
          OBVIOUS
        <5>2. z \in Nat /\ q \in Int /\ at \in Int
          BY ONLY <4>1, <5>1
        <5>3. \A k \in 0 .. z - 1 : d[q + k] = kk[at + k]
          BY ONLY <4>4, <5>1
        <5>4. Read(d, q, z) = Read(kk, at, z)
          BY ONLY <5>2, <5>3, SameRead
        <5> QED
          BY ONLY <5>1, <5>4
      <4> QED
        BY <4>3, <4>5
    <3>7. sub_offsets(image.data, o) = sub_offsets(b, o)
      <4>0. i \in headers(b) /\ Laid(b, DirAt, DirRoom)
        BY <1>3, <3>1
      <4>1. HeaderOK(b, i)
        BY ONLY <4>0, HeaderIs
      <4>2. \A y \in Cells(b, i) : y \in DOMAIN b \ DirCells(b, DirAt)
        BY ONLY <4>0, NotDir
      <4>3. \A y \in DOMAIN b \ DirCells(b, DirAt) : image.data[y] = b[y]
        BY <1>3, RelabelledIs
      <4>4. \A y \in Cells(b, i) : image.data[y] = b[y]
        BY ONLY <4>2, <4>3
      <4>5. sub_offsets(image.data, i * Sector) = sub_offsets(b, i * Sector)
        BY ONLY <4>1, <4>4, SameModule
      <4> QED
        BY ONLY <2>2, <4>5
    <3>8. Sub(image.data, i, x) = Read(image.data, q, 1 + l)
      BY <2>2, <3>2, <3>5
    <3>9. Sub(K, 0, at) = Read(K, at, 1 + l)
      <4>1. 0 * Sector + at = at
        BY ONLY GeometryAssumption, at \in Nat
      <4> QED
        BY <3>2, <4>1
    <3>10. x \in ToSet(sub_offsets(image.data, i * Sector))
      BY <2>2, <3>1, <3>7
    <3>11. Sub(image.data, i, x) = Sub(K, 0, span(K, Pair(s)[2], Was[i * Sector + x].name).at)
      BY <2>2, <3>1, <3>6, <3>8, <3>9
    <3> HIDE DEF Sub
    <3> QED
      BY <2>8, <3>10, <3>11
  <2> HIDE DEF Sub, K, By
  <2> QED
    BY <2>7, <2>8
<1> QED
  BY <1>4, <1>5 DEF OnlyTheWanted, Was

LEMMA SlotsFromInv == SurgeryInv => SlotsLead
<1> SUFFICES ASSUME SurgeryInv, script[1] = "containers"
             PROVE  SlotsLead
  BY DEF SlotsLead
<1>1. PICK b : Made(b)
  BY DEF SurgeryInv
<1>2. Laid(Was, DirAt, DirRoom) /\ b = Was
  BY <1>1, WasIs DEF SurgeryInv, Made, Good
<1>3. PICK rts, ini :
        /\ script = <<"containers", <<rts, ini>>>>
        /\ Named(Was, rts) # {} /\ Named(Was, ini) # {}
        /\ image.slots = <<SlotFor(Was, Max(Named(Was, rts))), SlotFor(Was, Max(Named(Was, ini)))>>
  BY DEF SurgeryInv, SlotsMade
<1>4. headers(image.data) = headers(Was)
  BY <1>1, <1>2, ImageDir
<1>5. ASSUME NEW i \in headers(Was)
      PROVE  image.data[i * Sector] = Was[i * Sector]
  <2>1. i * Sector \in Cells(Was, i)
    BY <1>2, HeaderIs DEF HeaderOK
  <2> QED
    BY <1>1, <1>2, <2>1, ImageCell
<1>6. ASSUME NEW name, Named(Was, name) # {}, NEW slot, slot = SlotFor(Was, Max(Named(Was, name)))
      PROVE  LET i == SlotIndex(slot)
             IN  /\ i \in headers(image.data)
                 /\ image.data[i * Sector].name = name
                 /\ image.data[i * Sector].length = slot.length
                 /\ i = Max(Named(image.data, name))
  <2>1. PICK i : i = Max(Named(Was, name))
    OBVIOUS
  <2>2. i \in headers(Was) /\ Was[i * Sector].name = name
    <3>1. nsec(Was) \in Nat
      BY <1>2, LaidIs
    <3> QED
      BY <1>6, <2>1, <3>1, LastNamed
  <2>3. i \in Nat
    BY <1>2, <2>2, HeaderIs DEF HeaderOK
  <2>4. SlotIndex(slot) = i
    BY <1>6, <2>1, <2>3, SlotIndexOf
  <2>5. Named(image.data, name) = Named(Was, name)
    BY <1>4, <1>5 DEF Named
  <2>6. slot.length = Was[i * Sector].length
    BY <1>6, <2>1 DEF SlotFor
  <2> QED
    BY <1>4, <1>5, <2>1, <2>2, <2>4, <2>5, <2>6
<1>7. ASSUME NEW n \in {1, 2}
      PROVE  LET i == SlotIndex(image.slots[n])
             IN  /\ i \in headers(image.data)
                 /\ image.data[i * Sector].name = script[2][n]
                 /\ image.data[i * Sector].length = image.slots[n].length
                 /\ i = Max(Named(image.data, script[2][n]))
  <2>1. CASE n = 1
    <3>1. image.slots[n] = SlotFor(Was, Max(Named(Was, rts))) /\ script[2][n] = rts
      BY <1>3, <2>1
    <3> QED
      BY <1>3, <1>6, <3>1
  <2>2. CASE n = 2
    <3>1. image.slots[n] = SlotFor(Was, Max(Named(Was, ini))) /\ script[2][n] = ini
      BY <1>3, <2>2
    <3> QED
      BY <1>3, <1>6, <3>1
  <2> QED
    BY <2>1, <2>2
<1> QED
  BY <1>7 DEF SlotsLead

------------------------------------------------------------------------------
(* The originals.                                                           *)

\* The entries of an original.
LEMMA EntryLeads ==
  ASSUME shelf \in Shelves, disk \in DOMAIN shelf,
         NEW c \in DirCells(Was, DirAt) \ {DirAt * Sector}, NEW e, e = Was[c],
         NEW p, p = DirAt + e.start - 1
  PROVE  /\ Alone(Was, DirAt, DirRoom, e) /\ AsCopied(e.name) = e.name
         /\ e.start \in Nat /\ DirAt \in Nat
         /\ e.name \notin Specials =>
              /\ p \in headers(Was)
              /\ \E h \in Heads(Was, p * Sector) : h.name = e.name /\ h.length = e.length
         /\ e.name \in {Was[i * Sector].name : i \in headers(Was)} =>
              p * Sector \in DOMAIN Was /\ Was[p * Sector].name = e.name
<1>1. Laid(Was, DirAt, DirRoom) /\ ContainersOK(Was) /\ EntriesLead(Was, DirAt, DirRoom)
  BY WasIs
<1>2. PICK o : o = p * Sector
  OBVIOUS
<1>3. e.start \in Nat /\ e.name # "" /\ c \in DOMAIN Was
  BY <1>1, EntryFields
<1>4. DirAt \in Nat
  BY <1>1, DirIs
<1>5. /\ e.start > DirRoom
      /\ e.name \notin Specials =>
           /\ o \in DOMAIN Was /\ Was[o].kind = "head"
           /\ \E h \in Heads(Was, o) : h.name = e.name /\ h.length = e.length
      /\ e.name \in {Was[i * Sector].name : i \in headers(Was)} => Was[o].name = e.name
      /\ \A m \in 1 .. DirRoom - 1 :
           o + m * Sector \in DOMAIN Was => Was[o + m * Sector].name # e.name
  BY <1>1, <1>2 DEF EntriesLead
<1>6. Alone(Was, DirAt, DirRoom, e)
  BY <1>2, <1>3, <1>5 DEF Alone
<1>7. AsCopied(e.name) = e.name
  BY OriginalIs, SameAsCopied DEF Was, DirAt, Original
<1>8. ASSUME e.name \notin Specials
      PROVE  p \in headers(Was)
  <2>1. DirRoom \in Nat \ {0}
    BY <1>1, DirIs
  <2>2. p \in Nat
    <3>1. p = DirAt + e.start - 1 /\ e.start > DirRoom /\ e.start \in Nat
      BY <1>3, <1>5
    <3> QED
      BY ONLY <1>4, <2>1, <3>1
  <2>3. nsec(Was) \in Nat /\ \A i \in Nat : i * Sector \in DOMAIN Was <=> i < nsec(Was)
    BY ONLY <1>1, LaidIs
  <2>4. p < nsec(Was)
    BY <1>2, <1>5, <1>8, <2>2, <2>3
  <2>5. p \in 0 .. nsec(Was) - 1
    BY <2>2, <2>3, <2>4
  <2> QED
    BY <1>2, <1>5, <1>8, <2>5 DEF headers
<1>9. ASSUME e.name \in {Was[i * Sector].name : i \in headers(Was)}
      PROVE  p * Sector \in DOMAIN Was /\ Was[p * Sector].name = e.name
  <2>1. e.name \notin Specials
    BY <1>1, <1>9 DEF Laid
  <2> QED
    BY <1>2, <1>5, <1>9, <2>1
<1>10. e.name \notin Specials =>
         \E h \in Heads(Was, p * Sector) : h.name = e.name /\ h.length = e.length
  BY <1>2, <1>5
<1> QED
  BY <1>3, <1>4, <1>6, <1>7, <1>8, <1>9, <1>10

\* What is on the disk as long as no script has run, or only the boot descriptor
\* was made.
LEMMA WasGood ==
  ASSUME shelf \in Shelves, disk \in DOMAIN shelf, script[1] \in {"none", "containers"}
  PROVE  Good(Was)
<1>1. Laid(Was, DirAt, DirRoom) /\ ContainersOK(Was)
  BY WasIs
<1>2. AllAlone(Was, DirAt, DirRoom)
  BY EntryLeads DEF AllAlone
<1>3. ASSUME NEW c \in DirCells(Was, DirAt) \ {DirAt * Sector}, Was[c].name \notin Specials
      PROVE  Leads(Was, DirAt, Was[c], Fmd, Swapped)
  <2>1. PICK p, e : e = Was[c] /\ p = DirAt + e.start - 1
    OBVIOUS
  <2>2. p \in headers(Was) /\ AsCopied(e.name) = e.name
    BY <1>3, <2>1, EntryLeads
  <2>3. PICK h \in Heads(Was, p * Sector) : h.name = e.name /\ h.length = e.length
    BY <1>3, <2>1, EntryLeads
  <2>4. h.length <= Was[p * Sector].length
    BY <1>1, <2>2, HeadLength
  <2>5. HeaderOK(Was, p)
    BY <1>1, <2>2, HeaderIs
  <2> QED
    BY <2>1, <2>2, <2>3, <2>4, <2>5 DEF Leads, HeaderOK
<1>4. AllLead(Was, DirAt, Fmd, Swapped)
  BY <1>3 DEF AllLead
<1>5. IndexKept(Was, Was, DirAt, Fmd)
  <2> SUFFICES ASSUME NEW c \in DirCells(Was, DirAt) \ {DirAt * Sector},
                      Was[c].name \in {Was[i * Sector].name : i \in headers(Was)}
               PROVE  /\ (DirAt + Was[c].start - 1) * Sector \in DOMAIN Was
                      /\ Was[(DirAt + Was[c].start - 1) * Sector].name = Was[c].name
    BY DEF IndexKept
  <2> QED
    BY EntryLeads
<1>6. ModulesKept(Was)
  BY DEF ModulesKept
<1> QED
  BY <1>1, <1>2, <1>4, <1>5, <1>6 DEF Good

Untouched == shelf \in Shelves /\ disk \in DOMAIN shelf /\ script[1] \in {"none", "containers"}

LEMMA GoodNow == Untouched => Good(Was)
BY WasGood DEF Untouched

LEMMA GoodLater == Untouched' => Good(Was)'
BY GoodNow, PTL

LEMMA GoodThen ==
  ASSUME shelf' \in Shelves, disk' \in DOMAIN shelf', script'[1] \in {"none", "containers"}
  PROVE  Good(Was)'
BY GoodLater DEF Untouched

LEMMA InitInv == SurgeryInit => SurgeryInv
<1> SUFFICES ASSUME SurgeryInit
             PROVE  SurgeryInv
  OBVIOUS
<1>1. /\ shelf \in Shelves /\ disk \in DOMAIN shelf /\ image = Original
      /\ script = <<"none">> /\ script[1] = "none" /\ renamed = {}
  BY DEF SurgeryInit, Original
<1>2. Good(Was) /\ Laid(Was, DirAt, DirRoom)
  BY <1>1, WasGood, WasIs
<1>3. image.data = Relabelled(Was, renamed)
  BY <1>1, <1>2, RelabelledNone DEF Was
<1>4. Made(Was)
  BY <1>1, <1>2, <1>3 DEF Made, NamesOK
<1>5. image = [data |-> image.data, pointer |-> Original.pointer, dir |-> DirAt, slots |-> image.slots]
  BY <1>1, OriginalIs DEF Original, DirAt
<1>6. SlotsMade
  BY <1>1 DEF SlotsMade
<1> QED
  BY <1>1, <1>4, <1>5, <1>6 DEF SurgeryInv

------------------------------------------------------------------------------
(* The scripts.                                                             *)

\* A script finds the original.
LEMMA AsOriginal ==
  ASSUME SurgeryInv, script = <<"none">>, renamed = {}
  PROVE  image.data = Was
<1>1. PICK b : Made(b)
  BY DEF SurgeryInv
<1>2. b = Was
  BY <1>1 DEF Made, Good
<1>3. Laid(Was, DirAt, DirRoom)
  BY WasIs DEF SurgeryInv
<1> QED
  BY <1>1, <1>2, <1>3, RelabelledNone DEF Made

\* What a script leaves alone.
LEMMA SameOriginal ==
  ASSUME UNCHANGED <<shelf, disk>>
  PROVE  Was' = Was /\ DirAt' = DirAt /\ DirRoom' = DirRoom /\ Original' = Original
BY DEF Was, DirAt, DirRoom, Original

LEMMA AliasStep ==
  ASSUME SurgeryInv, NEW names \in SUBSET DOMAIN Typeable, AliasPound(names)
  PROVE  SurgeryInv'
<1>1. PICK b : Made(b)
  BY DEF SurgeryInv
<1>2. HasDir(image.data, DirAt, DirRoom) /\ EntryCells(image.data, DirAt)
      /\ DirCells(image.data, DirAt) = DirCells(b, DirAt)
  BY <1>1, ImageDir
<1>3. directory_index(image) = DirAt
  <2>1. image.pointer \in {0, DirAt + 1}
    BY WasIs DEF SurgeryInv
  <2>2. directory_index(image) \in {DirAt, -1}
    BY <1>2, <2>1, Found
  <2> QED
    BY <2>2 DEF AliasPound
<1>4. PICK ents : ents = read_directory(image.data, DirAt)
  OBVIOUS
<1>5. PICK new : new = Write(image.data, DirAt * Sector,
                             [i \in DOMAIN ents |-> IF ents[i].name \in names
                                                    THEN [ents[i] EXCEPT !.name = Typeable[@]]
                                                    ELSE ents[i]])
  OBVIOUS
<1>6. new = Relabelled(image.data, names)
      /\ {e.name : e \in ToSet(ents)} = {image.data[c].name : c \in DirCells(b, DirAt)}
  BY <1>2, <1>4, <1>5, AliasWrites
<1>7. /\ \A n \in names : Typeable[n] \notin {e.name : e \in ToSet(ents)}
      /\ image' = [image EXCEPT !.data = new] /\ renamed' = renamed \cup names
      /\ UNCHANGED <<shelf, disk, script>>
  BY <1>3, <1>4, <1>5 DEF AliasPound
<1>8. renamed \subseteq DOMAIN Typeable
  BY <1>1 DEF Made, NamesOK
<1>9. image'.data = Relabelled(b, renamed')
  <2>1. image'.data = new
    BY <1>7 DEF SurgeryInv
  <2> QED
    BY <1>1, <1>6, <1>7, <1>8, <2>1, RelabelledTwice DEF Made
<1>10. Was' = Was /\ DirAt' = DirAt /\ DirRoom' = DirRoom /\ Original' = Original
  BY <1>7, SameOriginal
<1>11. Good(b)'
  <2>1. Good(b)
    BY <1>1 DEF Made
  <2>2. Fmd' = Fmd /\ Swapped' = Swapped /\ Replaces' = Replaces
    BY <1>7 DEF Fmd, Swapped, Replaces
  <2>3. ModulesKept(b)' = ModulesKept(b)
    BY <1>7, <1>10, <2>2 DEF ModulesKept, SubKept
  <2> QED
    BY <1>7, <1>10, <2>1, <2>2, <2>3 DEF Good
<1>12. NamesOK(b, DirAt, renamed')
  <2> SUFFICES ASSUME NEW n \in renamed', NEW c \in DirCells(b, DirAt), b[c].name = Typeable[n]
               PROVE  FALSE
    BY <1>7, <1>8 DEF NamesOK
  <2>1. n \notin renamed
    BY <1>1 DEF Made, NamesOK
  <2>2. n \in names
    BY <1>7, <2>1
  <2>3. Laid(b, DirAt, DirRoom)
    BY <1>1 DEF Made, Good
  <2>4. image.data[c] = Entry(NewName(b[c].name, renamed), b[c].start, b[c].length)
    BY <1>1, <2>3, RelabelledIs DEF Made
  <2>5. Typeable[n] \notin DOMAIN Typeable
    BY <2>2, TypeableAssumption
  <2>6. image.data[c].name = Typeable[n]
    BY <1>8, <2>4, <2>5, EntryIs DEF NewName
  <2> QED
    BY <1>6, <1>7, <2>2, <2>6
<1>13. Made(b)'
  BY <1>9, <1>10, <1>11, <1>12 DEF Made
<1>14. image' = [data |-> image'.data, pointer |-> Original'.pointer, dir |-> DirAt', slots |-> image'.slots]
  BY <1>7, <1>10 DEF SurgeryInv
<1>15. SlotsMade'
  <2>1. image'.slots = image.slots
    BY <1>7 DEF SurgeryInv
  <2> QED
    BY <1>7, <1>10, <2>1 DEF SurgeryInv, SlotsMade
<1> QED
  BY <1>7, <1>13, <1>14, <1>15 DEF SurgeryInv

LEMMA ContainersStep ==
  ASSUME SurgeryInv, NEW rts, NEW ini, Oslem7Containers(rts, ini)
  PROVE  SurgeryInv'
<1>1. /\ script = <<"none">> /\ renamed = {}
      /\ Named(Was, rts) # {} /\ Named(Was, ini) # {}
      /\ script' = <<"containers", <<rts, ini>>>> /\ script'[1] = "containers"
      /\ image' = [image EXCEPT !.slots = <<SlotFor(Was, Max(Named(Was, rts))),
                                            SlotFor(Was, Max(Named(Was, ini)))>>]
      /\ UNCHANGED <<shelf, disk, renamed>>
  BY DEF Oslem7Containers, Was
<1>2. image.data = Was /\ shelf \in Shelves /\ disk \in DOMAIN shelf
  BY <1>1, AsOriginal DEF SurgeryInv
<1>3. Was' = Was /\ DirAt' = DirAt /\ DirRoom' = DirRoom /\ Original' = Original
  BY <1>1, SameOriginal
<1>4. Good(Was)'
  BY <1>1, <1>2, GoodThen
<1>5. image'.data = Was /\ image'.slots = <<SlotFor(Was, Max(Named(Was, rts))),
                                            SlotFor(Was, Max(Named(Was, ini)))>>
  BY <1>1, <1>2 DEF SurgeryInv
<1>6. Made(Was)'
  <2>1. Laid(Was, DirAt, DirRoom)
    BY <1>2, WasIs
  <2>2. image'.data = Relabelled(Was, renamed')
    BY <1>1, <1>5, <2>1, RelabelledNone
  <2>3. NamesOK(Was, DirAt, renamed')
    BY <1>1 DEF NamesOK
  <2> QED
    BY <1>3, <1>4, <2>2, <2>3 DEF Made
<1>7. SlotsMade'
  BY <1>1, <1>3, <1>5 DEF SlotsMade
<1>8. image' = [data |-> image'.data, pointer |-> Original'.pointer, dir |-> DirAt', slots |-> image'.slots]
  BY <1>1, <1>3 DEF SurgeryInv
<1> QED
  BY <1>1, <1>2, <1>3, <1>6, <1>7, <1>8 DEF SurgeryInv

\* It is enough to look at what a script writes.
LEMMA EditStep ==
  ASSUME SurgeryInv, NEW name, NEW on, NEW b, Edits(name, on, b),
         name[1] \notin {"none", "containers"},
         DOMAIN b = DOMAIN Was, Laid(b, DirAt, DirRoom), AllAlone(b, DirAt, DirRoom),
         NEW fmd, fmd = (name[1] \in {"fmd_patc", "fmd_allres"}),
         NEW swapped, swapped = (IF name[1] = "ffr" THEN {s.name : s \in name[2]} ELSE {}),
         AllLead(b, DirAt, fmd, swapped), IndexKept(Was, b, DirAt, fmd), ModulesKept(b)'
  PROVE  SurgeryInv'
<1>1. /\ script = <<"none">> /\ renamed = {} /\ renamed' = {} /\ script' = name
      /\ image' = [image EXCEPT !.data = b]
      /\ UNCHANGED <<shelf, disk>>
  BY DEF Edits
<1>2. Was' = Was /\ DirAt' = DirAt /\ DirRoom' = DirRoom /\ Original' = Original
  BY <1>1, SameOriginal
<1>3. Fmd' = fmd /\ Swapped' = swapped
  BY <1>1 DEF Fmd, Swapped
<1>4. Good(b)'
  BY <1>1, <1>2, <1>3 DEF Good
<1>5. image'.data = b
  BY <1>1 DEF SurgeryInv
<1>6. Made(b)'
  <2>1. image'.data = Relabelled(b, renamed')
    BY <1>1, <1>5, RelabelledNone
  <2>2. NamesOK(b, DirAt, renamed')
    BY <1>1 DEF NamesOK
  <2> QED
    BY <1>2, <1>4, <2>1, <2>2 DEF Made
<1>7. SlotsMade'
  BY <1>1 DEF SlotsMade
<1>8. image' = [data |-> image'.data, pointer |-> Original'.pointer, dir |-> DirAt', slots |-> image'.slots]
  BY <1>1, <1>2 DEF SurgeryInv
<1> QED
  BY <1>1, <1>2, <1>6, <1>7, <1>8 DEF SurgeryInv

LEMMA LeadsAgain ==
  ASSUME shelf \in Shelves, disk \in DOMAIN shelf,
         NEW c \in DirCells(Was, DirAt) \ {DirAt * Sector}, Was[c].name \notin Specials,
         NEW p, p = DirAt + Was[c].start - 1,
         NEW b, DOMAIN b = DOMAIN Was, \A x \in Cells(Was, p) : b[x] = Was[x],
         NEW fmd, NEW swapped
  PROVE  p \in headers(Was) /\ Leads(b, DirAt, Was[c], fmd, swapped)
<1>1. Laid(Was, DirAt, DirRoom) /\ ContainersOK(Was)
  BY WasIs
<1>2. PICK e : e = Was[c]
  OBVIOUS
<1>3. p \in headers(Was) /\ AsCopied(e.name) = e.name
  BY <1>2, EntryLeads
<1>4. PICK h \in Heads(Was, p * Sector) : h.name = e.name /\ h.length = e.length
  BY <1>2, EntryLeads
<1>5. h.length <= Was[p * Sector].length
  BY <1>1, <1>3, HeadLength
<1>6. HeaderOK(Was, p)
  BY <1>1, <1>3, HeaderIs
<1>7. Heads(b, p * Sector) = Heads(Was, p * Sector) /\ b[p * Sector] = Was[p * Sector]
  BY <1>6, SameModule
<1> QED
  BY <1>2, <1>3, <1>4, <1>5, <1>6, <1>7 DEF Leads, HeaderOK

\* A module that a script does not write to.
LEMMA ModulesAgain ==
  ASSUME NEW b, UNCHANGED <<shelf, disk>>, script'[1] # "ffr", NEW replaced, replaced = Replaces',
         \A i \in headers(Was) : Was[i * Sector].name \notin replaced =>
                                   \A c \in Cells(Was, i) : b[c] = Was[c]
  PROVE  ModulesKept(b)'
<1>1. Was' = Was
  BY SameOriginal
<1> QED
  BY <1>1 DEF ModulesKept

(* build_k02743_fmd.py                                                      *)

\* What is written back over cells that did not change changes one of them.
LEMMA BufferBack ==
  ASSUME NEW w, NEW d, NEW n \in Nat, NEW i \in 0 .. n - 1, NEW x, DOMAIN w \subseteq Nat,
         d = [c \in DOMAIN w |-> d[c]], \A c \in DOMAIN w : c <= n - 1 => d[c] = w[c]
  PROVE  Write(d, 0, [Read(w, 0, n) EXCEPT ![i + 1] = x]) = [d EXCEPT ![i] = x]
<1>1. PICK a, b, e : /\ a = [k \in 1 .. n |-> w[0 + k - 1]] /\ b = [a EXCEPT ![i + 1] = x]
                     /\ e = [d EXCEPT ![i] = x]
  OBVIOUS
<1>2. /\ DOMAIN b = 1 .. n /\ b[i + 1] = x
      /\ \A k \in 1 .. n : k # i + 1 => b[k] = w[0 + k - 1]
  BY <1>1
<1>3. /\ e = [c \in DOMAIN w |-> e[c]]
      /\ \A c \in DOMAIN w : e[c] = IF c = i THEN x ELSE d[c]
  BY <1>1
<1>4. ASSUME NEW c \in DOMAIN w
      PROVE  (IF c - 0 + 1 \in DOMAIN b THEN b[c - 0 + 1] ELSE d[c]) = e[c]
  <2>1. c \in Nat /\ c - 0 + 1 = c + 1
    OBVIOUS
  <2>2. CASE c = i
    BY <1>2, <1>3, <2>1, <2>2
  <2>3. CASE c # i /\ c <= n - 1
    <3>1. c + 1 \in 1 .. n /\ c + 1 # i + 1 /\ 0 + (c + 1) - 1 = c
      BY <2>1, <2>3
    <3>2. b[c + 1] = w[c]
      BY <1>2, <3>1
    <3> QED
      BY <1>2, <1>3, <2>1, <2>3, <3>1, <3>2
  <2>4. CASE ~(c <= n - 1)
    <3>1. c + 1 \notin 1 .. n /\ c # i
      BY <2>1, <2>4
    <3> QED
      BY <1>2, <1>3, <2>1, <3>1
  <2> QED
    BY <2>2, <2>3, <2>4
<1>5. Write(d, 0, b) = [c \in DOMAIN w |-> e[c]]
  BY <1>4 DEF Write
<1>6. Read(w, 0, n) = a
  BY <1>1 DEF Read
<1> QED
  BY <1>1, <1>3, <1>5, <1>6

LEMMA FloppyIs ==
  ASSUME SurgeryInv, script = <<"none">>, renamed = {}, disk = "K02743", Floppies # {}
  PROVE  /\ Laid(Was, DirAt, DirRoom) /\ DirAt = 0 /\ image.data = Was
         /\ Was = shelf["K02743"].data /\ DirRoom = Room("K02743", shelf["K02743"])
         /\ K02743OK(shelf["K02743"])
         /\ OldFloppy \in DirCells(Was, 0) /\ OldFloppy # 0 /\ Was[OldFloppy].name = "0FMU"
         /\ Buffer * Sector \in Nat /\ OldFloppy \in 0 .. Buffer * Sector - 1
         /\ DOMAIN Was \subseteq Nat /\ Was = [c \in DOMAIN Was |-> Was[c]]
<1>1. /\ Laid(Was, DirAt, DirRoom) /\ image.data = Was
      /\ shelf \in Shelves /\ disk \in DOMAIN shelf
  BY AsOriginal, WasIs DEF SurgeryInv
<1>2. /\ Was = shelf["K02743"].data /\ DirRoom = Room("K02743", shelf["K02743"])
      /\ DirAt = shelf["K02743"].dir
  BY DEF Was, DirRoom, Original, DirAt
<1>3. K02743OK(shelf["K02743"])
  BY <1>1, OriginalsAssumption
<1>4. DirAt = 0
  BY <1>2, <1>3 DEF K02743OK
<1>5. Was[DirAt * Sector].name # "0FMU"
  BY <1>1, <1>2, OriginalIs
<1>6. 0 * Sector = 0
  BY GeometryAssumption
<1>7. Was[0].start \in Nat /\ DirCells(Was, 0) = 0 .. Was[0].start - 1
  <2>1. Was[DirAt * Sector].start \in Counts
    BY <1>1, DirIs
  <2>2. Was[0].start \in Counts
    BY <1>4, <1>6, <2>1
  <2>3. Was[0].start \in Nat
    BY <2>2, Between
  <2>4. DirCells(Was, 0) = 0 * Sector .. 0 * Sector + Was[0 * Sector].start - 1
    BY DEF DirCells
  <2>5. 0 + Was[0].start - 1 = Was[0].start - 1
    BY ONLY <2>3
  <2> QED
    BY <1>6, <2>3, <2>4, <2>5
<1>8. PICK n, b, m : n = Was[0].start /\ b = Buffer * Sector /\ m = Min({n, b})
  OBVIOUS
<1>9. n \in Nat /\ b \in Nat
  <2>1. Buffer \in Nat /\ Sector \in Nat
    BY BufferAssumption, GeometryAssumption
  <2>2. Buffer * Sector \in Nat
    BY <2>1
  <2> QED
    BY <1>7, <1>8, <2>2
<1>10. m \in Nat /\ m <= n /\ m <= b
  <2>1. {n, b} \in SUBSET Nat /\ {n, b} # {}
    BY <1>9
  <2>2. m \in {n, b} /\ \A k \in {n, b} : m <= k
    BY <1>8, <2>1, MinOf
  <2> QED
    BY <1>9, <2>2
<1>11. Floppies = {i \in 0 .. m - 1 : Was[i].name = "0FMU"}
  BY <1>1, <1>8 DEF Floppies
<1>12. Floppies \in SUBSET Nat
  BY <1>10, <1>11
<1>13. OldFloppy \in Floppies
  BY <1>12, MinOf DEF OldFloppy
<1>14. OldFloppy \in 0 .. n - 1 /\ OldFloppy \in 0 .. b - 1 /\ Was[OldFloppy].name = "0FMU"
  BY <1>9, <1>10, <1>11, <1>13
<1>15. DOMAIN Was \subseteq Nat /\ Was = [c \in DOMAIN Was |-> Was[c]]
  <2>1. nsec(Was) * Sector \in Nat
    BY <1>1, GeometryAssumption DEF Laid
  <2> QED
    BY <1>1, <2>1 DEF Laid
<1>16. OldFloppy # 0 /\ OldFloppy \in DirCells(Was, 0)
  BY <1>4, <1>5, <1>6, <1>7, <1>8, <1>14
<1> QED
  BY ONLY <1>1, <1>2, <1>3, <1>4, <1>8, <1>9, <1>14, <1>15, <1>16

LEMMA PatcStep ==
  ASSUME SurgeryInv, K02743Patc
  PROVE  SurgeryInv'
<1> DEFINE w == Was
<1>1. /\ disk = "K02743" /\ Floppies # {} /\ w[Patched * Sector].name = "0FMD"
      /\ script = <<"none">> /\ renamed = {} /\ image.data = w
  BY AsOriginal DEF K02743Patc, Edits
<1>2. PICK i0, l, b : /\ i0 = OldFloppy /\ l = w[Patched * Sector].length
                      /\ b = [w EXCEPT ![i0] = Entry("0FMU", Patched + 1, l)]
  OBVIOUS
<1>3. Edits(<<"fmd_patc">>, "K02743", b)
  <2>1. Edits(<<"fmd_patc">>, "K02743", Redirected(w, i0, Patched + 1, l))
    BY <1>1, <1>2 DEF K02743Patc
  <2>2. PICK x, n : x = Entry("0FMU", Patched + 1, l) /\ n = Buffer * Sector
    OBVIOUS
  <2>3. Redirected(w, i0, Patched + 1, l) = Write(w, 0, [Read(w, 0, n) EXCEPT ![i0 + 1] = x])
    BY <1>1, <2>2 DEF Redirected
  <2>4. n \in Nat /\ i0 \in 0 .. n - 1 /\ DOMAIN w \subseteq Nat /\ w = [c \in DOMAIN w |-> w[c]]
    BY <1>1, <1>2, <2>2, FloppyIs
  <2>5. Write(w, 0, [Read(w, 0, n) EXCEPT ![i0 + 1] = x]) = [w EXCEPT ![i0] = x]
    BY ONLY <2>4, BufferBack
  <2> QED
    BY <1>2, <2>1, <2>2, <2>3, <2>5
<1>4. /\ Laid(w, DirAt, DirRoom) /\ DirAt = 0
      /\ w = shelf["K02743"].data /\ DirRoom = Room("K02743", shelf["K02743"])
      /\ K02743OK(shelf["K02743"])
      /\ i0 \in DirCells(w, 0) /\ i0 # 0 /\ w[i0].name = "0FMU"
  BY <1>1, <1>2, FloppyIs
<1>5. shelf \in Shelves /\ disk \in DOMAIN shelf
  BY DEF SurgeryInv
<1>6. HeaderOK(w, Patched) /\ Patched \in headers(w)
  BY <1>4, HeaderIs DEF K02743OK
<1>7. Patched \in Nat /\ l \in Nat /\ Patched * Sector \in DOMAIN w /\ w[Patched * Sector].kind = "head"
  BY <1>2, <1>6 DEF HeaderOK
<1>8. 0 * Sector = 0
  BY GeometryAssumption
<1>9. i0 \in DOMAIN w /\ w[i0].kind = "entry"
  BY <1>4, EntryFields
<1>10. w = [c \in DOMAIN w |-> w[c]]
  BY <1>4, LaidFcn
<1>11. /\ DOMAIN b = DOMAIN w /\ b = [c \in DOMAIN b |-> b[c]]
       /\ b[i0] = Entry("0FMU", Patched + 1, l)
       /\ \A c \in DOMAIN w : c # i0 => b[c] = w[c]
  <2> HIDE DEF w
  <2> QED
    BY <1>2, <1>9, <1>10
<1>12. \A c \in DOMAIN w : b[c].kind = w[c].kind /\ b[c].name = w[c].name
  BY <1>4, <1>9, <1>11, EntryIs
<1>13. /\ DirRoom \in Nat \ {0}
       /\ 0 \in DirCells(w, 0) /\ DirCells(w, 0) \subseteq DOMAIN w
  BY <1>4, <1>8, DirIs
<1>14. SameLayout(w, b, DirAt)
  <2>1. ASSUME NEW c \in DOMAIN w
        PROVE  CellOK(b[c]) /\ (b[c].kind = "entry" <=> w[c].kind = "entry")
    <3>1. CASE c = i0
      <4>1. "0FMU" # "" /\ Patched + 1 \in Nat
        BY <1>7
      <4>2. CellOK(Entry("0FMU", Patched + 1, l))
        BY <1>7, <4>1, EntryOK
      <4> QED
        BY <1>9, <1>11, <1>12, <3>1, <4>2
    <3>2. CASE c # i0
      <4>1. b[c] = w[c]
        BY <1>11, <3>2
      <4>2. CellOK(w[c])
        BY <1>4, LaidIs
      <4> QED
        BY <4>1, <4>2
    <3> QED
      BY <3>1, <3>2
  <2>2. b[DirAt * Sector].start = w[DirAt * Sector].start
    BY <1>4, <1>8, <1>11, <1>13
  <2>3. ASSUME NEW i \in headers(w)
        PROVE  /\ SectorsOf(b[i * Sector].length) <= SectorsOf(w[i * Sector].length)
               /\ b[i * Sector].name \notin Specials \cup Range(Typeable)
    <3>1. HeaderOK(w, i)
      BY <1>4, HeaderIs
    <3>2. i * Sector \in DOMAIN w /\ i * Sector # i0 /\ w[i * Sector].length \in Nat
      BY <1>9, <3>1 DEF HeaderOK
    <3>3. b[i * Sector] = w[i * Sector]
      BY <1>11, <3>2
    <3>4. w[i * Sector].name \notin Specials \cup Range(Typeable)
      BY <1>4, LaidHeader
    <3>5. SectorsOf(w[i * Sector].length) \in Nat
      BY <3>2, SectorsOfIs
    <3> QED
      BY <3>3, <3>4, <3>5
  <2> QED
    BY <1>11, <1>12, <2>1, <2>2, <2>3 DEF SameLayout
<1>15. Laid(b, DirAt, DirRoom)
  BY <1>4, <1>14, LaidAgain
<1>16. DirCells(b, 0) = DirCells(w, 0)
  BY <1>4, <1>14 DEF SameLayout, DirCells
<1>17. ASSUME NEW c \in DirCells(w, 0) \ {0}, c # i0
       PROVE  /\ b[c] = w[c]
              /\ Alone(b, DirAt, DirRoom, b[c])
              /\ b[c].name \notin Specials => Leads(b, DirAt, b[c], TRUE, {})
              /\ w[c].name \in {w[i * Sector].name : i \in headers(w)} =>
                   /\ (DirAt + b[c].start - 1) * Sector \in DOMAIN b
                   /\ b[(DirAt + b[c].start - 1) * Sector].name = w[c].name
  <2>1. b[c] = w[c] /\ c \in DirCells(Was, DirAt) \ {DirAt * Sector}
    BY <1>4, <1>8, <1>11, <1>13, <1>17
  <2>2. PICK p : p = DirAt + w[c].start - 1
    OBVIOUS
  <2>3. /\ Alone(w, DirAt, DirRoom, w[c])
        /\ w[c].name \in {w[i * Sector].name : i \in headers(w)} =>
             p * Sector \in DOMAIN w /\ w[p * Sector].name = w[c].name
    BY <1>5, <2>1, <2>2, EntryLeads
  <2>4. Alone(b, DirAt, DirRoom, b[c])
    <3>1. DirAt \in Nat /\ DirRoom \in Nat /\ DOMAIN b = DOMAIN w
      BY <1>4, <1>11, <1>13
    <3>2. Alone(w, DirAt, DirRoom, w[c]) /\ b[c].start = w[c].start /\ b[c].name = w[c].name
      BY <2>1, <2>3
    <3>3. \A s \in Nat : s * Sector \in DOMAIN w =>
            b[s * Sector].name = w[s * Sector].name \/ b[s * Sector].name # w[c].name
      BY <1>12
    <3> QED
      BY ONLY <3>1, <3>2, <3>3, AloneAgain
  <2>5. ASSUME w[c].name \notin Specials
        PROVE  Leads(b, DirAt, b[c], TRUE, {})
    <3>1. p \in headers(w)
      BY <1>5, <2>1, <2>2, <2>5, EntryLeads
    <3>2. \A x \in Cells(w, p) : b[x] = w[x]
      BY <1>4, <1>9, <1>11, <3>1, NotDir
    <3> QED
      BY <1>5, <1>11, <2>1, <2>2, <2>5, <3>2, LeadsAgain
  <2> QED
    BY <1>11, <1>12, <2>1, <2>2, <2>3, <2>4, <2>5
<1>18. Alone(b, DirAt, DirRoom, b[i0]) /\ Leads(b, DirAt, b[i0], TRUE, {})
  <2>1. PICK e : e = b[i0]
    OBVIOUS
  <2>2. e.name = "0FMU" /\ e.start = Patched + 1 /\ e.length = l
    BY <1>11, <2>1, EntryIs
  <2>3. DirAt + e.start - 1 = Patched
    BY <1>4, <1>7, <2>2
  <2>4. Patched >= DirRoom
    <3>1. DirAt + DirRoom <= Patched \/ Behind(w, Patched) <= DirAt
      BY <1>4, <1>6, LaidHeader
    <3>2. Behind(w, Patched) \in Nat /\ Patched < Behind(w, Patched)
      BY <1>6 DEF HeaderOK
    <3> QED
      BY ONLY <1>4, <1>7, <1>13, <3>1, <3>2
  <2>5. e.start \in Nat /\ e.start > DirRoom
    BY ONLY <1>7, <1>13, <2>2, <2>4
  <2>6. ASSUME NEW m \in 1 .. DirRoom - 1, NEW c, c = Patched * Sector + m * Sector, c \in DOMAIN b
        PROVE  b[c].name # e.name
    <3>1. m \in Nat
      OBVIOUS
    <3>2. c = (Patched + m) * Sector
      BY <1>7, <2>6, <3>1, Product
    <3>3. w[c].name # "0FMU"
      BY <1>4, <1>11, <2>6, <3>2 DEF K02743OK
    <3> QED
      BY <1>11, <1>12, <2>2, <2>6, <3>3
  <2>7. Alone(b, DirAt, DirRoom, e)
    BY <2>3, <2>5, <2>6 DEF Alone
  <2>8. b[Patched * Sector] = w[Patched * Sector]
    BY <1>7, <1>9, <1>11
  <2>9. Leads(b, DirAt, e, TRUE, {})
    <3>1. b[Patched * Sector] \in Heads(b, Patched * Sector)
      BY DEF Heads
    <3>2. e.length <= b[Patched * Sector].length
      BY <1>2, <1>7, <2>2, <2>8
    <3> QED
      BY <1>1, <1>2, <1>7, <1>11, <2>2, <2>3, <2>8, <3>1, <3>2 DEF Leads
  <2> QED
    BY <2>1, <2>7, <2>9
<1>19. AllAlone(b, DirAt, DirRoom) /\ AllLead(b, DirAt, TRUE, {})
  BY <1>4, <1>8, <1>16, <1>17, <1>18 DEF AllAlone, AllLead
<1>20. IndexKept(Was, b, DirAt, TRUE)
  <2> SUFFICES ASSUME NEW c \in DirCells(w, 0) \ {0}, w[c].name # "0FMU",
                      w[c].name \in {w[i * Sector].name : i \in headers(w)}
               PROVE  /\ c \in DirCells(b, 0) /\ b[c].name = w[c].name
                      /\ (DirAt + b[c].start - 1) * Sector \in DOMAIN b
                      /\ b[(DirAt + b[c].start - 1) * Sector].name = w[c].name
    BY <1>4, <1>8 DEF IndexKept
  <2> QED
    BY <1>4, <1>16, <1>17
<1>21. ModulesKept(b)'
  <2>1. ASSUME NEW i \in headers(w), NEW c \in Cells(w, i)
        PROVE  b[c] = w[c]
    BY <1>4, <1>9, <1>11, NotDir
  <2>2. UNCHANGED <<shelf, disk>> /\ script' = <<"fmd_patc">> /\ script'[1] # "ffr"
    BY <1>3 DEF Edits
  <2> HIDE DEF w
  <2> QED
    BY <2>1, <2>2, ModulesAgain DEF w
<1>22. PICK name : name = <<"fmd_patc">>
  OBVIOUS
<1>23. /\ name[1] \notin {"none", "containers"} /\ TRUE = (name[1] \in {"fmd_patc", "fmd_allres"})
       /\ {} = (IF name[1] = "ffr" THEN {s.name : s \in name[2]} ELSE {})
  BY <1>22
<1> QED
  BY <1>3, <1>11, <1>15, <1>19, <1>20, <1>21, <1>22, <1>23, EditStep

LEMMA SwapStep ==
  ASSUME shelf \in Shelves, disk \in DOMAIN shelf,
         NEW p \in headers(Was), NEW i0 \in DirCells(Was, DirAt) \ {DirAt * Sector},
         NEW b, NEW head, Swap(Was, b, p, head, i0),
         p = DirAt + Was[i0].start - 1, Was[i0].name \notin Specials,
         \A c \in DirCells(Was, DirAt) \ {DirAt * Sector} : DirAt + Was[c].start - 1 = p => c = i0,
         head.name \notin Specials \cup Range(Typeable),
         NEW fmd \in BOOLEAN,
         IF fmd THEN /\ Was[i0].name = "0FMU" /\ head.name = "0FMD"
                     /\ \A c \in DirCells(Was, DirAt) : Was[c].name # head.name
         ELSE head.name = Was[i0].name /\ head.name = Was[p * Sector].name
  PROVE  /\ DOMAIN b = DOMAIN Was /\ Laid(b, DirAt, DirRoom) /\ AllAlone(b, DirAt, DirRoom)
         /\ AllLead(b, DirAt, fmd, {}) /\ IndexKept(Was, b, DirAt, fmd)
         /\ \A i \in headers(Was) : i # p => \A c \in Cells(Was, i) : b[c] = Was[c]
<1>1. PICK w, di, a : w = Was /\ di = DirAt /\ a = di * Sector
  OBVIOUS
<1>2. Laid(w, di, DirRoom) /\ ContainersOK(w)
  BY <1>1, WasIs
<1>3. /\ p \in headers(w) /\ i0 \in DirCells(w, di) /\ i0 # a /\ Swap(w, b, p, head, i0)
      /\ w[i0].name \notin Specials
  BY <1>1
<1>4. HeaderOK(w, p)
  BY <1>2, <1>3, HeaderIs
<1>5. p \in Nat /\ p * Sector \in DOMAIN w /\ p * Sector \in Cells(w, p) /\ Cells(w, p) \subseteq DOMAIN w
  BY <1>4 DEF HeaderOK
<1>6. i0 \in DOMAIN w /\ w[i0].kind = "entry" /\ w[i0].name # "" /\ w[i0].start \in Nat
  BY ONLY <1>2, <1>3, EntryFields
<1>7. i0 \notin Cells(w, p)
  BY <1>2, <1>3, NotDir
<1>8. /\ DOMAIN b = DOMAIN w
      /\ \A c \in DOMAIN w \ Cells(w, p) : c # i0 => b[c] = w[c]
      /\ \A c \in Cells(w, p) : CellOK(b[c]) /\ b[c].kind # "entry"
      /\ b[p * Sector] = head /\ head.kind = "head"
      /\ head.length \in Nat /\ SectorsOf(head.length) <= SectorsOf(w[p * Sector].length)
      /\ \A s \in Nat : s # p /\ s * Sector \in Cells(w, p) =>
           b[s * Sector].kind = "data" /\ b[s * Sector].name = ""
      /\ b[i0] = Entry(w[i0].name, w[i0].start, head.length)
  BY <1>3 DEF Swap
<1>9. b[i0].kind = "entry" /\ b[i0].name = w[i0].name /\ b[i0].start = w[i0].start
      /\ b[i0].length = head.length
  <2>1. b[i0] = Entry(w[i0].name, w[i0].start, head.length)
    BY <1>8
  <2> QED
    BY ONLY <2>1 DEF Entry
<1>10. /\ a \in DirCells(w, di) /\ DirCells(w, di) \subseteq DOMAIN w
       /\ di \in Nat /\ DirRoom \in Nat \ {0}
  BY <1>1, <1>2, DirIs
<1>11. \A c \in DirCells(w, di) : c \notin Cells(w, p) /\ (c # i0 => b[c] = w[c])
  BY <1>2, <1>3, <1>8, <1>10, NotDir
<1>12. ASSUME NEW i \in headers(w), i # p
       PROVE  \A c \in Cells(w, i) : b[c] = w[c]
  <2>1. \A c \in Cells(w, i) : c \in DOMAIN w /\ w[c].kind # "entry"
    BY <1>2, NotDir
  <2>2. \A c \in Cells(w, i) : c \notin Cells(w, p)
    BY <1>2, <1>3, <1>12, Apart
  <2> QED
    BY ONLY <1>6, <1>8, <2>1, <2>2
<1>13. SameLayout(w, b, di)
  <2>1. ASSUME NEW c \in DOMAIN w
        PROVE  CellOK(b[c]) /\ (b[c].kind = "entry" <=> w[c].kind = "entry")
    <3>1. CASE c = i0
      <4>1. CellOK(Entry(w[i0].name, w[i0].start, head.length))
        BY <1>6, <1>8, EntryOK
      <4> QED
        BY <1>6, <1>8, <1>9, <3>1, <4>1
    <3>2. CASE c \in Cells(w, p)
      BY ONLY <1>2, <1>3, <1>8, <3>2, NotDir
    <3>3. CASE c # i0 /\ c \notin Cells(w, p)
      <4>1. b[c] = w[c]
        BY <1>8, <3>3
      <4>2. CellOK(w[c])
        BY <1>2, LaidIs
      <4> QED
        BY <4>1, <4>2
    <3> QED
      BY <3>1, <3>2, <3>3
  <2>2. b[a].start = w[a].start
    BY <1>3, <1>10, <1>11
  <2>3. ASSUME NEW i \in Nat, i * Sector \in DOMAIN w
        PROVE  b[i * Sector].kind = "head" <=> w[i * Sector].kind = "head"
    <3>1. CASE i * Sector \in Cells(w, p)
      <4>1. CASE i = p
        BY ONLY <1>4, <1>8, <4>1 DEF HeaderOK
      <4>2. CASE i # p
        BY ONLY <1>2, <1>3, <1>8, <3>1, <4>2, OneHeader
      <4> QED
        BY <4>1, <4>2
    <3>2. CASE i * Sector \notin Cells(w, p)
      BY ONLY <1>6, <1>8, <1>9, <2>3, <3>2
    <3> QED
      BY <3>1, <3>2
  <2>4. ASSUME NEW i \in headers(w)
        PROVE  /\ SectorsOf(b[i * Sector].length) <= SectorsOf(w[i * Sector].length)
               /\ b[i * Sector].name \notin Specials \cup Range(Typeable)
    <3>1. CASE i = p
      BY <1>8, <3>1
    <3>2. CASE i # p
      <4>1. HeaderOK(w, i)
        BY <1>2, HeaderIs
      <4>2. i * Sector \in Cells(w, i) /\ w[i * Sector].length \in Nat
        BY <4>1 DEF HeaderOK
      <4>3. b[i * Sector] = w[i * Sector]
        BY <1>12, <3>2, <4>2
      <4>4. w[i * Sector].name \notin Specials \cup Range(Typeable)
        BY <1>2 DEF Laid
      <4>5. SectorsOf(w[i * Sector].length) \in Nat
        BY <4>2, SectorsOfIs
      <4> QED
        BY <4>3, <4>4, <4>5
    <3> QED
      BY <3>1, <3>2
  <2>5. b = [c \in DOMAIN b |-> b[c]]
    BY <1>3 DEF Swap, IsArea
  <2> QED
    BY <1>1, <1>8, <2>1, <2>2, <2>3, <2>4, <2>5 DEF SameLayout
<1>14. Laid(b, di, DirRoom)
  BY <1>2, <1>13, LaidAgain
<1>15. DirCells(b, di) = DirCells(w, di)
  BY <1>13 DEF SameLayout, DirCells
<1>16. ASSUME NEW c \in DirCells(w, di) \ {a}
       PROVE  /\ b[c].name = w[c].name /\ b[c].start = w[c].start
              /\ Alone(b, di, DirRoom, b[c])
  <2>1. b[c].name = w[c].name /\ b[c].start = w[c].start
    BY <1>9, <1>11
  <2>2. Alone(w, di, DirRoom, w[c])
    BY <1>1, EntryLeads
  <2>3. w[c].name # ""
    BY ONLY <1>2, EntryFields
  <2>4. ASSUME NEW s \in Nat, s * Sector \in DOMAIN w
        PROVE  b[s * Sector].name = w[s * Sector].name \/ b[s * Sector].name # w[c].name
    <3>1. CASE s * Sector \in Cells(w, p) /\ s # p
      BY <1>8, <2>3, <3>1
    <3>2. CASE s = p
      BY <1>1, <1>8, <3>2
    <3>3. CASE s * Sector \notin Cells(w, p)
      BY ONLY <1>8, <1>9, <2>4, <3>3
    <3> QED
      BY <3>1, <3>2, <3>3
  <2>5. DirRoom \in Nat /\ DOMAIN b = DOMAIN w
    BY <1>8, <1>10
  <2>6. Alone(b, di, DirRoom, b[c])
    BY ONLY <1>10, <2>1, <2>2, <2>4, <2>5, AloneAgain
  <2> QED
    BY <2>1, <2>6
<1>17. AllAlone(b, di, DirRoom)
  BY <1>1, <1>15, <1>16 DEF AllAlone
<1>18. ASSUME NEW c \in DirCells(w, di) \ {a}, w[c].name \notin Specials, c # i0
       PROVE  /\ b[c] = w[c]
              /\ DirAt + w[c].start - 1 \in headers(w) /\ DirAt + w[c].start - 1 # p
              /\ Leads(b, di, w[c], fmd, {})
  <2>1. PICK e : e = DirAt + w[c].start - 1
    OBVIOUS
  <2>2. e \in headers(w)
    BY <1>1, <1>18, <2>1, EntryLeads
  <2>3. e # p
    BY <1>1, <1>18, <2>1
  <2>4. \A x \in Cells(w, e) : b[x] = w[x]
    BY <1>12, <2>2, <2>3
  <2>5. Leads(b, di, w[c], fmd, {})
    BY <1>1, <1>8, <1>18, <2>1, <2>4, LeadsAgain
  <2> QED
    BY <1>11, <1>18, <2>1, <2>2, <2>3, <2>5
<1>19. Leads(b, di, b[i0], fmd, {})
  <2>1. AsCopied(w[i0].name) = w[i0].name
    BY <1>1, EntryLeads
  <2>2. b[p * Sector] \in Heads(b, p * Sector)
    BY DEF Heads
  <2>3. head.length <= b[p * Sector].length
    <3>1. b[p * Sector] = head /\ head.length \in Nat
      BY <1>8
    <3>2. head.length <= head.length
      BY ONLY <3>1
    <3> QED
      BY <3>1, <3>2
  <2>4. di + b[i0].start - 1 = p
    BY <1>1, <1>9
  <2>5. head.name = AsCopied(w[i0].name) \/ (head.name = "0FMD" /\ w[i0].name = "0FMU" /\ fmd)
    BY <1>1, <2>1
  <2> QED
    BY <1>5, <1>8, <1>9, <2>2, <2>3, <2>4, <2>5 DEF Leads
<1>20. AllLead(b, di, fmd, {})
  <2> SUFFICES ASSUME NEW c \in DirCells(w, di) \ {a}, b[c].name \notin Specials
               PROVE  Leads(b, di, b[c], fmd, {})
    BY <1>1, <1>15 DEF AllLead
  <2>1. CASE c = i0
    BY <1>19, <2>1
  <2>2. CASE c # i0
    BY <1>16, <1>18, <2>2
  <2> QED
    BY <2>1, <2>2
<1>21. IndexKept(w, b, di, fmd)
  <2> SUFFICES ASSUME NEW c \in DirCells(w, di) \ {a}, ~(fmd /\ w[c].name = "0FMU"),
                      w[c].name \in {w[i * Sector].name : i \in headers(w)}
               PROVE  /\ c \in DirCells(b, di) /\ b[c].name = w[c].name
                      /\ (di + b[c].start - 1) * Sector \in DOMAIN b
                      /\ b[(di + b[c].start - 1) * Sector].name = w[c].name
    BY <1>1 DEF IndexKept
  <2>1. PICK e : e = di + w[c].start - 1
    OBVIOUS
  <2>2. e * Sector \in DOMAIN w /\ w[e * Sector].name = w[c].name
    BY <1>1, <2>1, EntryLeads
  <2>3. b[e * Sector].name = w[c].name
    <3>1. CASE c = i0
      BY <1>1, <1>8, <2>1, <3>1
    <3>2. CASE c # i0
      <4>1. w[c].name \notin Specials
        BY <1>2 DEF Laid
      <4>2. e \in headers(w) /\ e # p
        BY <1>1, <1>18, <2>1, <3>2, <4>1
      <4>3. HeaderOK(w, e)
        BY <1>2, <4>2, HeaderIs
      <4> QED
        BY <1>12, <2>2, <4>2, <4>3 DEF HeaderOK
    <3> QED
      BY <3>1, <3>2
  <2>4. b[c].start = w[c].start /\ b[c].name = w[c].name
    BY <1>16
  <2> QED
    BY <1>8, <1>15, <2>1, <2>2, <2>3, <2>4
<1> QED
  BY ONLY <1>1, <1>8, <1>12, <1>14, <1>17, <1>20, <1>21

LEMMA AllresFmdStep ==
  ASSUME SurgeryInv, K02743Allres
  PROVE  SurgeryInv'
<1> DEFINE w    == Was
           from == shelf["ALL"].data
           f    == FloppyAt * Sector
<1>1. /\ disk = "K02743" /\ Floppies # {} /\ from[f].name = "0FMD"
      /\ script = <<"none">> /\ renamed = {} /\ image.data = w
  BY AsOriginal DEF K02743Allres, Edits
<1>2. PICK i0 : i0 = OldFloppy
  OBVIOUS
<1>3. /\ Laid(w, DirAt, DirRoom) /\ DirAt = 0 /\ K02743OK(shelf["K02743"])
      /\ w = shelf["K02743"].data
      /\ i0 \in DirCells(w, 0) /\ i0 # 0 /\ w[i0].name = "0FMU"
  BY <1>1, <1>2, FloppyIs
<1>4. shelf \in Shelves /\ disk \in DOMAIN shelf
  BY DEF SurgeryInv
<1>5. /\ Laid(from, shelf["ALL"].dir, Room("ALL", shelf["ALL"])) /\ FloppyAt \in headers(from)
  BY <1>4, OriginalIs, OriginalsAssumption DEF AllOK
<1>6. PICK e, p, o, l : /\ e = w[i0] /\ p = DirAt + e.start - 1 /\ o = p * Sector
                        /\ l = from[f].length
  OBVIOUS
<1>7. PICK n, m : n = SectorsOf(l) * Sector /\ m = SectorsOf(w[o].length) * Sector
  OBVIOUS
<1>8. 0 * Sector = 0
  BY GeometryAssumption
<1>9. i0 \in DirCells(Was, DirAt) \ {DirAt * Sector} /\ e.name \notin Specials
  BY <1>3, <1>6, <1>8 DEF Specials
<1>10. p \in headers(w) /\ e.start \in Nat /\ DirAt \in Nat
       /\ \E h \in Heads(w, o) : h.length = e.length
  BY <1>4, <1>6, <1>9, EntryLeads
<1>11. p = e.start - 1
  BY <1>3, <1>6, <1>10
<1>12. PICK b1, b : /\ b1 = Write(w, o, body(from, FloppyAt))
                    /\ b = [b1 EXCEPT ![i0] = Entry("0FMU", e.start, l)]
  OBVIOUS
<1>13. Edits(<<"fmd_allres">>, "K02743", b) /\ l <= e.length
  <2>1. Edits(<<"fmd_allres">>, "K02743", Redirected(b1, i0, e.start, l)) /\ l <= e.length
    BY <1>1, <1>2, <1>6, <1>11, <1>12 DEF K02743Allres, Fits
  <2>2. PICK x, wide : x = Entry("0FMU", e.start, l) /\ wide = Buffer * Sector
    OBVIOUS
  <2>3. Redirected(b1, i0, e.start, l) = Write(b1, 0, [Read(w, 0, wide) EXCEPT ![i0 + 1] = x])
    BY <1>1, <2>2 DEF Redirected
  <2>4. wide \in Nat /\ i0 \in 0 .. wide - 1 /\ DOMAIN w \subseteq Nat
    BY <1>1, <1>2, <2>2, FloppyIs
  <2>5. wide <= o /\ o \in Nat
    <3>1. Buffer <= p
      BY <1>3, <1>6, <1>11 DEF K02743OK
    <3>2. Buffer \in Nat /\ Sector \in Nat /\ p \in Nat
      <4>1. Buffer \in Nat /\ Sector \in Nat
        BY BufferAssumption, GeometryAssumption
      <4>2. HeaderOK(w, p)
        BY <1>3, <1>10, HeaderIs
      <4> QED
        BY <4>1, <4>2 DEF HeaderOK
    <3>3. Buffer * Sector <= p * Sector /\ p * Sector \in Nat
      BY ONLY <3>1, <3>2, Z3
    <3> QED
      BY <1>6, <2>2, <3>3
  <2>6. b1 = [c \in DOMAIN w |-> b1[c]]
    BY <1>12 DEF Write
  <2>7. ASSUME NEW c \in DOMAIN w, c <= wide - 1
        PROVE  b1[c] = w[c]
    <3>1. PICK z : z = body(from, FloppyAt)
      OBVIOUS
    <3>2. PICK k \in Nat : DOMAIN z = 1 .. k
      <4>1. HeaderOK(from, FloppyAt)
        BY <1>5, HeaderIs
      <4>2. from[f].length \in Nat
        BY <4>1 DEF HeaderOK
      <4>3. SectorsOf(from[f].length) \in Nat
        BY <4>2, GeometryAssumption DEF SectorsOf
      <4>4. PICK k : k = Sector * SectorsOf(from[f].length)
        OBVIOUS
      <4>5. k \in Nat
        BY <4>3, <4>4, GeometryAssumption
      <4>6. DOMAIN z = 1 .. k
        BY <3>1, <4>4 DEF body, Read
      <4> QED
        BY <4>5, <4>6
    <3>3. c - o + 1 \notin DOMAIN z
      BY <2>4, <2>5, <2>7, <3>2
    <3> QED
      BY <1>12, <3>1, <3>3 DEF Write
  <2>8. Write(b1, 0, [Read(w, 0, wide) EXCEPT ![i0 + 1] = x]) = [b1 EXCEPT ![i0] = x]
    BY ONLY <2>4, <2>6, <2>7, BufferBack
  <2> QED
    BY <1>12, <2>1, <2>2, <2>3, <2>8
<1>14. l \in Nat /\ e.length \in Nat /\ w[o].length \in Nat /\ l <= w[o].length
  <2>1. HeaderOK(from, FloppyAt) /\ HeaderOK(w, p)
    BY <1>3, <1>5, <1>10, HeaderIs
  <2>2. l \in Nat /\ w[o].length \in Nat
    BY <1>6, <2>1 DEF HeaderOK
  <2>3. e.length \in Nat /\ e.length <= w[o].length
    BY <1>3, <1>4, <1>6, <1>10, HeadLength, WasIs
  <2> QED
    BY ONLY <1>13, <2>2, <2>3
<1>15. ModuleCells(from, FloppyAt, f, n) /\ body(from, FloppyAt) = Read(from, f, n)
       /\ f \in Nat /\ n \in Nat /\ FloppyAt \in Nat
  BY <1>5, <1>6, <1>7, ModuleHas, ModuleSpan
<1>16. /\ o \in Nat /\ m \in Nat /\ Cells(w, p) = o .. o + m - 1
       /\ \A k \in 0 .. m - 1 : o + k \in DOMAIN w /\ o + k \notin DirCells(w, DirAt)
  <2>1. o = p * Sector /\ m = SectorsOf(w[o].length) * Sector
    BY <1>6, <1>7
  <2> HIDE DEF w
  <2> QED
    BY ONLY <1>3, <1>10, <2>1, ModuleSpan
<1>17. n <= m
  <2>1. PICK x, y : x = SectorsOf(l) /\ y = SectorsOf(w[o].length)
    OBVIOUS
  <2>2. x \in Nat /\ y \in Nat /\ x <= y
    BY <1>14, <2>1, SectorsOfIs
  <2> QED
    BY <1>7, <2>1, <2>2, Product
<1>18. /\ DOMAIN b1 = DOMAIN w /\ IsArea(b1)
       /\ \A c \in DOMAIN w : c \notin o .. o + n - 1 => b1[c] = w[c]
       /\ \A k \in 0 .. n - 1 : o + k \in DOMAIN w => b1[o + k] = from[f + k]
  <2>1. \A c \in DOMAIN w : c \in Nat
    BY <1>3, LaidIs
  <2>2. PICK x, cells : x = f /\ cells = body(from, FloppyAt)
    OBVIOUS
  <2>3. cells = Read(from, x, n) /\ b1 = Write(w, o, cells) /\ x \in Nat
    BY <1>12, <1>15, <2>2
  <2>4. Pasted(b1, w, o, from, x, n)
    <3>1. o \in Nat /\ n \in Nat
      BY <1>15, <1>16
    <3> HIDE DEF w, from, f
    <3> QED
      BY ONLY <2>1, <2>3, <3>1, Copy
  <2> QED
    BY <2>2, <2>4 DEF Pasted
<1>19. i0 \in DOMAIN w /\ i0 \in DirCells(w, DirAt)
  BY <1>3, EntryFields
<1>20. /\ DOMAIN b = DOMAIN w /\ IsArea(b) /\ b[i0] = Entry("0FMU", e.start, l)
       /\ \A c \in DOMAIN w : c # i0 => b[c] = b1[c]
  <2> HIDE DEF w
  <2> QED
    BY <1>12, <1>18, <1>19 DEF IsArea
<1>21. Over(w, b, o, m, from, f, n, i0)
  <2>1. ASSUME NEW c \in DOMAIN w, c \notin o .. o + m - 1, c # i0
        PROVE  b[c] = w[c]
    <3>1. c \notin o .. o + n - 1
      BY ONLY <1>15, <1>16, <1>17, <2>1
    <3> QED
      BY <1>18, <1>20, <2>1, <3>1
  <2>2. ASSUME NEW k \in 0 .. m - 1
        PROVE  IF k < n THEN b[o + k] = from[f + k] ELSE b[o + k] \in {Zero, w[o + k]}
    <3>1. o + k \in DOMAIN w /\ b[o + k] = b1[o + k]
      BY ONLY <1>16, <1>19, <1>20
    <3>2. CASE k < n
      <4>1. k \in 0 .. n - 1
        BY ONLY <1>15, <1>16, <2>2, <3>2
      <4> QED
        BY <1>18, <3>1, <3>2, <4>1
    <3>3. CASE ~(k < n)
      <4>1. o + k \notin o .. o + n - 1
        BY ONLY <1>15, <1>16, <2>2, <3>3
      <4> QED
        BY <1>18, <3>1, <3>3, <4>1
    <3> QED
      BY <3>2, <3>3
  <2>3. b[i0] = Entry(w[i0].name, w[i0].start, from[f].length)
    BY <1>3, <1>6, <1>20
  <2> HIDE DEF w, from, f
  <2> QED
    BY <1>20, <2>1, <2>2, <2>3 DEF Over
<1>22. Swap(w, b, p, from[f], i0)
  <2>1. PICK x : x = f
    OBVIOUS
  <2>2. n = SectorsOf(from[x].length) * Sector /\ x = FloppyAt * Sector
    BY <1>6, <1>7, <2>1
  <2>3. i0 \in DirCells(w, DirAt)
    BY <1>19
  <2>4. ModuleCells(from, FloppyAt, x, n) /\ Over(w, b, o, m, from, x, n, i0) /\ FloppyAt \in Nat
    BY <1>15, <1>21, <2>1
  <2>5. o = p * Sector /\ m = SectorsOf(w[o].length) * Sector /\ n <= m
    BY <1>6, <1>7, <1>17
  <2>6. Swap(w, b, p, from[x], i0)
    <3> HIDE DEF w, from, f
    <3> QED
      BY ONLY <1>3, <1>10, <2>2, <2>3, <2>4, <2>5, SwapFrom
  <2> QED
    BY <2>1, <2>6
<1>23. PICK head : head = from[f]
  OBVIOUS
<1>24. head.name \notin Specials \cup Range(Typeable)
  <2>1. FloppyAt \in headers(from) /\ head = from[FloppyAt * Sector]
    BY <1>5, <1>23
  <2> HIDE DEF from
  <2> QED
    BY ONLY <1>5, <2>1, LaidHeader
<1>25. ASSUME NEW c \in DirCells(Was, DirAt) \ {DirAt * Sector}, DirAt + Was[c].start - 1 = p
       PROVE  c = i0
  <2>1. Was[c].start \in Nat
    BY <1>4, <1>25, EntryLeads
  <2>2. Was[c].start = w[i0].start
    BY ONLY <1>6, <1>10, <1>25, <2>1
  <2> QED
    BY <1>3, <1>8, <1>25, <2>2 DEF K02743OK
<1>26. Was[i0].name = "0FMU" /\ head.name = "0FMD" /\ \A c \in DirCells(Was, DirAt) : Was[c].name # head.name
  BY <1>1, <1>3, <1>23 DEF K02743OK
<1>27. PICK fmd : fmd = TRUE
  OBVIOUS
<1>28. /\ DOMAIN b = DOMAIN Was /\ Laid(b, DirAt, DirRoom) /\ AllAlone(b, DirAt, DirRoom)
       /\ AllLead(b, DirAt, fmd, {}) /\ IndexKept(Was, b, DirAt, fmd)
       /\ \A i \in headers(Was) : i # p => \A c \in Cells(Was, i) : b[c] = Was[c]
  <2>1. fmd \in BOOLEAN
    BY <1>27
  <2>2. IF fmd THEN /\ Was[i0].name = "0FMU" /\ head.name = "0FMD"
                    /\ \A c \in DirCells(Was, DirAt) : Was[c].name # head.name
        ELSE head.name = Was[i0].name /\ head.name = Was[p * Sector].name
    BY <1>26, <1>27
  <2>3. p \in headers(Was) /\ Swap(Was, b, p, head, i0) /\ p = DirAt + Was[i0].start - 1
        /\ Was[i0].name \notin Specials
    BY <1>6, <1>9, <1>10, <1>22, <1>23
  <2> QED
    BY ONLY <1>4, <1>9, <1>24, <1>25, <2>1, <2>2, <2>3, SwapStep
<1>29. ModulesKept(b)'
  <2>1. UNCHANGED <<shelf, disk>> /\ script' = <<"fmd_allres">> /\ script'[1] = "fmd_allres"
    BY <1>13 DEF Edits
  <2>2. Replaces' = {"0FMU"}
    BY <2>1 DEF Replaces
  <2>3. Was[p * Sector].name = "0FMU"
    BY <1>3, <1>6, <1>11 DEF K02743OK
  <2>4. \A i \in headers(Was) : Was[i * Sector].name \notin {"0FMU"} =>
                                   \A c \in Cells(Was, i) : b[c] = Was[c]
    BY <1>28, <2>3
  <2> QED
    BY <2>1, <2>2, <2>4, ModulesAgain
<1>30. PICK name : name = <<"fmd_allres">>
  OBVIOUS
<1>31. /\ name[1] \notin {"none", "containers"} /\ fmd = (name[1] \in {"fmd_patc", "fmd_allres"})
       /\ {} = (IF name[1] = "ffr" THEN {s.name : s \in name[2]} ELSE {})
  BY <1>27, <1>30
<1>32. Edits(name, "K02743", b)
  BY <1>13, <1>30
<1>33. SurgeryInv
  OBVIOUS
<1> QED
  BY ONLY <1>28, <1>29, <1>31, <1>32, <1>33, EditStep

(* build_oslem7_kyb.py                                                      *)

\* The directory of an original is found, or none is.
LEMMA FoundInOriginal ==
  ASSUME SurgeryInv, script = <<"none">>, renamed = {}
  PROVE  directory_index(Original) \in {DirAt, -1}
<1>1. PICK b : Made(b)
  BY DEF SurgeryInv
<1>2. HasDir(image.data, DirAt, DirRoom)
  BY <1>1, ImageDir
<1>3. HasDir(Original.data, DirAt, DirRoom)
  BY <1>2, AsOriginal DEF Was
<1>4. Original.pointer \in {0, DirAt + 1}
  BY WasIs DEF SurgeryInv
<1> QED
  BY <1>3, <1>4, Found

LEMMA KybStep ==
  ASSUME SurgeryInv, Oslem7Kyb
  PROVE  SurgeryInv'
<1> DEFINE w    == Was
           from == shelf["K02743"].data
<1>1. PICK q, p, f, o, l : /\ q = Min(Named(from, "1KYB")) /\ p = Min(Named(w, "1KYB"))
                           /\ f = q * Sector /\ o = p * Sector /\ l = from[f].length
  OBVIOUS
<1>2. PICK n, m : n = SectorsOf(l) * Sector /\ m = SectorsOf(w[o].length) * Sector
  OBVIOUS
<1>3. PICK hits : hits = {x \in 0 .. w[DirAt * Sector].start - 1 : w[DirAt * Sector + x].name = "1KYB"}
  OBVIOUS
<1>4. PICK i, i0 : i = Min(hits) /\ i0 = DirAt * Sector + i
  OBVIOUS
<1>5. /\ script = <<"none">> /\ renamed = {} /\ disk = "OSLEM7"
      /\ Named(from, "1KYB") # {} /\ Named(w, "1KYB") # {}
      /\ Len(body(from, q)) <= Len(body(w, p))
      /\ directory_index(Original) # -1
  BY <1>1 DEF Oslem7Kyb, Edits, Was
<1>6. directory_index(Original) = DirAt
  BY <1>5, FoundInOriginal
<1>7. image.data = w
  BY <1>5, AsOriginal
<1>8. PICK b1, b : /\ b1 = Write(w, o, body(from, q) \o
                                       [k \in 1 .. Len(body(w, p)) - Len(body(from, q)) |-> Zero])
                   /\ b = [b1 EXCEPT ![i0].length = l]
  OBVIOUS
<1>9. hits # {} /\ PointsAt(DirAt, w[i0]) = p /\ Edits(<<"kyb">>, "OSLEM7", b)
  BY <1>1, <1>3, <1>4, <1>6, <1>7, <1>8 DEF Oslem7Kyb, Was
<1>10. shelf \in Shelves /\ disk \in DOMAIN shelf
  BY DEF SurgeryInv
<1>11. Laid(w, DirAt, DirRoom) /\ Laid(from, shelf["K02743"].dir, Room("K02743", shelf["K02743"]))
  BY <1>10, WasIs, OriginalIs, OriginalsAssumption
<1>12. p \in headers(w) /\ q \in headers(from) /\ p \in Named(w, "1KYB") /\ q \in Named(from, "1KYB")
  BY <1>1, <1>5, <1>11, FirstNamed
<1>13. w[o].name = "1KYB" /\ from[f].name = "1KYB"
  BY <1>1, <1>12 DEF Named
<1>14. /\ DirAt \in Nat /\ DirAt * Sector \in Nat /\ w[DirAt * Sector].start \in Nat
       /\ DirCells(w, DirAt) = DirAt * Sector .. DirAt * Sector + w[DirAt * Sector].start - 1
       /\ DirCells(w, DirAt) \subseteq DOMAIN w
  BY <1>11, DirIs, Between DEF DirCells
<1>15. i \in hits /\ i \in Nat
  <2>1. hits \in SUBSET Nat
    BY <1>3
  <2> QED
    BY <1>4, <1>9, <2>1, MinOf
<1>16. i0 \in DirCells(w, DirAt) /\ w[i0].name = "1KYB" /\ i0 # DirAt * Sector
  <2>1. i \in 0 .. w[DirAt * Sector].start - 1 /\ w[i0].name = "1KYB"
    BY <1>3, <1>4, <1>15
  <2>2. w[DirAt * Sector].name # "1KYB"
    BY <1>10, OriginalIs DEF Was, DirAt, Original
  <2>3. PICK a, s : a = DirAt * Sector /\ s = w[DirAt * Sector].start
    OBVIOUS
  <2>4. i0 \in a .. a + s - 1
    BY ONLY <1>4, <1>14, <2>1, <2>3
  <2> QED
    BY <1>14, <2>1, <2>2, <2>3, <2>4
<1>17. p = DirAt + w[i0].start - 1
  BY <1>9 DEF PointsAt
<1>18. ModuleCells(from, q, f, n) /\ body(from, q) = Read(from, f, n) /\ Len(body(from, q)) = n
       /\ f \in Nat /\ n \in Nat /\ q \in Nat
  <2>1. f = q * Sector /\ n = SectorsOf(from[f].length) * Sector
    BY <1>1, <1>2
  <2> HIDE DEF from
  <2>2. ModuleCells(from, q, f, n) /\ body(from, q) = Read(from, f, n) /\ Len(body(from, q)) = n
    BY ONLY <1>11, <1>12, <2>1, ModuleHas
  <2>3. f \in Nat /\ n \in Nat /\ q \in Nat
    BY ONLY <1>11, <1>12, <2>1, ModuleSpan
  <2> QED
    BY <2>2, <2>3
<1>19. /\ o \in Nat /\ m \in Nat /\ Cells(w, p) = o .. o + m - 1 /\ Len(body(w, p)) = m
       /\ \A k \in 0 .. m - 1 : o + k \in DOMAIN w /\ o + k \notin DirCells(w, DirAt)
  <2>1. o = p * Sector /\ m = SectorsOf(w[o].length) * Sector
    BY <1>1, <1>2
  <2> HIDE DEF w
  <2>2. Len(body(w, p)) = m
    BY ONLY <1>11, <1>12, <2>1, ModuleHas
  <2>3. /\ o \in Nat /\ m \in Nat /\ Cells(w, p) = o .. o + m - 1
        /\ \A k \in 0 .. m - 1 : o + k \in DOMAIN w /\ o + k \notin DirCells(w, DirAt)
    BY ONLY <1>11, <1>12, <2>1, ModuleSpan
  <2> QED
    BY <2>2, <2>3
<1>20. n <= m
  BY <1>5, <1>18, <1>19
<1>21. Padded(b1, w, o, from, f, n, m)
  <2>1. \A c \in DOMAIN w : c \in Nat
    BY <1>11, LaidIs
  <2>2. PICK cells : cells = Read(from, f, n) \o [k \in 1 .. m - n |-> Zero]
    OBVIOUS
  <2>3. b1 = Write(w, o, cells)
    BY <1>8, <1>18, <1>19, <2>2
  <2>4. o \in Nat /\ f \in Nat /\ n \in Nat /\ m \in Nat
    BY <1>18, <1>19
  <2> HIDE DEF w, from
  <2> QED
    BY ONLY <1>20, <2>1, <2>2, <2>3, <2>4, Filled
<1>22. /\ i0 \in DOMAIN w /\ w[i0] = Entry(w[i0].name, w[i0].start, w[i0].length)
  BY <1>11, <1>16, EntryFields
<1>23. i0 \notin o .. o + m - 1
  <2>1. \A c \in Cells(w, p) : c \notin DirCells(w, DirAt)
    BY <1>11, <1>12, NotDir
  <2> QED
    BY <1>16, <1>19, <2>1
<1>24. b1[i0] = w[i0] /\ DOMAIN b1 = DOMAIN w
  BY <1>21, <1>22, <1>23 DEF Padded
<1>25. /\ DOMAIN b = DOMAIN w /\ IsArea(b) /\ b[i0] = [b1[i0] EXCEPT !.length = l]
       /\ \A c \in DOMAIN w : c # i0 => b[c] = b1[c]
  <2> HIDE DEF w
  <2>1. b1 = [c \in DOMAIN b1 |-> b1[c]]
    BY <1>21 DEF Padded, IsArea
  <2> QED
    BY <1>8, <1>22, <1>24, <2>1 DEF IsArea
<1>26. b[i0] = Entry(w[i0].name, w[i0].start, l)
  <2>1. PICK e : e = w[i0]
    OBVIOUS
  <2>2. e = Entry(e.name, e.start, e.length) /\ b[i0] = [e EXCEPT !.length = l]
    BY <1>22, <1>24, <1>25, <2>1
  <2>3. b[i0] = Entry(e.name, e.start, l)
    BY ONLY <2>2 DEF Entry
  <2> QED
    BY <2>1, <2>3
<1>27. Over(w, b, o, m, from, f, n, i0)
  <2>1. ASSUME NEW c \in DOMAIN w, c \notin o .. o + m - 1, c # i0
        PROVE  b[c] = w[c]
    BY <1>21, <1>25, <2>1 DEF Padded
  <2>2. ASSUME NEW k \in 0 .. m - 1
        PROVE  IF k < n THEN b[o + k] = from[f + k] ELSE b[o + k] \in {Zero, w[o + k]}
    <3>1. o + k \in DOMAIN w /\ b[o + k] = b1[o + k]
      BY <1>16, <1>19, <1>25
    <3>2. b1[o + k] = (IF k < n THEN from[f + k] ELSE Zero)
      BY <1>21, <3>1 DEF Padded
    <3> QED
      BY <3>1, <3>2
  <2>3. b[i0] = Entry(w[i0].name, w[i0].start, from[f].length)
    BY <1>1, <1>26
  <2> HIDE DEF w, from
  <2> QED
    BY <1>25, <2>1, <2>2, <2>3 DEF Over
<1>28. Swap(w, b, p, from[f], i0)
  <2>1. n = SectorsOf(from[f].length) * Sector /\ f = q * Sector
    BY <1>1, <1>2
  <2>2. i0 \in DirCells(w, DirAt)
    BY <1>16
  <2>3. ModuleCells(from, q, f, n) /\ Over(w, b, o, m, from, f, n, i0) /\ q \in Nat
    BY <1>18, <1>27
  <2>4. o = p * Sector /\ m = SectorsOf(w[o].length) * Sector /\ n <= m
    BY <1>1, <1>2, <1>20
  <2> HIDE DEF w, from
  <2> QED
    BY ONLY <1>11, <1>12, <2>1, <2>2, <2>3, <2>4, SwapFrom
<1>29. PICK head : head = from[f]
  OBVIOUS
<1>30. head.name \notin Specials \cup Range(Typeable)
  <2>1. q \in headers(from) /\ head = from[q * Sector]
    BY <1>1, <1>12, <1>29
  <2> HIDE DEF from
  <2> QED
    BY ONLY <1>11, <2>1, LaidHeader
<1>31. ASSUME NEW c \in DirCells(Was, DirAt) \ {DirAt * Sector}, DirAt + Was[c].start - 1 = p
       PROVE  c = i0
  <2>1. Oslem7OK(shelf["OSLEM7"])
    BY <1>10, OriginalsAssumption
  <2>2. Was = shelf["OSLEM7"].data /\ DirAt = shelf["OSLEM7"].dir
    BY <1>5 DEF Was, DirAt, Original
  <2>3. DirAt + Was[i0].start - 1 = p /\ i0 \in DirCells(Was, DirAt) \ {DirAt * Sector}
    BY <1>16, <1>17
  <2>4. p \in Named(Was, "1KYB")
    BY <1>12
  <2> QED
    BY ONLY <1>31, <2>1, <2>2, <2>3, <2>4 DEF Oslem7OK
<1>35. PICK name : name = <<"kyb">>
  OBVIOUS
<1>32. PICK fmd : fmd = (name[1] \in {"fmd_patc", "fmd_allres"})
  OBVIOUS
<1>39. ~fmd /\ fmd \in BOOLEAN
  <2>1. name[1] = "kyb"
    BY <1>35
  <2>2. (name[1] \in {"fmd_patc", "fmd_allres"}) = FALSE
    BY ONLY <2>1
  <2>3. fmd = FALSE
    BY ONLY <1>32, <2>2
  <2> QED
    BY ONLY <2>3
<1>33. /\ DOMAIN b = DOMAIN Was /\ Laid(b, DirAt, DirRoom) /\ AllAlone(b, DirAt, DirRoom)
       /\ AllLead(b, DirAt, fmd, {}) /\ IndexKept(Was, b, DirAt, fmd)
       /\ \A x \in headers(Was) : x # p => \A c \in Cells(Was, x) : b[c] = Was[c]
  <2>1. fmd \in BOOLEAN
    BY <1>39
  <2>2. IF fmd THEN /\ Was[i0].name = "0FMU" /\ head.name = "0FMD"
                    /\ \A c \in DirCells(Was, DirAt) : Was[c].name # head.name
        ELSE head.name = Was[i0].name /\ head.name = Was[p * Sector].name
    BY <1>1, <1>13, <1>16, <1>29, <1>39
  <2>3. p \in headers(Was) /\ Swap(Was, b, p, head, i0) /\ p = DirAt + Was[i0].start - 1
        /\ Was[i0].name \notin Specials
    BY <1>12, <1>16, <1>17, <1>28, <1>29 DEF Specials
  <2>4. i0 \in DirCells(Was, DirAt) \ {DirAt * Sector}
    BY <1>16
  <2> QED
    BY ONLY <1>10, <1>30, <1>31, <2>1, <2>2, <2>3, <2>4, SwapStep
<1>34. ModulesKept(b)'
  <2>1. UNCHANGED <<shelf, disk>> /\ script' = <<"kyb">> /\ script'[1] = "kyb"
    BY <1>9 DEF Edits
  <2>2. Replaces' = {"1KYB"}
    BY <2>1 DEF Replaces
  <2>3. Was[p * Sector].name = "1KYB"
    BY <1>1, <1>13
  <2>4. \A x \in headers(Was) : Was[x * Sector].name \notin {"1KYB"} =>
                                   \A c \in Cells(Was, x) : b[c] = Was[c]
    BY <1>33, <2>3
  <2> QED
    BY <2>1, <2>2, <2>4, ModulesAgain
<1>36. /\ name[1] \notin {"none", "containers"} /\ fmd = (name[1] \in {"fmd_patc", "fmd_allres"})
       /\ {} = (IF name[1] = "ffr" THEN {s.name : s \in name[2]} ELSE {})
  BY <1>32, <1>35
<1>37. Edits(name, "OSLEM7", b)
  BY <1>9, <1>35
<1>38. SurgeryInv
  OBVIOUS
<1> QED
  BY ONLY <1>33, <1>34, <1>36, <1>37, <1>38, EditStep

------------------------------------------------------------------------------
(* build_oslem7_ffr.py: sub-modules are exchanged.                          *)

\* The loop of the script.
LEMMA FfrLoop ==
  ASSUME NEW subs, Len(subs) \in Nat, Oslem7Ffr(subs)
  PROVE  \E f : /\ f[0] = image.data
                /\ \A k \in 1 .. Len(subs) : f[k] = Replaced(f[k - 1], subs[k])
                /\ Edits(<<"ffr", ToSet(subs)>>, "OSLEM7", f[Len(subs)])
<1> DEFINE Is(f, m) == f = [k \in 0 .. m |->
                              IF k = 0 THEN image.data ELSE Replaced(f[k - 1], subs[k])]
<1>1. \A m \in Nat : \E f : Is(f, m)
  <2> DEFINE Missing == {m \in Nat : ~\E f : Is(f, m)}
  <2> SUFFICES ASSUME Missing # {}
               PROVE  FALSE
    OBVIOUS
  <2>1. PICK m \in Nat : m \in Missing /\ \A k \in Missing : m <= k
    <3>1. Missing \in SUBSET Nat
      OBVIOUS
    <3> HIDE DEF Missing
    <3> QED
      BY <3>1, Least
  <2>2. CASE m = 0
    <3> DEFINE f == [k \in 0 .. 0 |-> image.data]
    <3>1. Is(f, 0)
      OBVIOUS
    <3> QED
      BY <2>1, <2>2, <3>1
  <2>3. CASE m # 0
    <3>0. PICK k : k = m - 1
      OBVIOUS
    <3>1. k \in Nat /\ ~(m <= k)
      BY <2>1, <2>3, <3>0
    <3>2. PICK f : Is(f, k)
      <4> HIDE DEF Is
      <4> QED
        BY <2>1, <3>1
    <3> DEFINE more == [i \in 0 .. m |-> IF i = m THEN Replaced(f[m - 1], subs[m]) ELSE f[i]]
    <3>3. ASSUME NEW i \in 0 .. m
          PROVE  more[i] = IF i = 0 THEN image.data ELSE Replaced(more[i - 1], subs[i])
      <4>1. CASE i = m
        <5>1. more[k] = f[k]
          BY <2>1, <2>3, <3>0, <3>1
        <5> QED
          BY <2>3, <3>0, <4>1, <5>1
      <4>2. CASE i # m
        <5>1. i \in 0 .. k
          BY <2>1, <3>0, <4>2
        <5>2. f[i] = IF i = 0 THEN image.data ELSE Replaced(f[i - 1], subs[i])
          BY <3>2, <5>1
        <5>3. i # 0 => i - 1 \in 0 .. m /\ i - 1 # m
          BY <2>1
        <5>4. more[i] = f[i] /\ (i # 0 => more[i - 1] = f[i - 1])
          BY <4>2, <5>3
        <5> QED
          BY <5>2, <5>4
      <4> QED
        BY <4>1, <4>2
    <3>4. Is(more, m)
      BY <3>3
    <3> QED
      BY <2>1, <3>4
  <2> QED
    BY <2>2, <2>3
<1>2. PICK f : f = CHOOSE g : Is(g, Len(subs))
  OBVIOUS
<1>3. Is(f, Len(subs))
  BY <1>1, <1>2
<1>4. Edits(<<"ffr", ToSet(subs)>>, "OSLEM7", f[Len(subs)])
  BY <1>2 DEF Oslem7Ffr
<1>5. f[0] = image.data /\ \A k \in 1 .. Len(subs) : f[k] = Replaced(f[k - 1], subs[k])
  BY <1>3
<1> QED
  BY <1>4, <1>5

LEMMA FfrMakes ==
  ASSUME SurgeryInv, NEW subs \in SubLists, Oslem7Ffr(subs), NEW k, k = shelf["K02743"].data
  PROVE  \E b : /\ Edits(<<"ffr", ToSet(subs)>>, "OSLEM7", b)
                /\ Exchanged(Was, k, b, ToSet(subs))
                /\ \A s \in ToSet(subs) : Asked(Was, k, s)
<1>1. subs \in Seq([name : STRING, ends : STRING])
  BY ScriptsAssumption
<1>2. PICK N : N = Len(subs)
  OBVIOUS
<1>3. N \in Nat /\ DOMAIN subs = 1 .. N
  BY <1>1, <1>2, LenProperties
<1>4. PICK f : /\ f[0] = image.data
               /\ \A j \in 1 .. N : f[j] = Replaced(f[j - 1], subs[j])
               /\ Edits(<<"ffr", ToSet(subs)>>, "OSLEM7", f[N])
  BY <1>2, <1>3, FfrLoop
<1>5. PICK w : w = Was
  OBVIOUS
<1>6. shelf \in Shelves /\ disk \in DOMAIN shelf /\ image.data = w
  <2>1. script = <<"none">> /\ renamed = {}
    BY <1>4 DEF Edits
  <2> QED
    BY <1>5, <2>1, AsOriginal DEF SurgeryInv
<1>7. /\ Laid(w, DirAt, DirRoom) /\ ContainersOK(w)
      /\ Laid(k, shelf["K02743"].dir, Room("K02743", shelf["K02743"])) /\ ContainersOK(k)
  BY <1>5, <1>6, WasIs, OriginalIs, OriginalsAssumption
<1>8. \A s \in ToSet(subs) : Asked(w, k, s)
  BY <1>5 DEF Oslem7Ffr, Asked, Was
<1> DEFINE S(j) == {subs[x] : x \in 1 .. j}
<1>9. Exchanged(w, k, f[0], S(0))
  <2>1. S(0) = {}
    OBVIOUS
  <2>2. IsArea(w)
    BY <1>7, LaidFcn DEF IsArea
  <2> QED
    BY <1>4, <1>6, <2>1, <2>2 DEF Exchanged
<1>10. ASSUME NEW j \in 1 .. N, NEW i, i = j - 1, Exchanged(w, k, f[i], S(i))
       PROVE  Exchanged(w, k, f[j], S(j))
  <2>1. PICK s, d, b : s = subs[j] /\ d = f[i] /\ b = f[j]
    OBVIOUS
  <2>2. s \in ToSet(subs) /\ S(i) \subseteq ToSet(subs) /\ S(j) = S(i) \cup {s}
    BY <1>3, <1>10, <2>1 DEF ToSet
  <2>3. Asked(w, k, s) /\ \A t \in S(i) : Asked(w, k, t)
    BY <1>8, <2>2
  <2>4. b = Replaced(d, s)
    BY <1>4, <1>10, <2>1
  <2>5. PICK a, l, g, n : a = OldAt(w, s) /\ l = OldLen(w, s) /\ g = NewAt(k, s) /\ n = NewLen(k, s)
    OBVIOUS
  <2>6. a \in Nat /\ l \in Nat /\ g \in Nat /\ n \in Nat /\ n <= l
    BY ONLY <1>7, <2>3, <2>5, AskedIs
  <2>7. PICK cells : cells = Read(k, g, n) \o [x \in 1 .. l - n |-> Zero]
    OBVIOUS
  <2>8. b = Write(d, a, cells)
    BY <1>5, <2>4, <2>5, <2>7 DEF Replaced, OldAt, OldLen, NewAt, NewLen, Was
  <2>9. \A c \in DOMAIN d : c \in Nat
    <3>1. DOMAIN d = DOMAIN w
      BY <1>10, <2>1 DEF Exchanged
    <3> QED
      BY <1>7, <3>1, LaidIs
  <2>10. Padded(b, d, a, k, g, n, l)
    BY ONLY <2>6, <2>7, <2>8, <2>9, Filled
  <2>11. PICK T : T = S(i)
    OBVIOUS
  <2>12. Exchanged(w, k, d, T) /\ \A t \in T : Asked(w, k, t)
    BY <1>10, <2>1, <2>3, <2>11
  <2>13. Padded(b, d, OldAt(w, s), k, NewAt(k, s), NewLen(k, s), OldLen(w, s))
    BY <2>5, <2>10
  <2>14. Exchanged(w, k, b, T \cup {s})
    BY ONLY <1>7, <2>3, <2>12, <2>13, ExchangeOne
  <2> QED
    BY <2>1, <2>2, <2>11, <2>14
<1>11. PICK Bad : Bad = {j \in 0 .. N : ~Exchanged(w, k, f[j], S(j))}
  OBVIOUS
<1>12. S(N) = ToSet(subs)
  BY <1>3 DEF ToSet
<1> HIDE DEF S
<1>13. ASSUME Bad # {}
       PROVE  FALSE
  <2>1. PICK j \in Bad : \A x \in Bad : j <= x
    <3>1. Bad \in SUBSET Nat
      BY <1>11
    <3> QED
      BY <1>13, <3>1, Least
  <2>2. j \in 0 .. N /\ ~Exchanged(w, k, f[j], S(j)) /\ j # 0
    BY <1>9, <1>11
  <2>3. PICK i : i = j - 1
    OBVIOUS
  <2>4. i \in 0 .. N /\ ~(j <= i) /\ j \in 1 .. N
    BY <1>3, <2>2, <2>3
  <2>5. Exchanged(w, k, f[i], S(i))
    BY <1>11, <2>1, <2>4
  <2> QED
    BY <1>10, <2>2, <2>3, <2>4, <2>5
<1>14. Exchanged(w, k, f[N], ToSet(subs))
  <2>1. N \in 0 .. N
    BY <1>3
  <2>2. Exchanged(w, k, f[N], S(N))
    BY <1>11, <1>13, <2>1
  <2> QED
    BY <1>12, <2>2
<1> QED
  BY <1>4, <1>5, <1>8, <1>14

\* What the directory says of b.
LEMMA ExchangeDirectory ==
  ASSUME shelf \in Shelves, disk \in DOMAIN shelf, NEW k, NEW dk, NEW rk, NEW b, NEW S,
         Exchange(Was, DirAt, DirRoom, k, dk, rk, b, S)
  PROVE  /\ DOMAIN b = DOMAIN Was /\ Laid(b, DirAt, DirRoom) /\ AllAlone(b, DirAt, DirRoom)
         /\ AllLead(b, DirAt, FALSE, {s.name : s \in S}) /\ IndexKept(Was, b, DirAt, FALSE)
<1>1. PICK w, di, a : w = Was /\ di = DirAt /\ a = di * Sector
  OBVIOUS
<1>2. Exchange(w, di, DirRoom, k, dk, rk, b, S)
  BY <1>1
<1>3. Laid(w, di, DirRoom) /\ DOMAIN b = DOMAIN w
  BY <1>2 DEF Exchange, Exchanged
<1>4. /\ SameLayout(w, b, di)
      /\ \A c \in DirCells(w, di) : b[c] = w[c]
      /\ \A i \in headers(w) : b[i * Sector] = w[i * Sector]
  BY ONLY <1>2, ExchangeLayout
<1>5. Laid(b, di, DirRoom)
  BY ONLY <1>3, <1>4, LaidAgain
<1>6. DirCells(b, di) = DirCells(w, di)
  BY <1>4 DEF SameLayout, DirCells
<1>7. di \in Nat /\ DirRoom \in Nat
  BY <1>3, DirIs
<1>8. ASSUME NEW t \in Nat, t * Sector \in DOMAIN w
      PROVE  b[t * Sector].name = w[t * Sector].name
  <2>1. t \in Nat /\ t * Sector \in DOMAIN w
    BY <1>8
  <2>2. SameStart(w, b, t)
    BY ONLY <1>2, <2>1, ExchangeSector
  <2> QED
    BY ONLY <2>2 DEF SameStart
<1>9. ASSUME NEW c \in DirCells(w, di) \ {a}
      PROVE  Alone(b, di, DirRoom, b[c])
  <2>1. Alone(w, di, DirRoom, w[c]) /\ b[c] = w[c]
    BY <1>1, <1>4, EntryLeads
  <2>2. b[c].start = w[c].start /\ b[c].name = w[c].name
    BY <2>1
  <2>3. \A s \in Nat : s * Sector \in DOMAIN w =>
          b[s * Sector].name = w[s * Sector].name \/ b[s * Sector].name # w[c].name
    BY <1>8
  <2>4. Alone(w, di, DirRoom, w[c])
    BY <2>1
  <2> QED
    BY ONLY <1>3, <1>7, <2>2, <2>3, <2>4, AloneAgain
<1>10. AllAlone(b, di, DirRoom)
  BY <1>1, <1>6, <1>9 DEF AllAlone
<1>11. PICK names : names = {s.name : s \in S}
  OBVIOUS
<1>12. ASSUME NEW c \in DirCells(w, di) \ {a}, w[c].name \notin Specials
       PROVE  Leads(b, di, w[c], FALSE, names)
  <2>1. PICK e, p : e = w[c] /\ p = di + e.start - 1
    OBVIOUS
  <2>2. PICK o : o = p * Sector
    OBVIOUS
  <2>3. p \in headers(w) /\ AsCopied(e.name) = e.name
    BY <1>1, <1>12, <2>1, EntryLeads
  <2>4. PICK h \in Heads(w, o) : h.name = e.name /\ h.length = e.length
    BY <1>1, <1>12, <2>1, <2>2, EntryLeads
  <2>5. HeaderOK(w, p) /\ ContainersOK(w)
    BY <1>3, <2>3, HeaderIs, <1>2 DEF Exchange
  <2>6. o \in DOMAIN w /\ w[o].kind = "head"
    BY <2>2, <2>5 DEF HeaderOK
  <2>7. e.length <= w[o].length
    BY <1>3, <2>2, <2>3, <2>4, <2>5, HeadLength
  <2>8. /\ sub_offsets(b, o) = sub_offsets(w, o) /\ b[o] = w[o]
        /\ \A x \in ToSet(sub_offsets(w, o)) :
             /\ b[o + x].name = w[o + x].name
             /\ b[o + x] = w[o + x] \/ w[o + x].name \in names
    <3>1. /\ sub_offsets(b, o) = sub_offsets(w, o) /\ b[o] = w[o]
          /\ \A x \in ToSet(sub_offsets(w, o)) :
               /\ b[o + x].name = w[o + x].name
               /\ b[o + x] = w[o + x] \/ w[o + x].name \in {s.name : s \in S}
      BY ONLY <1>2, <2>2, <2>3, ExchangeSubs
    <3> QED
      BY ONLY <1>11, <3>1
  <2>9. \E g \in Heads(b, o) : g.name = e.name /\ (g.length = e.length \/ e.name \in names)
    <3>1. CASE h = w[o]
      BY <2>4, <2>8, <3>1 DEF Heads
    <3>2. CASE h # w[o]
      <4>1. PICK x \in ToSet(sub_offsets(w, o)) : h = w[o + x]
        BY <2>4, <3>2 DEF Heads
      <4>2. b[o + x] \in Heads(b, o)
        BY <2>8, <4>1 DEF Heads
      <4>3. b[o + x].name = e.name /\ (b[o + x].length = e.length \/ e.name \in names)
        BY <2>4, <2>8, <4>1
      <4> QED
        BY <4>2, <4>3
    <3> QED
      BY <3>1, <3>2
  <2>10. (di + e.start - 1) * Sector = o
    BY <2>1, <2>2
  <2>11. Leads(b, di, e, FALSE, names)
    BY <1>3, <2>3, <2>6, <2>7, <2>8, <2>9, <2>10 DEF Leads
  <2> QED
    BY <2>1, <2>11
<1>13. AllLead(b, di, FALSE, names)
  BY <1>1, <1>4, <1>6, <1>12 DEF AllLead
<1>14. IndexKept(w, b, di, FALSE)
  <2> SUFFICES ASSUME NEW c \in DirCells(w, di) \ {a},
                      w[c].name \in {w[i * Sector].name : i \in headers(w)}
               PROVE  /\ c \in DirCells(b, di) /\ b[c].name = w[c].name
                      /\ (di + b[c].start - 1) * Sector \in DOMAIN b
                      /\ b[(di + b[c].start - 1) * Sector].name = w[c].name
    BY <1>1 DEF IndexKept
  <2>1. PICK e : e = di + w[c].start - 1
    OBVIOUS
  <2>2. e * Sector \in DOMAIN w /\ w[e * Sector].name = w[c].name
    BY <1>1, <2>1, EntryLeads
  <2>3. w[c].name \notin Specials
    BY <1>3 DEF Laid
  <2>4. e \in headers(w)
    BY <1>1, <2>1, <2>3, EntryLeads
  <2>5. b[c] = w[c] /\ b[e * Sector] = w[e * Sector]
    BY <1>4, <2>4
  <2> QED
    BY <1>3, <1>6, <2>1, <2>2, <2>5
<1> QED
  BY <1>1, <1>3, <1>5, <1>10, <1>11, <1>13, <1>14

LEMMA FfrStep ==
  ASSUME SurgeryInv, NEW subs \in SubLists, Oslem7Ffr(subs)
  PROVE  SurgeryInv'
<1>1. PICK k : k = shelf["K02743"].data
  OBVIOUS
<1>2. PICK S : S = ToSet(subs)
  OBVIOUS
<1>3. PICK b : /\ Edits(<<"ffr", S>>, "OSLEM7", b)
               /\ Exchanged(Was, k, b, S)
               /\ \A s \in S : Asked(Was, k, s)
  BY <1>1, <1>2, FfrMakes
<1>4. shelf \in Shelves /\ disk \in DOMAIN shelf
  BY DEF SurgeryInv
<1>5. PICK dk, rk : dk = shelf["K02743"].dir /\ rk = Room("K02743", shelf["K02743"])
  OBVIOUS
<1>6. Exchange(Was, DirAt, DirRoom, k, dk, rk, b, S)
  BY <1>1, <1>3, <1>4, <1>5, WasIs, OriginalIs, OriginalsAssumption DEF Exchange
<1>7. PICK name, fmd, swapped :
        /\ name = <<"ffr", S>> /\ fmd = (name[1] \in {"fmd_patc", "fmd_allres"})
        /\ swapped = (IF name[1] = "ffr" THEN {s.name : s \in name[2]} ELSE {})
  OBVIOUS
<1>8. name[1] = "ffr" /\ name[2] = S
  BY ONLY <1>7
<1>9. fmd = FALSE
  <2>1. name[1] = "ffr"
    BY <1>8
  <2>2. (name[1] \in {"fmd_patc", "fmd_allres"}) = FALSE
    BY ONLY <2>1
  <2> QED
    BY ONLY <1>7, <2>2
<1>10. swapped = {s.name : s \in S}
  BY ONLY <1>7, <1>8
<1>11. /\ DOMAIN b = DOMAIN Was /\ Laid(b, DirAt, DirRoom) /\ AllAlone(b, DirAt, DirRoom)
       /\ AllLead(b, DirAt, fmd, swapped) /\ IndexKept(Was, b, DirAt, fmd)
  <2>1. /\ DOMAIN b = DOMAIN Was /\ Laid(b, DirAt, DirRoom) /\ AllAlone(b, DirAt, DirRoom)
        /\ AllLead(b, DirAt, FALSE, {s.name : s \in S}) /\ IndexKept(Was, b, DirAt, FALSE)
    BY ONLY <1>4, <1>6, ExchangeDirectory
  <2> QED
    BY ONLY <1>9, <1>10, <2>1
<1>12. UNCHANGED <<shelf, disk>> /\ script' = <<"ffr", S>> /\ script'[1] = "ffr" /\ script'[2] = S
  BY <1>3 DEF Edits
<1>13. Was' = Was
  BY <1>12, SameOriginal
<1>14. Replaces' = {Pair(s)[1] : s \in S}
  BY <1>12 DEF Replaces
<1>15. ASSUME NEW i \in headers(Was), i = Max(Named(Was, Was[i * Sector].name)),
              NEW x \in ToSet(sub_offsets(Was, i * Sector))
       PROVE  SubKept(b, i, x)'
  <2>1. PICK w, o, old : w = Was /\ o = i * Sector /\ old = w[o + x].name
    OBVIOUS
  <2>2. PICK by : by = {s \in S : s.name = old /\ Pair(s)[1] = w[o].name}
    OBVIOUS
  <2>3. Exchange(w, DirAt, DirRoom, k, dk, rk, b, S) /\ i \in headers(w)
        /\ i = Max(Named(w, w[o].name)) /\ x \in ToSet(sub_offsets(w, o)) /\ o = i * Sector
    BY <1>6, <1>15, <2>1
  <2>4. CASE by = {}
    <3>1. \A s \in S : ~(s.name = w[o + x].name /\ Pair(s)[1] = w[o].name)
      BY <2>1, <2>2, <2>4
    <3>2. \A n \in 0 .. w[o + x].length : b[o + x + n] = w[o + x + n]
      BY ONLY <2>3, <3>1, ExchangeOther
    <3> QED
      BY <1>12, <1>13, <2>1, <2>2, <2>4, <3>2 DEF SubKept
  <2>5. CASE by # {}
    <3>1. PICK s \in by : TRUE
      BY <2>5
    <3>2. s \in S /\ s.name = w[o + x].name /\ Pair(s)[1] = w[o].name /\ s.name = old
      BY <2>1, <2>2, <3>1
    <3>3. /\ NewAt(k, s) \in Nat /\ k[NewAt(k, s)].length \in Nat
          /\ o + x + k[NewAt(k, s)].length < Behind(w, i) * Sector
          /\ \A n \in 0 .. k[NewAt(k, s)].length : b[o + x + n] = k[NewAt(k, s) + n]
      <4>1. s \in S /\ s.name = w[o + x].name /\ Pair(s)[1] = w[o].name
        BY <3>2
      <4> QED
        BY ONLY <2>3, <4>1, ExchangeWanted
    <3>4. NewAt(k, s) = span(k, Pair(s)[2], old).at
      BY <3>2 DEF NewAt
    <3>5. sub_offsets(b, o) = sub_offsets(w, o)
      BY ONLY <2>3, ExchangeSubs
    <3>6. i \in headers(b)
      <4>1. Laid(w, DirAt, DirRoom) /\ SameLayout(w, b, DirAt)
        BY <2>3, ExchangeLayout DEF Exchange
      <4>2. headers(b) = headers(w)
        BY ONLY <4>1, LaidAgain
      <4> QED
        BY <2>3, <4>2
    <3>7. shelf'.K02743.data = k
      BY <1>1, <1>12
    <3>8. {r \in script'[2] : r.name = Was'[i * Sector + x].name /\ Pair(r)[1] = Was'[i * Sector].name} = by
      BY <1>12, <1>13, <2>1, <2>2
    <3>9. PICK at : at = NewAt(k, s)
      OBVIOUS
    <3>10. /\ i \in headers(b) /\ x \in ToSet(sub_offsets(b, o)) /\ at \in Nat /\ k[at].length \in Nat
           /\ o + x + k[at].length < Behind(w, i) * Sector
           /\ \A n \in 0 .. k[at].length : b[o + x + n] = k[at + n]
           /\ at = span(k, Pair(s)[2], old).at
      BY ONLY <2>3, <3>3, <3>4, <3>5, <3>6, <3>9
    <3> QED
      BY ONLY <1>13, <2>1, <2>5, <3>1, <3>7, <3>8, <3>10 DEF SubKept
  <2> QED
    BY <2>4, <2>5
<1>16. ModulesKept(b)'
  <2>1. ASSUME NEW i \in headers(Was), Was[i * Sector].name \notin {Pair(s)[1] : s \in S}
        PROVE  \A c \in Cells(Was, i) : b[c] = Was[c]
    BY ONLY <1>6, <2>1, ExchangeModule
  <2> QED
    BY <1>12, <1>13, <1>14, <1>15, <2>1 DEF ModulesKept
<1>17. name[1] \notin {"none", "containers"}
  BY ONLY <1>8
<1>18. Edits(name, "OSLEM7", b) /\ SurgeryInv
  BY <1>3, <1>7
<1> QED
  BY ONLY <1>7, <1>11, <1>16, <1>17, <1>18, EditStep

------------------------------------------------------------------------------
(* build_allres_osg.py: modules are copied behind one another.              *)

\* What the script does after its loop.
OsgEnds(end) ==
  LET ents  == read_directory(image.data, 0)
      fixed == [ents EXCEPT ![1].start = @ + Len(OSG)]
      all   == SubSeq(fixed, 1, Len(ents) - 3) \o end.new
               \o SubSeq(fixed, Len(ents) - 2, Len(ents))
  IN  /\ disk = "ALL"
      /\ \A m \in ToSet(OSG) : /\ m.name \notin {e.name : e \in ToSet(ents)}
                               /\ shelf.K02743.data[m.at * Sector].name = m.name
      /\ end.idx <= Blank + BlankSectors
      /\ Len(all) <= DirSectors * Sector
      /\ Edits(<<"allres_osg">>, "ALL", Write(end.data, 0, all))

LEMMA OsgLoop ==
  ASSUME Len(OSG) \in Nat, AllresOsg
  PROVE  \E f : /\ f[0] = [data |-> image.data, idx |-> Blank, new |-> <<>>]
                /\ \A k \in 1 .. Len(OSG) : f[k] = Copied(f[k - 1], OSG[k])
                /\ OsgEnds(f[Len(OSG)])
<1> DEFINE Is(f, m) == f = [k \in 0 .. m |->
                              IF k = 0 THEN [data |-> image.data, idx |-> Blank, new |-> <<>>]
                              ELSE Copied(f[k - 1], OSG[k])]
<1>1. \A m \in Nat : \E f : Is(f, m)
  <2> DEFINE Missing == {m \in Nat : ~\E f : Is(f, m)}
  <2> SUFFICES ASSUME Missing # {}
               PROVE  FALSE
    OBVIOUS
  <2>1. PICK m \in Nat : m \in Missing /\ \A k \in Missing : m <= k
    <3>1. Missing \in SUBSET Nat
      OBVIOUS
    <3> HIDE DEF Missing
    <3> QED
      BY <3>1, Least
  <2>2. CASE m = 0
    <3> DEFINE f == [k \in 0 .. 0 |-> [data |-> image.data, idx |-> Blank, new |-> <<>>]]
    <3>1. Is(f, 0)
      OBVIOUS
    <3> QED
      BY <2>1, <2>2, <3>1
  <2>3. CASE m # 0
    <3>0. PICK k : k = m - 1
      OBVIOUS
    <3>1. k \in Nat /\ ~(m <= k)
      BY <2>1, <2>3, <3>0
    <3>2. PICK f : Is(f, k)
      <4> HIDE DEF Is
      <4> QED
        BY <2>1, <3>1
    <3> DEFINE more == [i \in 0 .. m |-> IF i = m THEN Copied(f[m - 1], OSG[m]) ELSE f[i]]
    <3>3. ASSUME NEW i \in 0 .. m
          PROVE  more[i] = IF i = 0 THEN [data |-> image.data, idx |-> Blank, new |-> <<>>]
                           ELSE Copied(more[i - 1], OSG[i])
      <4>1. CASE i = m
        <5>1. more[k] = f[k]
          BY <2>1, <2>3, <3>0, <3>1
        <5> QED
          BY <2>3, <3>0, <4>1, <5>1
      <4>2. CASE i # m
        <5>1. i \in 0 .. k
          BY <2>1, <3>0, <4>2
        <5>2. f[i] = IF i = 0 THEN [data |-> image.data, idx |-> Blank, new |-> <<>>]
                     ELSE Copied(f[i - 1], OSG[i])
          BY <3>2, <5>1
        <5>3. i # 0 => i - 1 \in 0 .. m /\ i - 1 # m
          BY <2>1
        <5>4. more[i] = f[i] /\ (i # 0 => more[i - 1] = f[i - 1])
          BY <4>2, <5>3
        <5> QED
          BY <5>2, <5>4
      <4> QED
        BY <4>1, <4>2
    <3>4. Is(more, m)
      BY <3>3
    <3> QED
      BY <2>1, <3>4
  <2> QED
    BY <2>2, <2>3
<1>2. PICK f : f = CHOOSE g : Is(g, Len(OSG))
  OBVIOUS
<1>3. Is(f, Len(OSG))
  BY <1>1, <1>2
<1>4. OsgEnds(f[Len(OSG)])
  BY <1>2 DEF AllresOsg, OsgEnds
<1>5. /\ f[0] = [data |-> image.data, idx |-> Blank, new |-> <<>>]
      /\ \A k \in 1 .. Len(OSG) : f[k] = Copied(f[k - 1], OSG[k])
  BY <1>3
<1> QED
  BY <1>4, <1>5

LEMMA OsgMakes ==
  ASSUME SurgeryInv, AllresOsg, NEW k, k = shelf["K02743"].data
  PROVE  /\ DirAt = 0 /\ DirRoom = DirSectors /\ AllOK(shelf["ALL"]) /\ Was = shelf["ALL"].data
         /\ \A i \in 1 .. Len(OSG) :
              /\ k[OSG[i].at * Sector].name = OSG[i].name
              /\ \A c \in DirCells(Was, 0) : Was[c].name # OSG[i].name
         /\ \E b, P : Edits(<<"allres_osg">>, "ALL", b) /\ Filed(Was, k, b, P, Was[0].start)
<1>1. PICK N : N = Len(OSG)
  OBVIOUS
<1>2. N \in Nat /\ DOMAIN OSG = 1 .. N
  BY <1>1, ScriptsAssumption, LenProperties
<1>3. PICK f : /\ f[0] = [data |-> image.data, idx |-> Blank, new |-> <<>>]
               /\ \A j \in 1 .. N : f[j] = Copied(f[j - 1], OSG[j])
               /\ OsgEnds(f[N])
  BY <1>1, <1>2, OsgLoop
<1>4. disk = "ALL" /\ script = <<"none">> /\ renamed = {}
  BY <1>3 DEF OsgEnds, Edits
<1>5. PICK w : w = Was
  OBVIOUS
<1>6. shelf \in Shelves /\ disk \in DOMAIN shelf /\ image.data = w
  BY <1>4, <1>5, AsOriginal DEF SurgeryInv
<1>7. w = shelf["ALL"].data /\ DirAt = shelf["ALL"].dir /\ DirRoom = Room("ALL", shelf["ALL"])
  BY <1>4, <1>5 DEF Was, DirAt, DirRoom, Original
<1>8. AllOK(shelf["ALL"])
  BY <1>6, OriginalsAssumption
<1>9. DirAt = 0 /\ DirRoom = DirSectors /\ Blank + BlankSectors <= nsec(w)
  BY <1>7, <1>8 DEF AllOK, Room
<1>10. Laid(w, 0, DirSectors)
  BY <1>5, <1>6, <1>9, WasIs
<1>11. 0 * Sector = 0
  BY GeometryAssumption
<1>12. PICK C : C = w[0].start
  OBVIOUS
<1>13. C \in Counts
  <2>1. w[0 * Sector].start \in Counts
    BY ONLY <1>10 DEF Laid
  <2> QED
    BY ONLY <1>11, <1>12, <2>1
<1>14. PICK ents : ents = read_directory(w, 0)
  OBVIOUS
<1>15. ReadsAs(ents, w, 0, C) /\ DirCells(w, 0) = 0 .. 0 + C - 1
  <2>1. PICK b : Made(b)
    BY DEF SurgeryInv
  <2>2. HasDir(w, 0, DirSectors)
    BY <1>6, <1>9, <2>1, ImageDir
  <2>20. PICK a, s, t : DirSpans(w, 0, a, s, t)
    BY <2>2, DirRead
  <2>3. /\ a = 0 * Sector /\ s = w[0 * Sector].start
        /\ DirCells(w, 0) = a .. a + s - 1
        /\ ReadsAs(read_directory(w, 0), w, a, s)
    BY ONLY <2>20 DEF DirSpans
  <2>4. a = 0 /\ s = C
    BY <1>11, <1>12, <2>3
  <2> QED
    BY <1>14, <2>3, <2>4
<1>16. w[0] = Entry(w[0].name, w[0].start, w[0].length)
  <2>1. 0 * Sector \in DirCells(w, 0)
    BY <1>10, DirIs
  <2>2. 0 \in DirCells(w, 0)
    BY <1>11, <2>1
  <2> QED
    BY ONLY <1>10, <2>2, EntryFields
<1>17. \A c \in DOMAIN w : c \in Nat
  BY <1>10, LaidIs
<1>18. IsArea(w)
  BY <1>10, LaidFcn DEF IsArea
<1>19. PICK P : /\ Placed(k, P) /\ P[N] = f[N].idx
                /\ Copies(w, k, P, f[N].data, N) /\ News(k, P, f[N].new, N)
  <2>1. f[0] = [data |-> w, idx |-> Blank, new |-> <<>>]
    BY <1>3, <1>6
  <2>2. \A j \in 1 .. N : f[j] = Copied(f[j - 1], OSG[j])
    BY <1>3
  <2>3. N \in Nat /\ N = Len(OSG) /\ shelf \in Shelves /\ k = shelf["K02743"].data
    BY <1>1, <1>2, <1>6
  <2> QED
    BY ONLY <1>17, <1>18, <2>1, <2>2, <2>3, OsgChain
<1>20. PICK all : all = SubSeq([ents EXCEPT ![1].start = @ + N], 1, Len(ents) - 3) \o f[N].new
                        \o SubSeq([ents EXCEPT ![1].start = @ + N], Len(ents) - 2, Len(ents))
  OBVIOUS
<1>21. PICK new, d, b : new = f[N].new /\ d = f[N].data /\ b = Write(d, 0, all)
  OBVIOUS
<1>22. /\ \A m \in ToSet(OSG) : /\ m.name \notin {e.name : e \in ToSet(ents)}
                                /\ k[m.at * Sector].name = m.name
       /\ P[N] <= Blank + BlankSectors
       /\ Len(all) <= DirSectors * Sector
       /\ Edits(<<"allres_osg">>, "ALL", b)
  BY <1>1, <1>3, <1>6, <1>14, <1>19, <1>20, <1>21 DEF OsgEnds
<1>23. Listed(all, w, k, P, C, N)
  <2>1. all = SubSeq([ents EXCEPT ![1].start = @ + N], 1, Len(ents) - 3) \o new
              \o SubSeq([ents EXCEPT ![1].start = @ + N], Len(ents) - 2, Len(ents))
    BY <1>20, <1>21
  <2>2. C \in Nat /\ C >= 4
    BY <1>13, Between
  <2>3. ReadsAs(ents, w, 0, C) /\ w[0].start = C
    BY <1>12, <1>15
  <2>4. N = Len(OSG) /\ N \in Nat /\ News(k, P, new, N)
    BY <1>1, <1>2, <1>19, <1>21
  <2> QED
    BY ONLY <1>16, <2>1, <2>2, <2>3, <2>4, ListIs
<1>24. Filed(w, k, b, P, C)
  <2>1. PICK M : M = nsec(w)
    OBVIOUS
  <2>2. M \in Nat /\ DOMAIN w = 0 .. M * Sector - 1 /\ Blank + BlankSectors <= M
    BY <1>9, <1>10, <2>1, LaidIs
  <2>3. C + N <= DirSectors * Sector
    BY <1>22, <1>23 DEF Listed
  <2>4. Placed(k, P) /\ P[Len(OSG)] <= Blank + BlankSectors /\ N = Len(OSG) /\ Copies(w, k, P, d, N)
        /\ b = Write(d, 0, all)
    BY <1>1, <1>19, <1>21, <1>22
  <2> QED
    BY ONLY <1>13, <1>23, <2>2, <2>3, <2>4, FiledIs, Zenon
<1>25. ASSUME NEW i \in 1 .. Len(OSG)
       PROVE  /\ k[OSG[i].at * Sector].name = OSG[i].name
              /\ \A c \in DirCells(Was, 0) : Was[c].name # OSG[i].name
  <2>1. OSG[i] \in ToSet(OSG)
    BY <1>1, <1>2 DEF ToSet
  <2>2. ASSUME NEW c \in DirCells(w, 0)
        PROVE  w[c].name \in {e.name : e \in ToSet(ents)}
    <3>1. PICK j : j = c + 1
      OBVIOUS
    <3>2. c \in 0 .. C - 1 /\ C \in Nat
      <4>1. C \in Nat
        BY <1>13, Between
      <4>2. c \in 0 .. 0 + C - 1
        BY <1>15
      <4> QED
        BY ONLY <4>1, <4>2
    <3>3. j \in 1 .. C /\ 0 + j - 1 = c
      BY ONLY <3>1, <3>2
    <3>4. ents = [x \in 1 .. C |-> w[0 + x - 1]]
      BY <1>15 DEF ReadsAs
    <3>5. ents[j] = w[c] /\ j \in DOMAIN ents
      BY <3>3, <3>4
    <3>6. w[c] \in ToSet(ents)
      BY <3>5 DEF ToSet
    <3> QED
      BY <3>6
  <2> QED
    BY <1>5, <1>22, <2>1, <2>2
<1> QED
  BY <1>5, <1>7, <1>8, <1>9, <1>12, <1>22, <1>24, <1>25

\* What the script has made, as the invariant has it.
LEMMA OsgGood ==
  ASSUME shelf \in Shelves, disk \in DOMAIN shelf, DirAt = 0, DirRoom = DirSectors,
         NEW k, NEW b, NEW P, NEW C, Grown(Was, k, b, P, C),
         NEW N, NEW D, NEW M, Sizes(Was, b, P, C, N, D, M)
  PROVE  /\ AllAlone(b, DirAt, DirRoom)
         /\ AllLead(b, DirAt, FALSE, {}) /\ IndexKept(Was, b, DirAt, FALSE)
<1>1. /\ N \in Nat /\ C \in Nat /\ C >= 4 /\ N = Len(OSG) /\ Blank \in Nat /\ DirSectors \in Nat
      /\ DirCells(Was, 0) = 0 .. C - 1 /\ DirCells(b, 0) = 0 .. C + N - 1
      /\ 0 * Sector = 0 /\ DOMAIN b = DOMAIN Was
  BY DEF Sizes
<1>2. Laid(Was, 0, DirSectors) /\ k = shelf["K02743"].data /\ AllOK(shelf["ALL"]) /\ Was = shelf["ALL"].data
      /\ C = Was[0].start
  BY DEF Grown
<1>3. ASSUME NEW c \in 1 .. C - 1
      PROVE  c \in DirCells(Was, DirAt) \ {DirAt * Sector}
  <2>1. c \in 0 .. C - 1 /\ c # 0
    BY ONLY <1>1, c \in 1 .. C - 1
  <2> QED
    BY <1>1, <2>1
<1>4. AllAlone(b, DirAt, DirRoom)
  <2>1. AllAlone(Was, 0, DirSectors)
    <3>1. ASSUME NEW c \in DirCells(Was, 0) \ {0 * Sector}
          PROVE  Alone(Was, 0, DirSectors, Was[c])
      BY EntryLeads
    <3> QED
      BY <3>1 DEF AllAlone
  <2>2. AllAlone(b, 0, DirSectors)
    BY <2>1, GrownAlone
  <2> QED
    BY <2>2
<1>5. ASSUME NEW d \in 1 .. C - 1, Was[d].name \notin Specials, NEW p, p = DirAt + Was[d].start - 1
      PROVE  /\ p \in headers(Was) /\ \A x \in Cells(Was, p) : b[x] = Was[x]
             /\ Leads(b, DirAt, Was[d], FALSE, {})
  <2>1. d \in DirCells(Was, DirAt) \ {DirAt * Sector}
    BY <1>3
  <2>2. p \in headers(Was)
    BY <1>5, <2>1, EntryLeads
  <2>3. \A x \in Cells(Was, p) : b[x] = Was[x]
    BY <2>2, GrownModule
  <2>4. shelf \in Shelves /\ disk \in DOMAIN shelf /\ DOMAIN b = DOMAIN Was
    BY <1>1
  <2>5. Leads(b, DirAt, Was[d], FALSE, {})
    BY ONLY <1>5, <2>1, <2>3, <2>4, LeadsAgain
  <2> QED
    BY <2>2, <2>3, <2>5
<1>6. ASSUME NEW c \in DirCells(b, DirAt) \ {DirAt * Sector}, b[c].name \notin Specials
      PROVE  Leads(b, DirAt, b[c], FALSE, {})
  <2>1. c \in 1 .. C + N - 1
    <3>1. c \in 0 .. C + N - 1 /\ c # 0
      BY <1>1
    <3> QED
      BY ONLY <1>1, <3>1
  <2>2. CASE \E d \in 1 .. C - 1 : b[c] = Was[d]
    <3>1. PICK d \in 1 .. C - 1 : b[c] = Was[d]
      BY <2>2
    <3>2. Was[d].name \notin Specials
      BY <1>6, <3>1
    <3>3. PICK p : p = DirAt + Was[d].start - 1
      OBVIOUS
    <3>4. Leads(b, DirAt, Was[d], FALSE, {})
      BY ONLY <1>5, <3>2, <3>3
    <3>5. b[c] = Was[d]
      BY <3>1
    <3> QED
      BY ONLY <3>4, <3>5
  <2>3. CASE \E i \in 1 .. N : b[c] = NewOne(k, P, i)
    <3>1. PICK i \in 1 .. N : b[c] = NewOne(k, P, i)
      BY <2>3
    <3>2. PICK e, p, h : e = b[c] /\ p = P[i - 1] /\ h = k[OSG[i].at * Sector]
      OBVIOUS
    <3>3. e.start = p + 1 /\ e.name = OSG[i].as /\ e.length = h.length
      BY <3>1, <3>2 DEF NewOne, Entry
    <3>4. /\ p \in Nat /\ p * Sector \in DOMAIN b /\ b[p * Sector] = h /\ h.name = OSG[i].name
      BY <3>2, CopyAt
    <3>5. i \in 1 .. Len(OSG)
      BY <1>1
    <3>6. /\ i \in DOMAIN OSG
          /\ ModuleCells(k, OSG[i].at, OSG[i].at * Sector, SizeOf(k, i) * Sector)
      BY ONLY <1>2, <3>5, shelf \in Shelves, OsgIs
    <3>7. h.kind = "head" /\ h.length \in Nat
      BY <3>2, <3>6 DEF ModuleCells
    <3>8. AsCopied(e.name) = h.name
      BY <3>3, <3>4, <3>6, NewIsFor
    <3>9. DirAt + e.start - 1 = p
      <4>1. 0 + (p + 1) - 1 = p
        BY <3>4
      <4> QED
        BY <3>3, <4>1
    <3>10. h \in Heads(b, p * Sector)
      BY <3>4 DEF Heads
    <3>11. e.length <= b[p * Sector].length
      BY <3>3, <3>4, <3>7
    <3>12. Leads(b, DirAt, e, FALSE, {})
      BY ONLY <3>3, <3>4, <3>7, <3>8, <3>9, <3>10, <3>11 DEF Leads
    <3>13. b[c] = e
      BY <3>2
    <3> QED
      BY ONLY <3>12, <3>13
  <2>4. \/ \E d \in 1 .. C - 1 : b[c] = Was[d]
        \/ \E i \in 1 .. N : b[c] = NewOne(k, P, i)
    <3>1. Grown(Was, k, b, P, C) /\ Sizes(Was, b, P, C, N, D, M)
      OBVIOUS
    <3>2. \/ \E d \in 1 .. C - 1 : b[c] = Was[d] /\ (d = c \/ d \in C - 3 .. C - 1)
          \/ \E i \in 1 .. N : b[c] = NewOne(k, P, i)
      BY ONLY <2>1, <3>1, GrownEntry
    <3> QED
      BY ONLY <3>2
  <2> QED
    BY ONLY <2>2, <2>3, <2>4
<1>7. ASSUME NEW c \in DirCells(Was, DirAt) \ {DirAt * Sector},
             Was[c].name \in {Was[i * Sector].name : i \in headers(Was)}
      PROVE  /\ c \in DirCells(b, DirAt) /\ b[c].name = Was[c].name
             /\ (DirAt + b[c].start - 1) * Sector \in DOMAIN b
             /\ b[(DirAt + b[c].start - 1) * Sector].name = Was[c].name
  <2>1. c \in 1 .. C - 1
    <3>1. c \in 0 .. C - 1 /\ c # 0
      BY <1>1
    <3> QED
      BY ONLY <1>1, <3>1
  <2>2. Was[c].name \notin Specials
    <3>1. PICK i \in headers(Was) : Was[c].name = Was[i * Sector].name
      BY <1>7
    <3>2. Was[i * Sector].name \notin Specials \cup Range(Typeable)
      BY BlankIs
    <3> QED
      BY <3>1, <3>2
  <2>3. c \notin C - 3 .. C - 1
    BY ONLY <1>2, <2>2 DEF AllOK
  <2>4. c \in 1 .. C - 4 /\ c \in 0 .. C + N - 1
    BY ONLY <1>1, <2>1, <2>3
  <2>5. b[c] = Was[c]
    <3>1. Filed(Was, k, b, P, C)
      BY DEF Grown
    <3> QED
      BY ONLY <2>4, <3>1 DEF Filed
  <2>6. c \in DirCells(b, DirAt)
    BY <1>1, <2>4
  <2>7. PICK p : p = DirAt + Was[c].start - 1
    OBVIOUS
  <2>8. p \in headers(Was) /\ \A x \in Cells(Was, p) : b[x] = Was[x]
    BY <1>5, <2>1, <2>2, <2>7
  <2>9. p * Sector \in DOMAIN Was /\ Was[p * Sector].name = Was[c].name
    BY <1>7, <2>7, EntryLeads
  <2>10. p * Sector \in Cells(Was, p)
    BY <1>2, <2>8, HeaderIs DEF HeaderOK
  <2>11. b[p * Sector] = Was[p * Sector]
    BY <2>8, <2>10
  <2> QED
    BY <1>1, <2>5, <2>6, <2>7, <2>9, <2>11
<1>8. AllLead(b, DirAt, FALSE, {})
  BY <1>6 DEF AllLead
<1>9. IndexKept(Was, b, DirAt, FALSE)
  BY <1>7 DEF IndexKept
<1> QED
  BY <1>4, <1>8, <1>9

LEMMA AllresOsgStep ==
  ASSUME SurgeryInv, AllresOsg
  PROVE  SurgeryInv'
<1>1. PICK k, C : k = shelf["K02743"].data /\ C = Was[0].start
  OBVIOUS
<1>2. /\ DirAt = 0 /\ DirRoom = DirSectors /\ AllOK(shelf["ALL"]) /\ Was = shelf["ALL"].data
      /\ \A i \in 1 .. Len(OSG) :
           /\ k[OSG[i].at * Sector].name = OSG[i].name
           /\ \A c \in DirCells(Was, 0) : Was[c].name # OSG[i].name
      /\ \E b, P : Edits(<<"allres_osg">>, "ALL", b) /\ Filed(Was, k, b, P, Was[0].start)
  BY <1>1, OsgMakes
<1>3. PICK b, P : Edits(<<"allres_osg">>, "ALL", b) /\ Filed(Was, k, b, P, C)
  BY <1>1, <1>2
<1>4. shelf \in Shelves /\ disk \in DOMAIN shelf
  BY DEF SurgeryInv
<1>5. Laid(Was, 0, DirSectors)
  BY <1>2, <1>4, WasIs
<1>6. Grown(Was, k, b, P, C)
  BY <1>1, <1>2, <1>3, <1>4, <1>5 DEF Grown
<1>7. PICK N, D, M : Sizes(Was, b, P, C, N, D, M)
  BY <1>6, SizesIs
<1>8. Laid(b, DirAt, DirRoom) /\ DOMAIN b = DOMAIN Was
  <2>1. Laid(b, 0, DirSectors)
    BY <1>6, <1>7, GrownLaid
  <2> QED
    BY <1>2, <1>7, <2>1 DEF Sizes
<1>9. /\ AllAlone(b, DirAt, DirRoom)
      /\ AllLead(b, DirAt, FALSE, {}) /\ IndexKept(Was, b, DirAt, FALSE)
  <2>1. DirAt = 0 /\ DirRoom = DirSectors
    BY <1>2
  <2> QED
    BY ONLY <1>4, <1>6, <1>7, <2>1, OsgGood
<1>10. PICK name, fmd, swapped :
         /\ name = <<"allres_osg">> /\ fmd = (name[1] \in {"fmd_patc", "fmd_allres"})
         /\ swapped = (IF name[1] = "ffr" THEN {s.name : s \in name[2]} ELSE {})
  OBVIOUS
<1>11. name[1] = "allres_osg" /\ name[1] \notin {"none", "containers"}
  BY ONLY <1>10
<1>12. fmd = FALSE
  <2>1. name[1] = "allres_osg"
    BY <1>11
  <2>2. (name[1] \in {"fmd_patc", "fmd_allres"}) = FALSE
    BY ONLY <2>1
  <2> QED
    BY ONLY <1>10, <2>2
<1>13. swapped = {}
  BY ONLY <1>10, <1>11
<1>14. AllAlone(b, DirAt, DirRoom) /\ AllLead(b, DirAt, fmd, swapped) /\ IndexKept(Was, b, DirAt, fmd)
  BY ONLY <1>9, <1>12, <1>13
<1>15. UNCHANGED <<shelf, disk>> /\ script' = <<"allres_osg">> /\ script'[1] = "allres_osg"
  BY <1>3 DEF Edits
<1>16. PICK replaced : replaced = Replaces'
  OBVIOUS
<1>17. ModulesKept(b)'
  <2>1. \A i \in headers(Was) : Was[i * Sector].name \notin replaced => \A c \in Cells(Was, i) : b[c] = Was[c]
    BY <1>6, <1>7, GrownModule
  <2>2. UNCHANGED <<shelf, disk>> /\ script'[1] # "ffr"
    BY <1>15
  <2> QED
    BY ONLY <1>16, <2>1, <2>2, ModulesAgain
<1>18. Edits(name, "ALL", b) /\ SurgeryInv
  BY <1>3, <1>10
<1> QED
  BY ONLY <1>8, <1>10, <1>11, <1>14, <1>17, <1>18, EditStep

LEMMA StayInv ==
  ASSUME SurgeryInv, UNCHANGED surgery
  PROVE  SurgeryInv'
<1>1. PICK b : Made(b)
  BY DEF SurgeryInv
<1>2. shelf' = shelf /\ disk' = disk /\ image' = image /\ script' = script /\ renamed' = renamed
  BY DEF surgery
<1>3. Was' = Was /\ DirAt' = DirAt /\ DirRoom' = DirRoom /\ Original' = Original
  BY <1>2, SameOriginal
<1>4. Fmd' = Fmd /\ Swapped' = Swapped /\ Replaces' = Replaces
  BY <1>2 DEF Fmd, Swapped, Replaces
<1>5. \A i, x : SubKept(b, i, x) <=> SubKept(b, i, x)'
  BY ONLY <1>2, <1>3 DEF SubKept
<1>6. ModulesKept(b)'
  BY ONLY <1>1, <1>2, <1>3, <1>4, <1>5 DEF Made, Good, ModulesKept
<1>7. Good(b)'
  BY ONLY <1>1, <1>2, <1>3, <1>4, <1>6 DEF Made, Good
<1>8. NamesOK(b, DirAt', renamed') /\ image'.data = Relabelled(b, renamed')
  BY <1>1, <1>2, <1>3 DEF Made
<1>9. Made(b)'
  BY ONLY <1>7, <1>8 DEF Made
<1>10. SlotsMade'
  <2>1. SlotsMade
    BY DEF SurgeryInv
  <2> QED
    BY ONLY <1>2, <1>3, <2>1 DEF SlotsMade
<1>11. /\ shelf' \in Shelves /\ disk' \in DOMAIN shelf'
       /\ image' = [data |-> image'.data, pointer |-> Original'.pointer, dir |-> DirAt', slots |-> image'.slots]
  BY <1>2, <1>3 DEF SurgeryInv
<1> QED
  BY ONLY <1>9, <1>10, <1>11 DEF SurgeryInv

LEMMA NextInv == SurgeryInv /\ [SurgeryNext]_surgery => SurgeryInv'
<1> SUFFICES ASSUME SurgeryInv, [SurgeryNext]_surgery
             PROVE  SurgeryInv'
  OBVIOUS
<1>1. CASE AllresOsg
  BY <1>1, AllresOsgStep
<1>2. CASE K02743Patc
  BY <1>2, PatcStep
<1>3. CASE K02743Allres
  BY <1>3, AllresFmdStep
<1>4. CASE Oslem7Kyb
  BY <1>4, KybStep
<1>5. ASSUME NEW rts, NEW ini, Oslem7Containers(rts, ini)
      PROVE  SurgeryInv'
  BY <1>5, ContainersStep
<1>6. ASSUME NEW subs \in SubLists, Oslem7Ffr(subs)
      PROVE  SurgeryInv'
  BY <1>6, FfrStep
<1>7. ASSUME NEW names \in SUBSET DOMAIN Typeable, AliasPound(names)
      PROVE  SurgeryInv'
  BY <1>7, AliasStep
<1>8. CASE UNCHANGED surgery
  BY <1>8, StayInv
<1> QED
  BY <1>1, <1>2, <1>3, <1>4, <1>5, <1>6, <1>7, <1>8 DEF SurgeryNext

\* Whatever scripts are run on whatever originals of their kind, on which the module
\* 0FMU of K02743 lies behind the sectors that are written back, and whatever is
\* renamed in between, the image is what one script makes of its original, with some entries
\* renamed that nobody else is called like.
THEOREM SurgeryInvariant == SurgerySpec => []SurgeryInv
<1>1. SurgeryInit => SurgeryInv
  BY InitInv
<1>2. SurgeryInv /\ [SurgeryNext]_surgery => SurgeryInv'
  BY NextInv
<1> QED
  BY <1>1, <1>2, PTL DEF SurgerySpec

\* After every script the directory is true: an entry leads to a module of its
\* name and length that lies on the disk, and no module overlaps the next.
THEOREM DirectoryTrue == SurgerySpec => []LibraryHolds
<1>1. SurgeryInv => LibraryHolds
  BY LibraryFromInv
<1> QED
  BY <1>1, SurgeryInvariant, PTL

\* No script damages a module that it was not to replace, and in a container the
\* sub-modules that were asked for, and no others, are those of K02743.
THEOREM OthersUntouched == SurgerySpec => []OnlyTheWanted
<1>1. SurgeryInv => OnlyTheWanted
  BY WantedFromInv
<1> QED
  BY <1>1, SurgeryInvariant, PTL

\* The boot descriptor that build_oslem7_containers.py writes leads l1lib.py to the
\* containers that it was made for.
THEOREM DescriptorTrue == SurgerySpec => []SlotsLead
<1>1. SurgeryInv => SlotsLead
  BY SlotsFromInv
<1> QED
  BY <1>1, SurgeryInvariant, PTL

\* The directory is found where it was as long as enough of its entries lead to
\* their names, and nothing else is ever taken for it.
THEOREM DirectoryStaysFound == SurgerySpec => []DirectoryFound
<1>1. SurgeryInv => DirectoryFound
  BY FoundFromInv
<1> QED
  BY <1>1, SurgeryInvariant, PTL

==============================================================================
