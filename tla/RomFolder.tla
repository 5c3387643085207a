------------------------------ MODULE RomFolder ------------------------------
(***************************************************************************)
(* m40_build_roms of scripts/m40env.sh: the scripts of the harness share a  *)
(* MAME ROM folder under runs/.  The first that misses its .done marker     *)
(* takes a lock directory, rebuilds the folder and leaves the marker; the   *)
(* others poll for the marker.  Each shell command is a step of its own, so *)
(* the steps of different scripts interleave anywhere between two commands; *)
(* rm and cp, which touch several files, are several steps.                 *)
(***************************************************************************)
EXTENDS Naturals

CONSTANTS
  Scripts,    \* the scripts that source m40env.sh
  NRoms,      \* how many ROM images the folder holds, copied in order
  MaxRuns,    \* bound: how often one script is started
  MaxKills,   \* bound: how many runs are killed or stopped by a failing cp
  Free,       \* for the view as an owned lock (RomLock): nobody owns it,
  Orphan      \* or its owner ended without giving it back

ASSUME ScriptsNonempty == Scripts # {}
ASSUME BoundsAreNat == /\ NRoms \in Nat \ {0}
                       /\ MaxRuns \in Nat
                       /\ MaxKills \in Nat
ASSUME OwnersDistinct == /\ Free \notin Scripts
                         /\ Orphan \notin Scripts
                         /\ Free # Orphan

VARIABLES
  pc,      \* the command a script is about to run ("off": not running)
  next,    \* the next image its cp commands write
  rom,     \* what a reader finds under each image name
  done,    \* the .done marker exists
  lock,    \* the lock directory exists
  runs,    \* how often each script has been started
  kills    \* how many runs ended early

vars == <<pc, next, rom, done, lock, runs, kills>>

Roms == 1 .. NRoms

Building == {"clear", "copy", "unlock"}   \* between mkdir and rmdir of the lock

Labels == {"off", "test", "lock", "wait", "use"} \cup Building

Complete == \A k \in Roms : rom[k] = "whole"

Empty == \A k \in Roms : rom[k] = "absent"

Goto(s, from, to) ==
  /\ pc[s] = from
  /\ pc' = [pc EXCEPT ![s] = to]

------------------------------------------------------------------------------

\* The folder does not exist yet, or an earlier run built it.
Init ==
  /\ pc = [s \in Scripts |-> "off"]
  /\ next = [s \in Scripts |-> 1]
  /\ done \in BOOLEAN
  /\ rom = [k \in Roms |-> IF done THEN "whole" ELSE "absent"]
  /\ lock = FALSE
  /\ runs = [s \in Scripts |-> 0]
  /\ kills = 0

Start(s) ==
  /\ Goto(s, "off", "test")
  /\ runs[s] < MaxRuns
  /\ runs' = [runs EXCEPT ![s] = @ + 1]
  /\ UNCHANGED <<next, rom, done, lock, kills>>

\* Mutant of MarkerFound: the marker test is left out.
MarkerNotTested(s) ==
  /\ Goto(s, "test", "use")
  /\ UNCHANGED <<next, rom, done, lock, runs, kills>>

\* [ -f "$1/.done" ] && return
MarkerFound(s) ==
  /\ done
  /\ Goto(s, "test", "use")
  /\ UNCHANGED <<next, rom, done, lock, runs, kills>>

MarkerMissing(s) ==
  /\ ~done
  /\ Goto(s, "test", "lock")
  /\ UNCHANGED <<next, rom, done, lock, runs, kills>>

\* Mutant of TakeLock: mkdir -p, which also succeeds on an existing directory.
TakeLockAnyway(s) ==
  /\ Goto(s, "lock", "clear")
  /\ lock' = TRUE
  /\ UNCHANGED <<next, rom, done, runs, kills>>

\* mkdir "$1.lock" succeeds for one script only
TakeLock(s) ==
  /\ ~lock
  /\ Goto(s, "lock", "clear")
  /\ lock' = TRUE
  /\ UNCHANGED <<next, rom, done, runs, kills>>

LockIsTaken(s) ==
  /\ lock
  /\ Goto(s, "lock", "wait")
  /\ UNCHANGED <<next, rom, done, lock, runs, kills>>

\* rm -rf "$1" unlinks the entries one after the other, in directory order
ClearEntry(s) ==
  /\ pc[s] = "clear"
  /\ \/ /\ done
        /\ done' = FALSE
        /\ rom' = rom
     \/ \E k \in Roms :
          /\ rom[k] # "absent"
          /\ rom' = [rom EXCEPT ![k] = "absent"]
          /\ done' = done
  /\ UNCHANGED <<pc, next, lock, runs, kills>>

ClearDone(s) ==
  /\ ~done /\ Empty
  /\ Goto(s, "clear", "copy")
  /\ next' = [next EXCEPT ![s] = 1]
  /\ UNCHANGED <<rom, done, lock, runs, kills>>

\* cp creates the name first and fills the file afterwards
CopyBegin(s) ==
  /\ pc[s] = "copy"
  /\ next[s] \in Roms
  /\ rom[next[s]] # "partial"
  /\ rom' = [rom EXCEPT ![next[s]] = "partial"]
  /\ UNCHANGED <<pc, next, done, lock, runs, kills>>

\* Mutant of CopyEnd: one image more is copied than there are.
CopyOneMore(s) ==
  /\ pc[s] = "copy"
  /\ \/ next[s] \in Roms /\ rom[next[s]] = "partial"
     \/ next[s] = NRoms + 1
  /\ rom' = [k \in Roms |-> IF k = next[s] THEN "whole" ELSE rom[k]]
  /\ next' = [next EXCEPT ![s] = @ + 1]
  /\ UNCHANGED <<pc, done, lock, runs, kills>>

CopyEnd(s) ==
  /\ pc[s] = "copy"
  /\ next[s] \in Roms
  /\ rom[next[s]] = "partial"
  /\ rom' = [rom EXCEPT ![next[s]] = "whole"]
  /\ next' = [next EXCEPT ![s] = @ + 1]
  /\ UNCHANGED <<pc, done, lock, runs, kills>>

\* Mutant of Mark: the marker is never touched.
MarkForgotten(s) ==
  /\ next[s] = NRoms + 1
  /\ Goto(s, "copy", "unlock")
  /\ UNCHANGED <<next, rom, done, lock, runs, kills>>

\* touch "$1/.done"
Mark(s) ==
  /\ next[s] = NRoms + 1
  /\ Goto(s, "copy", "unlock")
  /\ done' = TRUE
  /\ UNCHANGED <<next, rom, lock, runs, kills>>

\* rmdir "$1.lock"
Unlock(s) ==
  /\ lock
  /\ Goto(s, "unlock", "use")
  /\ lock' = FALSE
  /\ UNCHANGED <<next, rom, done, runs, kills>>

\* while [ ! -f "$1/.done" ]; do sleep 1; done
WaitOver(s) ==
  /\ done
  /\ Goto(s, "wait", "use")
  /\ UNCHANGED <<next, rom, done, lock, runs, kills>>

\* the script has run MAME on the folder and ends
Finish(s) ==
  /\ Goto(s, "use", "off")
  /\ UNCHANGED <<next, rom, done, lock, runs, kills>>

\* Mutant of Kill: a trap removes the lock, and leaves the files as they are.
KillWithTrap(s) ==
  /\ kills < MaxKills
  /\ pc[s] # "off"
  /\ pc' = [pc EXCEPT ![s] = "off"]
  /\ lock' = (lock /\ pc[s] \notin Building)
  /\ kills' = kills + 1
  /\ UNCHANGED <<next, rom, done, runs>>

\* An interrupt, or a cp that fails under `set -eu`, ends the run where it is:
\* no trap removes the lock or the files.
Kill(s) ==
  /\ kills < MaxKills
  /\ pc[s] # "off"
  /\ pc' = [pc EXCEPT ![s] = "off"]
  /\ kills' = kills + 1
  /\ UNCHANGED <<next, rom, done, lock, runs>>

Build(s) ==
  \/ TakeLock(s)  \/ ClearEntry(s) \/ ClearDone(s)
  \/ CopyBegin(s) \/ CopyEnd(s)    \/ Mark(s) \/ Unlock(s)

Run(s) ==
  \/ MarkerFound(s) \/ MarkerMissing(s) \/ LockIsTaken(s)
  \/ WaitOver(s) \/ Finish(s) \/ Build(s)

Next == \E s \in Scripts : Start(s) \/ Run(s) \/ Kill(s)

Spec == Init /\ [][Next]_vars

\* The operating system keeps scheduling a running script; nothing makes
\* anybody start or kill one.
FairSpec == Spec /\ \A s \in Scripts : WF_vars(Run(s))

------------------------------------------------------------------------------

\* Every variable has its type.
TypeOK ==
  /\ pc \in [Scripts -> Labels]
  /\ next \in [Scripts -> 1 .. NRoms + 1]
  /\ rom \in [Roms -> {"absent", "partial", "whole"}]
  /\ done \in BOOLEAN
  /\ lock \in BOOLEAN
  /\ runs \in [Scripts -> 0 .. MaxRuns]
  /\ kills \in 0 .. MaxKills

\* "One script builds the folder (mkdir is the lock)", m40env.sh:19: never two
\* scripts between mkdir and rmdir of the lock, and the lock is there while
\* one is.
OneBuilder ==
  \A s \in Scripts : pc[s] \in Building =>
    /\ lock
    /\ \A t \in Scripts : pc[t] \in Building => t = s

\* The folder is in a broken state only while the lock directory exists: with
\* no lock it is either complete and marked, or holds nothing.  This survives
\* killed builders, because they leave the lock behind.
BrokenOnlyUnderLock ==
  ~lock => \/ done /\ Complete
           \/ ~done /\ Empty

\* A script that uses the folder has the complete set, or somebody is (or was,
\* when killed) rebuilding it under the lock.
UserHasSetOrRebuild ==
  \A s \in Scripts : pc[s] = "use" => \/ done /\ Complete
                                      \/ lock

\* "scripts started at the same time wait for its .done marker instead of
\* using a half-copied set", m40env.sh:19-20.  A script that tested the marker
\* before a build ended can take the lock after it and rebuild the folder
\* under the scripts that already use it, so this does not hold.
NoHalfCopiedUse ==
  \A s \in Scripts : pc[s] = "use" => Complete

\* As long as no run is killed, every script that is started gets the folder.
EveryScriptServed ==
  \A s \in Scripts : pc[s] = "test" ~> (pc[s] = "use" \/ kills > 0)

------------------------------------------------------------------------------

\* The lock directory implements an owned lock whose owner may be lost.
Owner ==
  IF ~lock THEN Free
  ELSE IF \E s \in Scripts : pc[s] \in Building
       THEN CHOOSE s \in Scripts : pc[s] \in Building
       ELSE Orphan

Lock == INSTANCE RomLock WITH owner <- Owner

\* Every step of the scripts is a step of the owned lock, or none: the lock
\* passes from owner to owner only through Free, and an orphaned lock is never
\* given back (m40env.sh:23-29 has no other rmdir).
LockSpec == Lock!Spec
==============================================================================
