----------------------------- MODULE InstallStage -----------------------------
(***************************************************************************)
(* Checkpointed MAME runs: scripts/mos-install/step.sh and hdrun.sh with    *)
(* the save hook of scripts/harness/run_savestate.lua.  A run of a stage    *)
(* takes its disks from the checkpoint store (or starts cold), lets the     *)
(* emulated machine run on work copies, saves the machine state one second  *)
(* before the end, and puts the work copies into the store when MAME has    *)
(* ended.  A later run resumes from a stage's state and disks.              *)
(*                                                                          *)
(* A disk is known by its last write, numbered over all disks; 0 is the     *)
(* image a cold start copies.  The machine remembers the disks as it left   *)
(* them (mem), and a saved state is that memory.                            *)
(***************************************************************************)
EXTENDS Naturals

CONSTANTS
  Jobs,        \* terminals that start runs
  Stages,      \* the stage names
  Scripts,     \* "step.sh", "hdrun.sh"
  Disks,       \* the image files of a run of step.sh
  HardDisk,    \* the one of hdrun.sh
  None,        \* no stage to start from, no saved state
  Absent,      \* no such file
  MaxRuns,     \* bound: runs started
  MaxWrites,   \* bound: disk writes of the machine
  MaxKills     \* bound: runs that end early

ASSUME ScriptsAre == Scripts \subseteq {"step.sh", "hdrun.sh"}
ASSUME LimitsAreNat == MaxRuns \in Nat /\ MaxWrites \in Nat /\ MaxKills \in Nat
ASSUME StagesExist == Stages # {} /\ None \notin Stages
ASSUME DisksExist ==
  /\ HardDisk \in Disks
  /\ Absent \notin Nat /\ Absent \notin [disk : Nat \cup {Absent}, run : Nat]
  /\ None \notin [Disks -> Nat \cup {Absent}]

VARIABLES
  script,   \* the script whose store and work folders these are
  pc,       \* "off", "load", "run", "saved" (state saved), "clear", "copy"
  stage,    \* NAME of the run
  from,     \* FROM, or None
  todo,     \* the files its cp still has to copy
  mem,      \* the disks as the machine in the run knows them
  work,     \* the work folders
  state,    \* the saved states of the store
  snap,     \* the disks of the store, with the run that put them there
  writes,   \* disk writes so far
  begun,    \* runs started
  number,   \* the number of the run of each job
  kills,    \* runs that ended early
  late      \* for the properties: stages whose machine wrote a disk after its
            \* state was saved, and those resumed from such a stage

stageVars == <<script, pc, stage, from, todo, mem, work, state, snap, writes, begun, number,
               kills, late>>

Files == Nat \cup {Absent}
Copies == [disk : Files, run : Nat]

\* step.sh has one work folder for all runs, hdrun.sh one per stage name.
Shared == script = "step.sh"

Places == {None} \cup Stages

Place(j) == IF Shared THEN None ELSE stage[j]

Images == IF Shared THEN Disks ELSE {HardDisk}

NoFiles == [d \in Disks |-> Absent]

Present(folder) == {d \in Disks : folder[d] # Absent}

Goto(j, old, new) ==
  /\ pc[j] = old
  /\ pc' = [pc EXCEPT ![j] = new]

\* Which disk, without the run that copied it.
DiskOf(file) == IF file = Absent THEN Absent ELSE file.disk

SnapOf(s) == [d \in Disks |-> DiskOf(snap[s][d])]

------------------------------------------------------------------------------

StageInit ==
  /\ script \in Scripts
  /\ pc = [j \in Jobs |-> "off"]
  /\ stage = [j \in Jobs |-> CHOOSE s \in Stages : TRUE]
  /\ from = [j \in Jobs |-> None]
  /\ todo = [j \in Jobs |-> {}]
  /\ mem = [j \in Jobs |-> NoFiles]
  /\ work = [p \in Places |-> NoFiles]
  /\ state = [s \in Stages |-> None]
  /\ snap = [s \in Stages |-> NoFiles]
  /\ writes = 0 /\ begun = 0 /\ kills = 0
  /\ number = [j \in Jobs |-> 0]
  /\ late = {}

\* Nothing in the scripts keeps two runs apart.  The user does: no two runs
\* share a work folder, and no run reads or rewrites a stage another one uses.
Apart(j, s, f) ==
  \A k \in Jobs \ {j} : pc[k] # "off" =>
    /\ ~Shared
    /\ s \notin {stage[k], from[k]}
    /\ f # stage[k]

\* step.sh NAME [FROM]; hdrun.sh NAME [FROM] begins with rm -rf of its folder
Begin(j, s, f) ==
  /\ pc[j] = "off" /\ begun < MaxRuns
  /\ Apart(j, s, f)
  /\ f # None => state[f] # None
  /\ stage' = [stage EXCEPT ![j] = s]
  /\ from' = [from EXCEPT ![j] = f]
  /\ begun' = begun + 1
  /\ number' = [number EXCEPT ![j] = begun + 1]
  /\ work' = IF Shared THEN work ELSE [work EXCEPT ![s] = NoFiles]
  /\ LET wanted == IF f = None THEN Images ELSE Present(snap[f])
     IN  \* cp without a source file fails and set -e ends the script
         IF wanted = {} THEN UNCHANGED <<pc, todo>>
         ELSE /\ pc' = [pc EXCEPT ![j] = "load"]
              /\ todo' = [todo EXCEPT ![j] = wanted]
  /\ UNCHANGED <<script, mem, state, snap, writes, kills, late>>

\* Mutant of Load: the work folder keeps the disks it has.
LoadNothing(j, d) ==
  /\ pc[j] = "load" /\ d \in todo[j]
  /\ todo' = [todo EXCEPT ![j] = @ \ {d}]
  /\ UNCHANGED <<script, pc, stage, from, mem, work, state, snap, writes, begun, number,
                 kills, late>>

\* cp -c clones one file
Load(j, d) ==
  /\ pc[j] = "load" /\ d \in todo[j]
  /\ from[j] # None => snap[from[j]][d] # Absent
  /\ todo' = [todo EXCEPT ![j] = @ \ {d}]
  /\ work' = [work EXCEPT ![Place(j)][d] =
                IF from[j] = None THEN 0 ELSE snap[from[j]][d].disk]
  /\ UNCHANGED <<script, pc, stage, from, mem, state, snap, writes, begun, number, kills,
                 late>>

\* MAME starts, cold or with -state FROM.
Boot(j) ==
  /\ todo[j] = {}
  /\ Goto(j, "load", "run")
  /\ mem' = [mem EXCEPT ![j] =
               IF from[j] = None THEN work[Place(j)] ELSE state[from[j]]]
  /\ UNCHANGED <<script, stage, from, todo, work, state, snap, writes, begun, number,
                 kills, late>>

\* Mutant of Write: without chmod u+w the writes do not reach the work disk.
WriteElsewhere(j, d) ==
  /\ pc[j] \in {"run", "saved"}
  /\ writes < MaxWrites
  /\ writes' = writes + 1
  /\ mem' = [mem EXCEPT ![j][d] = writes + 1]
  /\ late' = IF pc[j] = "saved" THEN late \cup {stage[j]} ELSE late
  /\ UNCHANGED <<script, pc, stage, from, todo, work, state, snap, begun, number, kills>>

\* The machine writes a disk, in the work folder directly.
Write(j, d) ==
  /\ pc[j] \in {"run", "saved"}
  /\ writes < MaxWrites
  /\ writes' = writes + 1
  /\ work' = [work EXCEPT ![Place(j)][d] = writes + 1]
  /\ mem' = [mem EXCEPT ![j][d] = writes + 1]
  /\ late' = IF pc[j] = "saved" THEN late \cup {stage[j]} ELSE late
  /\ UNCHANGED <<script, pc, stage, from, todo, state, snap, begun, number, kills>>

\* run_savestate.lua at SAVE_T = UNTIL - 1, straight into the store
Save(j) ==
  /\ Goto(j, "run", "saved")
  /\ state' = [state EXCEPT ![stage[j]] = mem[j]]
  /\ late' = IF from[j] \in late THEN late \cup {stage[j]} ELSE late \ {stage[j]}
  /\ UNCHANGED <<script, stage, from, todo, mem, work, snap, writes, begun, number, kills>>

\* MAME ends at UNTIL.  step.sh removes the old snapshot, hdrun.sh does not.
Exit(j) ==
  /\ pc[j] = "saved"
  /\ IF Shared
     THEN /\ pc' = [pc EXCEPT ![j] = "clear"]
          /\ todo' = todo
     ELSE /\ pc' = [pc EXCEPT ![j] = "copy"]
          /\ todo' = [todo EXCEPT ![j] = Present(work[Place(j)])]
  /\ UNCHANGED <<script, stage, from, mem, work, state, snap, writes, begun, number, kills,
                 late>>

\* Mutant of Clear: only the mkdir, the old files stay.
ClearNothing(j) ==
  /\ Goto(j, "clear", "copy")
  /\ todo' = [todo EXCEPT ![j] = Present(work[Place(j)])]
  /\ UNCHANGED <<script, stage, from, mem, work, state, snap, writes, begun, number, kills,
                 late>>

\* rm -rf "$D/snap/$name", file by file, and mkdir
Clear(j) ==
  /\ pc[j] = "clear"
  /\ \/ \E d \in Present(snap[stage[j]]) :
          /\ snap' = [snap EXCEPT ![stage[j]][d] = Absent]
          /\ UNCHANGED <<pc, todo>>
     \/ /\ Present(snap[stage[j]]) = {}
        /\ pc' = [pc EXCEPT ![j] = "copy"]
        /\ todo' = [todo EXCEPT ![j] = Present(work[Place(j)])]
        /\ snap' = snap
  /\ UNCHANGED <<script, stage, from, mem, work, state, writes, begun, number, kills,
                 late>>

\* cp -c of one work disk into the store
Copy(j, d) ==
  /\ pc[j] = "copy" /\ d \in todo[j]
  /\ todo' = [todo EXCEPT ![j] = @ \ {d}]
  /\ snap' = [snap EXCEPT ![stage[j]][d] =
                [disk |-> work[Place(j)][d], run |-> number[j]]]
  /\ UNCHANGED <<script, pc, stage, from, mem, work, state, writes, begun, number, kills,
                 late>>

End(j) ==
  /\ todo[j] = {}
  /\ Goto(j, "copy", "off")
  /\ UNCHANGED <<script, stage, from, todo, mem, work, state, snap, writes, begun, number,
                 kills, late>>

\* MAME fails, or the user stops the script: set -e leaves all as it is.
Kill(j) ==
  /\ pc[j] # "off" /\ kills < MaxKills
  /\ kills' = kills + 1
  /\ pc' = [pc EXCEPT ![j] = "off"]
  /\ todo' = [todo EXCEPT ![j] = {}]
  /\ UNCHANGED <<script, stage, from, mem, work, state, snap, writes, begun, number, late>>

StageNext ==
  \E j \in Jobs :
    \/ \E s \in Stages, f \in Stages \cup {None} : Begin(j, s, f)
    \/ \E d \in Images : Load(j, d) \/ Write(j, d) \/ Copy(j, d)
    \/ Boot(j) \/ Save(j) \/ Exit(j) \/ Clear(j) \/ End(j) \/ Kill(j)

StageSpec == StageInit /\ [][StageNext]_stageVars

------------------------------------------------------------------------------

\* Every variable has its type.
TypeOK ==
  /\ script \in Scripts
  /\ pc \in [Jobs -> {"off", "load", "run", "saved", "clear", "copy"}]
  /\ stage \in [Jobs -> Stages]
  /\ from \in [Jobs -> Stages \cup {None}]
  /\ todo \in [Jobs -> SUBSET Disks]
  /\ mem \in [Jobs -> [Disks -> Files]]
  /\ work \in [Places -> [Disks -> Files]]
  /\ state \in [Stages -> [Disks -> Files] \cup {None}]
  /\ snap \in [Stages -> [Disks -> Copies \cup {Absent}]]
  /\ writes \in 0 .. MaxWrites /\ begun \in 0 .. MaxRuns
  /\ kills \in 0 .. MaxKills
  /\ number \in [Jobs -> 0 .. MaxRuns]
  /\ late \subseteq Stages

\* No run is under way that saves stage s.
Settled(s) == \A j \in Jobs : pc[j] # "off" => stage[j] # s

\* The disks of the store are those the saved machine remembers.
Resumable(s) == SnapOf(s) = state[s]

\* "snapshot the disk images at each stage, so any stage can be resumed"
\* (DEBUGGING_STRATEGY.md:42-43).  The disks are copied a second of machine time
\* after the state was saved, so not any: without killed runs a saved stage can be
\* resumed when neither its machine nor the one it was resumed from wrote in its
\* last second, whatever other stages ran before, after and, with hdrun.sh, beside
\* it.
QuietStageResumes ==
  kills = 0 =>
    \A s \in Stages \ late : state[s] # None /\ Settled(s) => Resumable(s)

\* A machine that is running works on the disks it remembers, as long as it was
\* not resumed from a stage that wrote in its last second: what it last wrote,
\* or was saved with, is what is in its work folder.
MachineKnowsDisks ==
  kills = 0 =>
    \A j \in Jobs : pc[j] = "run" /\ from[j] \notin late =>
      work[Place(j)] = mem[j]

\* Without killed runs the disks of a stage are complete and never older than
\* its state, even if the machine writes to the end: what it remembers having
\* written is there.
SnapshotNotOlder ==
  kills = 0 =>
    \A s \in Stages : state[s] # None /\ Settled(s) =>
      \A d \in Images : snap[s][d] # Absent /\ snap[s][d].disk >= state[s][d]

\* The disks of a stage all come from one run, even when runs are killed while
\* they copy: rm -rf comes first, so a file may be missing but not be left over.
OneRunPerSnapshot ==
  \A s \in Stages : \A d, e \in Present(snap[s]) : snap[s][d].run = snap[s][e].run
==============================================================================
