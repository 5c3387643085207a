\* step.sh: one run at a time, of stages with two disks; hdrun.sh: two terminals
\* at once.  One run may be killed.
SPECIFICATION StageSpec
CONSTANTS
  Jobs = {j1, j2}
  Stages = {a, b}
  Scripts = {"step.sh", "hdrun.sh"}
  Disks = {hd, fd}
  HardDisk = hd
  None = None
  Absent = Absent
  MaxRuns = 3
  MaxWrites = 2
  MaxKills = 1
INVARIANTS
  QuietStageResumes
  MachineKnowsDisks
  SnapshotNotOlder
  OneRunPerSnapshot
\* All runs may have been made.
CHECK_DEADLOCK FALSE
