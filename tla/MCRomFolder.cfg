\* Three scripts, each started once or twice, up to two killed.
SPECIFICATION FairSpec
CONSTANTS
  Scripts = {s1, s2, s3}
  NRoms = 2
  MaxRuns = 2
  MaxKills = 2
  Free = Free
  Orphan = Orphan
INVARIANTS
  TypeOK
  OneBuilder
  BrokenOnlyUnderLock
  UserHasSetOrRebuild
PROPERTIES
  LockSpec
  EveryScriptServed
\* All scripts may have ended, or wait for an orphaned lock.
CHECK_DEADLOCK FALSE
