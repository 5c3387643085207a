\* Two scripts are enough for one to rebuild the folder under the other.
SPECIFICATION Spec
CONSTANTS
  Scripts = {s1, s2, s3}
  NRoms = 2
  MaxRuns = 1
  MaxKills = 0
  Free = Free
  Orphan = Orphan
INVARIANT NoHalfCopiedUse
\* All scripts may have ended, or wait for an orphaned lock.
CHECK_DEADLOCK FALSE
