CONSTANTS
  Runs = {r1, r2}
  Diagnostics <- MCDisks
  Begins <- MCBegins
  Number <- MCNumber
  Calls <- MCCalls
  PerCylinder = 52
  Track0 = 13
  Block = 256
  PerSector = 256
  BootTime = 60
  LoadTime = 40
  MaxClock = 1
SPECIFICATION Spec
INVARIANTS
  RunsKeepApart
  TestIsRun
  OneProgram
CHECK_DEADLOCK FALSE
