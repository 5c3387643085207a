\* Taps with modifiers, text and disk changes, close and apart, cold and resumed,
\* and the commands and gaps of mksteps.py.
SPECIFICATION Spec
CONSTANTS
  Runs <- MCRuns
  Commands <- MCCommands
  Schedules <- MCSchedules
  CharTime = 2
  Horizon = 420
INVARIANTS
  TypeOK
  TypedAsWanted
  OnlyTapsOvertake
  NoKeyStuck
\* The run ends.
CHECK_DEADLOCK FALSE
