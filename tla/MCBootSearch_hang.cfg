\* One drive; the count starts at 7, as in the ROM.
SPECIFICATION FairSpec
CONSTANTS
  Machines <- MCDrive
  UnitMedia <- MCDisks
  DriveMedia <- MCDisks
  NoMedium = NoMedium
  Faults = {}
  Tries = 7
  MaxChanges = 1
PROPERTIES
  BootSucceeds
\* The search is over when it has booted or hung.
CHECK_DEADLOCK FALSE
