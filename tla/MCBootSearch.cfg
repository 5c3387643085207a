\* Six machines with two boards each, every medium, one change while it runs.
SPECIFICATION FairSpec
CONSTANTS
  Machines <- MCMachines
  UnitMedia <- MCUnitMedia
  DriveMedia <- MCDriveMedia
  NoMedium = NoMedium
  Faults = {{0}}
  Tries = 2
  MaxChanges = 1
INVARIANTS
  FirstInOrder
  StartsWhatItNames
PROPERTIES
  CodeNamesBoard
  ErrorStays
  SearchEnds
\* The search is over when it has booted or hung.
CHECK_DEADLOCK FALSE
