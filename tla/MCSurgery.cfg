\* Every script on every original, and names made typeable before and after it.
SPECIFICATION SurgerySpec
CONSTANTS
  Sector = 4
  Side = 2
  Scored = 7
  Typeable <- MCTypeable
  Shelves <- MCShelves
  OSG <- MCOSG
  Blank = 13
  BlankSectors = 6
  DirSectors = 3
  Buffer = 4
  Patched = 22
  FloppyAt = 4
  SubLists <- MCSubLists
INVARIANTS
  LibraryHolds
  OnlyTheWanted
  SlotsLead
  DirectoryFound
\* A disk may be left alone.
CHECK_DEADLOCK FALSE
