\* Requests of one and of three sectors from a buffer in the segment's last
\* page: over the end of a cylinder and over the end of the segment.
SPECIFICATION FairSpec
CONSTANTS
  Cylinders = 2
  Heads = 2
  Sectors = 2
  MemPages = 4
  Junk = Junk
  SegPages = 3
  Base = 1
  PollLimit = 2
  Counts = {256, 513}
  Buffers = {2}
  Blocks = {1}
  Asked <- MCAsked
INVARIANTS
  TypeOK
  AskedSectorsInOrder
  IdleAtRead
  QuietAfterSuccess
PROPERTIES
  ServiceSpec
  CallsReturn
