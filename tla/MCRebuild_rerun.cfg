\* Every way the assembler may treat five instructions, then the passes in every
\* order, one of them twice.
SPECIFICATION Spec
CONSTANTS
  Instrs <- MCInstrs
  Size <- MCSize
  Target <- MCTarget
  LongForm <- MCLong
  Words = {8, 9, 12}
  Text = {0, 1}
  Rows = {0}
  MaxRounds = 2
  Starts = {0, 2, 8, 10, 12}
  HexLike = {2, 5}
  PassSets <- MCPassSets
  Width <- MCWidth
  MaxAgain = 1
PROPERTIES ReRunnable
\* A finished listing may be left alone.
CHECK_DEADLOCK FALSE
