\* Edited, trimmed and blank images; two edits altogether.
SPECIFICATION Spec
CONSTANTS
  Names = {a, b}
  Images <- MCImages
  Nothing = Nothing
  Values <- MCValues
  Zero = 0
  Fill = 229
  Writes <- MCWrites
  Headers <- MCHeaders
  Spt = 2
  Cylinders = 3
  MaxEdits = 2
INVARIANTS
  FlatIsLinear
  ExtentIsRange
PROPERTY LinearSpec
