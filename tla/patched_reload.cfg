SPECIFICATION PatchSpec
CONSTANTS
  ByteSize = 8
  Slots <- MCSlots
  GVBase = 8
  CodeBase = 24
  SP0 = 40
  Junk = 0
  Undef = 99
  Inputs <- MCInputs
INVARIANTS
  ScanSound
  WritesInside
  ReadsRight
\* the block ends
CHECK_DEADLOCK FALSE
