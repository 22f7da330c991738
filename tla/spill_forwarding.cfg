SPECIFICATION Spec
CONSTANTS
  ByteSize = 8
  Slots <- MCSlots
  GVBase = 8
  SP0 = 40
  Junk = 0
  Undef = 99
  Inputs <- MCInputs
INVARIANTS
  AvailSound
  LiveKept
  SlotsKept
  ReloadsRight
\* the block ends
CHECK_DEADLOCK FALSE
