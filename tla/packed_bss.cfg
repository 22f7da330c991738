SPECIFICATION Spec
CONSTANTS
  Sections <- MCSections
  PageSize = 4
  AddrLimit = 20
  MaxAddr = 39
  Starts <- MCStarts
  MaxPasses = 2
  Inputs <- MCInputs
INVARIANTS
  NoOverlap
  PageRules
  NoLostByte
  SameSections
  OutputLegal
PROPERTIES
  Repeatable
\* the linker stops after its last pass
CHECK_DEADLOCK FALSE
