SPECIFICATION Spec
CONSTANTS
  Regs <- MCRegs
  Values <- MCValues
  NoReg = "none"
  Functions <- MCFunctions
INVARIANTS
  FactsTrue
PROPERTIES
  SameProgram
\* a function ends at a block without successors
CHECK_DEADLOCK FALSE
