SPECIFICATION Spec
CONSTANTS
  ByteSize = 256
  Machines <- MCMachines
  Blocks <- MCChanged
  MaxIter = 2
INVARIANTS
  RegistersRight
CHECK_DEADLOCK FALSE
