SPECIFICATION Spec
CONSTANTS
  ByteSize = 256
  Machines <- MCMachines
  Blocks <- MCBlocks
  MaxIter = 2
INVARIANTS
  RegistersRight
  MemoryRight
  BranchRight
\* a block that was run is done
CHECK_DEADLOCK FALSE
