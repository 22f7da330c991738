SPECIFICATION LateSpec
CONSTANTS
  ByteSize = 16
  ChainWindow = 2
  ScanWindow = 2
  MaxDelta = 2
  MaxIter = 3
  Judged = {19, 25}
  StackEnd = 160
  Patches = {0, 6}
  Machines <- MCMachines
  Blocks <- MCStaleCarry
INVARIANT RegistersKept
\* a block that went through the pass is done
CHECK_DEADLOCK FALSE
