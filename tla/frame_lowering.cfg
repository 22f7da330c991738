SPECIFICATION FrameSpec
CONSTANTS
  ByteSize = 8
  Functions <- MCFunctions
  Entry = 52
  Junk = 0
  Src = 1
  Dst = 9
INVARIANTS
  ArgsKept
  ReturnsRight
  LocalsKept
  CopyRight
  CfiRight
CHECK_DEADLOCK FALSE
