SPECIFICATION Spec
CONSTANTS
  Names <- MCNames
  Values <- MCValues
  MaxSteps = 16
  Functions <- MCFunctions
INVARIANTS
  SameCalls
  SuccessorsKept
\* a function that went through the pass is done
CHECK_DEADLOCK FALSE
