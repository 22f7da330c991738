SPECIFICATION FairSpec
CONSTANTS
  Funcs <- MCFuncs
  NoFunc <- MCNoFunc
  Programs <- MCClosedPrograms
  MaxSites = 2
  MaxObjs = 3
  MaxSize = 2
  MaxDepth = 5
INVARIANTS
  StaticNotReentered
  FramesIntact
  InterruptClosure
  EvidenceSound
  SlotsDisjoint
  OneHome
PROPERTIES
  PassTerminates
  ImplementsPrivate
