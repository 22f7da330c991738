SPECIFICATION Spec
CONSTANTS
  Funcs <- MCFuncs
  NoFunc <- MCNoFunc
  Programs <- MCPrograms
  MaxSites = 2
  MaxObjs = 3
  MaxSize = 2
  MaxTotal = 3
  MaxDepth = 4
INVARIANTS
  AllOrNothing
  LocalsApart
  PromotedNotReentered
  LocalsIntact
