CONSTANTS
  Callers = {c1, c2}
  HeapSize = 10
  HeapBase = 20
  BaseAlign = 4
  Word = 64
  Layouts <- MCLayouts
SPECIFICATION FairSpec
INVARIANTS
  TypeOK
  BlocksDisjoint
  BlocksServeRequest
  FailureIsReal
PROPERTIES
  AllocReturns
