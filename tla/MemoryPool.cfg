\* Four callers make a pool of one block grow twice, to three and to nine.
CONSTANTS
  Callers = {c1, c2, c3, c4}
  NoBlock = NoBlock
  InitialPoolSize = 1
  MaxChunks = 3
SPECIFICATION Spec
INVARIANTS
  FreeListIsExact
PROPERTIES
  ImplementsAllocator
