SPECIFICATION Spec
CONSTANTS
  HeapStart = 2
  HeapBlocks = 6
  MemBlockSize = 2
  SizeMod = 64
  Requests = {0, 1, 3}
  BlockRequests = {3, 9}
  Pointers = {0, 2, 3, 4, 5, 6, 7, 8}
INVARIANTS
  ListsLinked
  EveryBlockOnce
  FreeIsMerged
PROPERTIES
  ImplementsHeap
