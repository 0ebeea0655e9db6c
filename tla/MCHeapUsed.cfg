SPECIFICATION Spec
CONSTANTS
  HeapBegin = 16
  PheapEnd = 104
  PageSize = 8
  MAXPAGEALIGNEDALLOC = 2
  Sizes <- MCSizes
  CallocArgs <- MCCallocArgs
  Word = 128
CHECK_DEADLOCK FALSE
INVARIANTS UsedIsWithinTheHeap
