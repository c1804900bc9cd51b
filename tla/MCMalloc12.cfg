SPECIFICATION Spec12
CONSTANTS
  META = 2
  MAX_SMALLOC_SIZE = 4
  START_BRKS = {3}
  BRK_LIMIT = 16
  FOREIGN_SBRK = {2}
  SIZES <- Sizes
  NUMS = {3}
  SIZE_T_RANGE = 8
  MAX_REFUSALS = 2
INVARIANTS
  TypeOK ListComplete FreeCountersExact HeldAreUsed FirstFit BlockInv
PROPERTIES
  ImplementsHeap BumpImplementsHeap CallReturns CallsShorten
