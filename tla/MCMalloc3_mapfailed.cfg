SPECIFICATION Spec
CONSTANTS
  ORDER_SIZE = 8
  META = 2
  MAX_ORDER = 1
  INITIAL_MALLOC_BLOCK_AMOUNT = 1
  MAX_SMALLOC_SIZE = 24
  START_BRKS = {16}
  BRK_LIMIT = 48
  FOREIGN_SBRK = {}
  MMAP_ADDRS = {200, 250}
  NUMS = {1}
  SIZE_T_RANGE = 1000
  PATTERNS <- Bytes
  SIZES <- MappedSizes
INVARIANT FailureIsNull
