SPECIFICATION TestSpec
CONSTANTS
  ORDER_SIZE = 128
  META = 32
  MAX_ORDER = 10
  INITIAL_MALLOC_BLOCK_AMOUNT = 4
  MAX_SMALLOC_SIZE = 100000000
  START_BRKS <- Start64
  BRK_LIMIT <- Limit
  FOREIGN_SBRK = {}
  MMAP_ADDRS <- Mappings
  NUMS = {}
  SIZE_T_RANGE = 2147483647
  PATTERNS <- NoPatterns
  SIZES = {}
INVARIANT Verified
