SPECIFICATION LinkedSpec
CONSTANTS
  ORDER_SIZE = 8
  META = 2
  MAX_ORDER = 1
  INITIAL_MALLOC_BLOCK_AMOUNT = 2
  MAX_SMALLOC_SIZE = 20
  START_BRKS = {21}
  BRK_LIMIT = 96
  FOREIGN_SBRK = {}
  MMAP_ADDRS = {200}
  NUMS = {1}
  SIZE_T_RANGE = 1000
  PATTERNS <- Bytes
  SIZES <- TopSizes
  LINK_WORDS <- GarbageLinks
INVARIANT HeadIsFree
