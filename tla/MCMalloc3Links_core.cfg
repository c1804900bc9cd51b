SPECIFICATION LinkedSpec
CONSTANTS
  ORDER_SIZE = 8
  META = 2
  MAX_ORDER = 2
  INITIAL_MALLOC_BLOCK_AMOUNT = 1
  MAX_SMALLOC_SIZE = 48
  START_BRKS = {21}
  BRK_LIMIT = 96
  FOREIGN_SBRK = {24}
  MMAP_ADDRS = {200}
  NUMS = {1, 11}
  SIZE_T_RANGE = 60
  PATTERNS <- Bytes
  SIZES <- CoreSizes
  LINK_WORDS <- NullLinks
INVARIANTS
  TypeOK Tiling BuddyIsLive ListsExact CountersExact HeldAreUsed NoFreeBuddies
  RefusedOnlyIfFull ReleasedLooksFree TightFit GrantFits HalvesMeetEmptyLists IInv CallInv CountInv LinksAgree
PROPERTIES CallReturns CallsShorten
