--------------------------- MODULE BuddyGeometry ---------------------------
(***************************************************************************)
(* The arithmetic of malloc_3.cpp: orders, block sizes, the order a        *)
(* request needs, the buddy of a block.  Addresses and sizes are numbers   *)
(* of one common unit; ORDER_SIZE and META keep the proportion of the code *)
(* (128 and sizeof(MallocMetadata) = 32 bytes).  No state here.            *)
(***************************************************************************)
EXTENDS Integers, FiniteSetsExt

CONSTANTS
  ORDER_SIZE,   \* size of a block of order 0, header included (line 17)
  META,         \* sizeof(MallocMetadata)
  MAX_ORDER     \* the highest order (line 19)

Orders == 0 .. MAX_ORDER

\* The number of bytes of a block of order k, header included.
getOrderSize(k) == ORDER_SIZE * 2^k

MAX_ORDER_BLOCK_SIZE == getOrderSize(MAX_ORDER)

\* The payload of a block of order k: what its header's size field holds.
Payload(k) == getOrderSize(k) - META

ASSUME GeometryAssumption ==
  /\ ORDER_SIZE \in Nat /\ META \in Nat /\ MAX_ORDER \in Nat
  /\ 0 < META /\ META < ORDER_SIZE

\* Arithmetic of powers of two, for the provers: they do not know 2^k.
ASSUME DoublingAssumption ==
  /\ getOrderSize(0) = ORDER_SIZE
  /\ \A k \in Orders : /\ getOrderSize(k) \in Nat
                       /\ getOrderSize(k + 1) = 2 * getOrderSize(k)

----------------------------------------------------------------------------

\* MUTANT: the header is forgotten when the order is chosen.
findTightOrderNoHeader(n) ==
  Min({k \in Orders : n <= getOrderSize(k)} \cup {MAX_ORDER})

\* The lowest order whose payload holds n; a request too large for every
\* order is given MAX_ORDER all the same.
findTightOrder(n) == Min({k \in Orders : n <= Payload(k)} \cup {MAX_ORDER})

\* address ^ size for a size with a single bit set: that bit is toggled.
findBuddyAddressBySize(a, size) ==
  IF (a \div size) % 2 = 0 THEN a + size ELSE a - size

\* The ancestor of address a at order k: where the block of order k that
\* holds a starts, once its halves have been merged.
Ancestor(a, k) == a - (a % getOrderSize(k))
=============================================================================
