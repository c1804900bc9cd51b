--------------------------- MODULE MCMalloc3Tests ---------------------------
(***************************************************************************)
(* The constants of malloc_3.cpp, in bytes.  The break starts where the    *)
(* gap to a multiple of the arena's size is a block of order 0; the system *)
(* has pages for the 63 mappings of the largest test case.                 *)
(***************************************************************************)
EXTENDS Malloc3Tests

ArenaBytes == 524288
Start64 == {ArenaBytes - ORDER_SIZE}
Limit == 2 * ArenaBytes
Mappings == {Limit + i * 135168 : i \in 1 .. 63}
NoPatterns == {}
=============================================================================
