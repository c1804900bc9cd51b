---------------------------- MODULE Malloc3Tests ----------------------------
(***************************************************************************)
(* The test cases of src/updatedTests/malloc_3_test_basic.cpp, run on the  *)
(* model of malloc_3.cpp with the constants of the code, in bytes.  ctest  *)
(* runs each in a process of its own, on a system that refuses nothing.    *)
(*                                                                         *)
(* A test case is a sequence of calls and of checks.  ptrs is what its     *)
(* pointer variables hold; variable v of the model is ptrv of the code (or *)
(* the element of its vector `allocations` that was pushed v-th).          *)
(***************************************************************************)
EXTENDS Malloc3, SequencesExt

VARIABLES
  test,   \* the test case
  pos,    \* its next step
  ptrs    \* its pointer variables

Vars == 0 .. 64   \* 0 is for no variable

----------------------------------------------------------------------------
(* Steps                                                                   *)

ACall(op, v, old, num, n) ==
  [do |-> op, var |-> v, old |-> old, num |-> num, n |-> n]

smalloc(v, n)       == ACall("smalloc", v, 0, 1, n)
scalloc(v, num, n)  == ACall("scalloc", v, 0, num, n)
srealloc(v, old, n) == ACall("srealloc", v, old, 1, n)
sfree(v)            == ACall("sfree", 0, v, 1, 0)

\* The arguments of verify_block_by_order, free and used of each order in
\* turn, then the count and the bytes of the big blocks.
verify(row, big, bytes) ==
  [do |-> "verify", big |-> big, bytes |-> bytes,
   free |-> [k \in Orders |-> row[2 * k + 1]], used |-> [k \in Orders |-> row[2 * k + 2]]]

\* REQUIRE of a pointer: not NULL, NULL, or d bytes above another.
given(v)       == [do |-> "given", v |-> v]
refused(v)     == [do |-> "refused", v |-> v]
apart(v, w, d) == [do |-> "apart", v |-> v, w |-> w, d |-> d]

\* REQUIRE of what srealloc has moved.
kept == [do |-> "kept"]

\* The number of top blocks, 32 in the code; the test cases do not depend on
\* it, as long as there are three.
T == INITIAL_MALLOC_BLOCK_AMOUNT

Large   == MAX_ORDER_BLOCK_SIZE + 100
Fits(k) == getOrderSize(k) - 64

\* The arena has `used` blocks of order 9 in use, taken pair by pair; or no
\* block in use, with a number of big blocks beside it; or one of order k.
pairsUsed(used) ==
  verify(<<0,0, 0,0, 0,0, 0,0, 0,0, 0,0, 0,0, 0,0, 0,0,
           used % 2, used, T - (used \div 2) - (used % 2), 0>>, 0, 0)

allFree(big) ==
  verify(<<0,0, 0,0, 0,0, 0,0, 0,0, 0,0, 0,0, 0,0, 0,0, 0,0, T,0>>, big, big * Large)

oneUsed(k) ==
  [do |-> "verify", big |-> 0, bytes |-> 0,
   free |-> [j \in Orders |-> IF j = MAX_ORDER THEN T - 1 ELSE IF j >= k THEN 1 ELSE 0],
   used |-> [j \in Orders |-> IF j = k THEN 1 ELSE 0]]

\* Repeat(m, Part) is the steps Part(1), .. Part(m), each a sequence of its own.
Repeat(m, Part(_)) == FlattenSeq([i \in 1 .. m |-> Part(i)])

----------------------------------------------------------------------------
(* Test cases                                                              *)

\* "Challenge 0 - Memory Utilization"
MemoryUtilization == <<
  verify(<<0,0, 0,0, 0,0, 0,0, 0,0, 0,0, 0,0, 0,0, 0,0, 0,0, 0,0>>, 0, 0),
  smalloc(1, 40), given(1), oneUsed(0), smalloc(2, Large), given(2),
  verify(<<1,1, 1,0, 1,0, 1,0, 1,0, 1,0, 1,0, 1,0, 1,0, 1,0, T-1,0>>, 1, Large),
  smalloc(3, 50), given(3),
  verify(<<0,2, 1,0, 1,0, 1,0, 1,0, 1,0, 1,0, 1,0, 1,0, 1,0, T-1,0>>, 1, Large),
  sfree(1),
  verify(<<1,1, 1,0, 1,0, 1,0, 1,0, 1,0, 1,0, 1,0, 1,0, 1,0, T-1,0>>, 1, Large),
  smalloc(4, 40), given(4),
  verify(<<0,2, 1,0, 1,0, 1,0, 1,0, 1,0, 1,0, 1,0, 1,0, 1,0, T-1,0>>, 1, Large),
  sfree(3), sfree(4), allFree(1), sfree(1), sfree(2), allFree(0) >>

\* "test all sizes"
AllSizes ==
  Repeat(MAX_ORDER + 1, LAMBDA i :
    <<smalloc(1, Fits(i - 1)), oneUsed(i - 1), sfree(1), allFree(0)>>)

\* "Finding buddies test": blocks fill the arena; they are freed from the
\* last to the first, and the second time from the first to the last.
FindingBuddies ==
  LET Fill == Repeat(2 * T, LAMBDA i : <<smalloc(i, Fits(9)), given(i), pairsUsed(i)>>)
              \o <<smalloc(0, 40), refused(0)>>
  IN Fill \o Repeat(2 * T, LAMBDA i : <<sfree(2 * T + 1 - i), pairsUsed(2 * T - i)>>) \o <<allFree(0)>>
     \o Fill \o Repeat(2 * T, LAMBDA i : <<sfree(i), pairsUsed(2 * T - i)>>) \o <<allFree(0)>>

\* "multiple big allocs test"
MultipleBigAllocs ==
  LET Fill == Repeat(63, LAMBDA i : <<smalloc(i, Large), given(i), allFree(i)>>)
  IN Fill \o Repeat(63, LAMBDA i : <<sfree(64 - i), allFree(63 - i)>>) \o <<allFree(0)>>
     \o Fill \o Repeat(63, LAMBDA i : <<sfree(i), allFree(63 - i)>>) \o <<allFree(0)>>

\* "srealloc test"
SreallocTest == <<
  smalloc(1, 40), given(1), oneUsed(0),
  srealloc(2, 1, 60), given(2), oneUsed(0),
  srealloc(3, 2, 30), given(3), oneUsed(0), sfree(3), allFree(0) >>

\* "scalloc test"
ScallocTest ==
  <<scalloc(1, 5, 4), given(1), scalloc(2, 10, 4), given(2), sfree(1), sfree(2)>>

\* "srealloc merges test"; the last move must bring the contents along.
SreallocMergesTest == <<
  smalloc(1, 40), given(1), oneUsed(0),
  srealloc(2, 1, Fits(2)), given(2), oneUsed(2),
  srealloc(3, 2, 100), given(3), apart(2, 3, 0), oneUsed(2),
  srealloc(4, 3, Fits(8)), oneUsed(8), kept, sfree(4), allFree(0) >>

\* "weird values"
WeirdValues == <<
  smalloc(1, 100000001), refused(1), allFree(0), sfree(1), allFree(0) >>

\* "size of blocks and meta data": two blocks of an order are neighbours.
SizeOfBlocks ==
  LET Two(k, n) == <<smalloc(1, n), smalloc(2, n), apart(2, 1, getOrderSize(k)),
                     sfree(1), sfree(2)>>
  IN Two(0, 1) \o Repeat(MAX_ORDER, LAMBDA k : Two(k, Fits(k)) \o Two(k, Payload(k)))

\* "GEPETA 1"
Gepeta1 == <<
  smalloc(1, Fits(0)), oneUsed(0), scalloc(2, 1, Fits(1)),
  verify(<<1,1, 0,1, 1,0, 1,0, 1,0, 1,0, 1,0, 1,0, 1,0, 1,0, T-1,0>>, 0, 0),
  srealloc(1, 1, Fits(3)),
  verify(<<0,0, 1,1, 1,0, 0,1, 1,0, 1,0, 1,0, 1,0, 1,0, 1,0, T-1,0>>, 0, 0),
  sfree(2), oneUsed(3), smalloc(3, Fits(10)),
  verify(<<0,0, 0,0, 0,0, 1,1, 1,0, 1,0, 1,0, 1,0, 1,0, 1,0, T-2,1>>, 0, 0),
  smalloc(4, Fits(0)),
  verify(<<1,1, 1,0, 1,0, 0,1, 1,0, 1,0, 1,0, 1,0, 1,0, 1,0, T-2,1>>, 0, 0),
  smalloc(5, Fits(10)),
  verify(<<1,1, 1,0, 1,0, 0,1, 1,0, 1,0, 1,0, 1,0, 1,0, 1,0, T-3,2>>, 0, 0),
  smalloc(6, Fits(0)),
  verify(<<0,2, 1,0, 1,0, 0,1, 1,0, 1,0, 1,0, 1,0, 1,0, 1,0, T-3,2>>, 0, 0),
  smalloc(7, Fits(0)),
  verify(<<1,3, 0,0, 1,0, 0,1, 1,0, 1,0, 1,0, 1,0, 1,0, 1,0, T-3,2>>, 0, 0),
  srealloc(3, 3, Fits(5)),
  verify(<<1,3, 0,0, 1,0, 0,1, 1,0, 1,0, 1,0, 1,0, 1,0, 1,0, T-3,2>>, 0, 0),
  srealloc(5, 5, Fits(5)),
  verify(<<1,3, 0,0, 1,0, 0,1, 1,0, 1,0, 1,0, 1,0, 1,0, 1,0, T-3,2>>, 0, 0),
  sfree(6),
  verify(<<2,2, 0,0, 1,0, 0,1, 1,0, 1,0, 1,0, 1,0, 1,0, 1,0, T-3,2>>, 0, 0),
  srealloc(7, 7, Fits(7)),
  verify(<<1,1, 1,0, 1,0, 0,1, 1,0, 1,0, 1,0, 0,1, 1,0, 1,0, T-3,2>>, 0, 0),
  sfree(4),
  verify(<<0,0, 0,0, 0,0, 1,1, 1,0, 1,0, 1,0, 0,1, 1,0, 1,0, T-3,2>>, 0, 0),
  smalloc(4, Fits(0)),
  verify(<<1,1, 1,0, 1,0, 0,1, 1,0, 1,0, 1,0, 0,1, 1,0, 1,0, T-3,2>>, 0, 0),
  sfree(5),
  verify(<<1,1, 1,0, 1,0, 0,1, 1,0, 1,0, 1,0, 0,1, 1,0, 1,0, T-2,1>>, 0, 0),
  smalloc(8, Fits(5)),
  verify(<<1,1, 1,0, 1,0, 0,1, 1,0, 0,1, 1,0, 0,1, 1,0, 1,0, T-2,1>>, 0, 0),
  sfree(1),
  verify(<<1,1, 1,0, 1,0, 1,0, 1,0, 0,1, 1,0, 0,1, 1,0, 1,0, T-2,1>>, 0, 0),
  sfree(3),
  verify(<<1,1, 1,0, 1,0, 1,0, 1,0, 0,1, 1,0, 0,1, 1,0, 1,0, T-1,0>>, 0, 0),
  sfree(7),
  verify(<<1,1, 1,0, 1,0, 1,0, 1,0, 0,1, 1,0, 1,0, 1,0, 1,0, T-1,0>>, 0, 0),
  sfree(8), oneUsed(0), sfree(1), oneUsed(0), sfree(3), oneUsed(0), sfree(4) >>

\* "1.5"
Gepeta1_5 == <<
  smalloc(1, Fits(0)), oneUsed(0), smalloc(2, Fits(5)),
  verify(<<1,1, 1,0, 1,0, 1,0, 1,0, 0,1, 1,0, 1,0, 1,0, 1,0, T-1,0>>, 0, 0),
  smalloc(3, Fits(9)),
  verify(<<1,1, 1,0, 1,0, 1,0, 1,0, 0,1, 1,0, 1,0, 1,0, 0,1, T-1,0>>, 0, 0),
  sfree(2),
  verify(<<1,1, 1,0, 1,0, 1,0, 1,0, 1,0, 1,0, 1,0, 1,0, 0,1, T-1,0>>, 0, 0),
  sfree(1), oneUsed(9), sfree(3), allFree(0) >>

\* "2"
Gepeta2 == <<
  smalloc(1, Fits(1)), oneUsed(1), smalloc(2, Fits(4)),
  verify(<<0,0, 1,1, 1,0, 1,0, 0,1, 1,0, 1,0, 1,0, 1,0, 1,0, T-1,0>>, 0, 0),
  sfree(1), oneUsed(4), smalloc(1, Fits(6)),
  verify(<<0,0, 0,0, 0,0, 0,0, 1,1, 1,0, 0,1, 1,0, 1,0, 1,0, T-1,0>>, 0, 0),
  sfree(2), oneUsed(6), sfree(1), allFree(0) >>

\* "3"
Gepeta3 == <<
  smalloc(1, Fits(2)), oneUsed(2), scalloc(2, 1, Fits(3)),
  verify(<<0,0, 0,0, 1,1, 0,1, 1,0, 1,0, 1,0, 1,0, 1,0, 1,0, T-1,0>>, 0, 0),
  smalloc(3, Fits(7)),
  verify(<<0,0, 0,0, 1,1, 0,1, 1,0, 1,0, 1,0, 0,1, 1,0, 1,0, T-1,0>>, 0, 0),
  sfree(2),
  verify(<<0,0, 0,0, 1,1, 1,0, 1,0, 1,0, 1,0, 0,1, 1,0, 1,0, T-1,0>>, 0, 0),
  srealloc(2, 1, Fits(5)),
  verify(<<0,0, 0,0, 0,0, 0,0, 0,0, 1,1, 1,0, 0,1, 1,0, 1,0, T-1,0>>, 0, 0),
  sfree(3), oneUsed(5), sfree(2), allFree(0) >>

\* "8"
Gepeta8 == <<
  smalloc(1, Fits(1)), oneUsed(1), smalloc(2, Fits(3)),
  verify(<<0,0, 1,1, 1,0, 0,1, 1,0, 1,0, 1,0, 1,0, 1,0, 1,0, T-1,0>>, 0, 0),
  srealloc(3, 1, Fits(2)),
  verify(<<0,0, 0,0, 1,1, 0,1, 1,0, 1,0, 1,0, 1,0, 1,0, 1,0, T-1,0>>, 0, 0),
  sfree(2), oneUsed(2), smalloc(2, Fits(4)),
  verify(<<0,0, 0,0, 1,1, 1,0, 0,1, 1,0, 1,0, 1,0, 1,0, 1,0, T-1,0>>, 0, 0),
  sfree(3), oneUsed(4), sfree(2), allFree(0) >>

\* "9"
Gepeta9 == <<
  smalloc(1, Fits(0)), oneUsed(0), smalloc(2, Fits(0)),
  verify(<<0,2, 1,0, 1,0, 1,0, 1,0, 1,0, 1,0, 1,0, 1,0, 1,0, T-1,0>>, 0, 0),
  smalloc(3, Fits(0)),
  verify(<<1,3, 0,0, 1,0, 1,0, 1,0, 1,0, 1,0, 1,0, 1,0, 1,0, T-1,0>>, 0, 0),
  smalloc(4, Fits(0)),
  verify(<<0,4, 0,0, 1,0, 1,0, 1,0, 1,0, 1,0, 1,0, 1,0, 1,0, T-1,0>>, 0, 0),
  sfree(2),
  verify(<<1,3, 0,0, 1,0, 1,0, 1,0, 1,0, 1,0, 1,0, 1,0, 1,0, T-1,0>>, 0, 0),
  sfree(3),
  verify(<<2,2, 0,0, 1,0, 1,0, 1,0, 1,0, 1,0, 1,0, 1,0, 1,0, T-1,0>>, 0, 0),
  srealloc(1, 1, Fits(1)),
  verify(<<1,1, 0,1, 1,0, 1,0, 1,0, 1,0, 1,0, 1,0, 1,0, 1,0, T-1,0>>, 0, 0),
  sfree(1), oneUsed(0), smalloc(1, Fits(0)),
  verify(<<0,2, 1,0, 1,0, 1,0, 1,0, 1,0, 1,0, 1,0, 1,0, 1,0, T-1,0>>, 0, 0),
  smalloc(2, Fits(0)),
  verify(<<1,3, 0,0, 1,0, 1,0, 1,0, 1,0, 1,0, 1,0, 1,0, 1,0, T-1,0>>, 0, 0),
  srealloc(1, 1, Fits(1)),
  verify(<<2,2, 1,1, 0,0, 1,0, 1,0, 1,0, 1,0, 1,0, 1,0, 1,0, T-1,0>>, 0, 0),
  smalloc(3, Fits(1)),
  verify(<<2,2, 0,2, 0,0, 1,0, 1,0, 1,0, 1,0, 1,0, 1,0, 1,0, T-1,0>>, 0, 0),
  sfree(1),
  verify(<<2,2, 1,1, 0,0, 1,0, 1,0, 1,0, 1,0, 1,0, 1,0, 1,0, T-1,0>>, 0, 0),
  sfree(2),
  verify(<<1,1, 2,1, 0,0, 1,0, 1,0, 1,0, 1,0, 1,0, 1,0, 1,0, T-1,0>>, 0, 0),
  sfree(3), oneUsed(0), sfree(4), allFree(0) >>

\* "12"
Gepeta12 == <<
  smalloc(1, Fits(2)), oneUsed(2), smalloc(2, Fits(4)),
  verify(<<0,0, 0,0, 1,1, 1,0, 0,1, 1,0, 1,0, 1,0, 1,0, 1,0, T-1,0>>, 0, 0),
  smalloc(3, Fits(8)),
  verify(<<0,0, 0,0, 1,1, 1,0, 0,1, 1,0, 1,0, 1,0, 0,1, 1,0, T-1,0>>, 0, 0),
  smalloc(4, Fits(10)),
  verify(<<0,0, 0,0, 1,1, 1,0, 0,1, 1,0, 1,0, 1,0, 0,1, 1,0, T-2,1>>, 0, 0),
  sfree(2),
  verify(<<0,0, 0,0, 1,1, 1,0, 1,0, 1,0, 1,0, 1,0, 0,1, 1,0, T-2,1>>, 0, 0),
  sfree(3),
  verify(<<0,0, 0,0, 1,1, 1,0, 1,0, 1,0, 1,0, 1,0, 1,0, 1,0, T-2,1>>, 0, 0),
  srealloc(1, 1, Fits(9)),
  verify(<<0,0, 0,0, 0,0, 0,0, 0,0, 0,0, 0,0, 0,0, 0,0, 1,1, T-2,1>>, 0, 0),
  sfree(1), sfree(4), allFree(0) >>

\* "13"
Gepeta13 == <<
  smalloc(1, Fits(0)), oneUsed(0), smalloc(2, Fits(3)),
  verify(<<1,1, 1,0, 1,0, 0,1, 1,0, 1,0, 1,0, 1,0, 1,0, 1,0, T-1,0>>, 0, 0),
  srealloc(3, 1, Fits(6)),
  verify(<<0,0, 0,0, 0,0, 1,1, 1,0, 1,0, 0,1, 1,0, 1,0, 1,0, T-1,0>>, 0, 0),
  srealloc(3, 3, Fits(1)),
  verify(<<0,0, 0,0, 0,0, 1,1, 1,0, 1,0, 0,1, 1,0, 1,0, 1,0, T-1,0>>, 0, 0),
  srealloc(3, 3, Fits(7)),
  verify(<<0,0, 0,0, 0,0, 1,1, 1,0, 1,0, 1,0, 0,1, 1,0, 1,0, T-1,0>>, 0, 0),
  sfree(2), oneUsed(7), sfree(3), allFree(0) >>

\* "14"
Gepeta14 == <<
  smalloc(1, Fits(1)), oneUsed(1), smalloc(2, Fits(4)),
  verify(<<0,0, 1,1, 1,0, 1,0, 0,1, 1,0, 1,0, 1,0, 1,0, 1,0, T-1,0>>, 0, 0),
  sfree(1), oneUsed(4), smalloc(3, Fits(5)),
  verify(<<0,0, 0,0, 0,0, 0,0, 1,1, 0,1, 1,0, 1,0, 1,0, 1,0, T-1,0>>, 0, 0),
  smalloc(4, Fits(6)),
  verify(<<0,0, 0,0, 0,0, 0,0, 1,1, 0,1, 0,1, 1,0, 1,0, 1,0, T-1,0>>, 0, 0),
  sfree(3),
  verify(<<0,0, 0,0, 0,0, 0,0, 1,1, 1,0, 0,1, 1,0, 1,0, 1,0, T-1,0>>, 0, 0),
  sfree(4), oneUsed(4), sfree(2), allFree(0) >>

\* "15"
Gepeta15 == <<
  smalloc(1, Fits(0)), oneUsed(0), smalloc(2, Fits(2)),
  verify(<<1,1, 1,0, 0,1, 1,0, 1,0, 1,0, 1,0, 1,0, 1,0, 1,0, T-1,0>>, 0, 0),
  smalloc(3, Fits(4)),
  verify(<<1,1, 1,0, 0,1, 1,0, 0,1, 1,0, 1,0, 1,0, 1,0, 1,0, T-1,0>>, 0, 0),
  srealloc(1, 1, Fits(3)),
  verify(<<0,0, 0,0, 1,1, 0,1, 0,1, 1,0, 1,0, 1,0, 1,0, 1,0, T-1,0>>, 0, 0),
  smalloc(4, Fits(5)),
  verify(<<0,0, 0,0, 1,1, 0,1, 0,1, 0,1, 1,0, 1,0, 1,0, 1,0, T-1,0>>, 0, 0),
  srealloc(2, 2, Fits(1)),
  verify(<<0,0, 0,0, 1,1, 0,1, 0,1, 0,1, 1,0, 1,0, 1,0, 1,0, T-1,0>>, 0, 0),
  smalloc(5, Fits(6)),
  verify(<<0,0, 0,0, 1,1, 0,1, 0,1, 0,1, 0,1, 1,0, 1,0, 1,0, T-1,0>>, 0, 0),
  srealloc(3, 3, Fits(7)),
  verify(<<0,0, 0,0, 1,1, 0,1, 1,0, 0,1, 0,1, 0,1, 1,0, 1,0, T-1,0>>, 0, 0),
  smalloc(6, Fits(8)),
  verify(<<0,0, 0,0, 1,1, 0,1, 1,0, 0,1, 0,1, 0,1, 0,1, 1,0, T-1,0>>, 0, 0),
  srealloc(4, 4, Fits(9)),
  verify(<<0,0, 0,0, 1,1, 0,1, 1,0, 1,0, 0,1, 0,1, 0,1, 0,1, T-1,0>>, 0, 0),
  srealloc(5, 5, Fits(2)),
  verify(<<0,0, 0,0, 1,1, 0,1, 1,0, 1,0, 0,1, 0,1, 0,1, 0,1, T-1,0>>, 0, 0),
  srealloc(6, 6, Fits(0)),
  verify(<<0,0, 0,0, 1,1, 0,1, 1,0, 1,0, 0,1, 0,1, 0,1, 0,1, T-1,0>>, 0, 0),
  sfree(2),
  verify(<<0,0, 0,0, 0,0, 1,1, 1,0, 1,0, 0,1, 0,1, 0,1, 0,1, T-1,0>>, 0, 0),
  sfree(4),
  verify(<<0,0, 0,0, 0,0, 1,1, 1,0, 1,0, 0,1, 0,1, 0,1, 1,0, T-1,0>>, 0, 0),
  srealloc(1, 1, Fits(4)),
  verify(<<0,0, 0,0, 0,0, 0,0, 1,1, 1,0, 0,1, 0,1, 0,1, 1,0, T-1,0>>, 0, 0),
  srealloc(3, 3, Fits(5)),
  verify(<<0,0, 0,0, 0,0, 0,0, 1,1, 1,0, 0,1, 0,1, 0,1, 1,0, T-1,0>>, 0, 0),
  sfree(1), sfree(3), sfree(5), sfree(6), allFree(0) >>

\* "really free?"
ReallyFree == <<
  smalloc(1, Fits(0)), oneUsed(0), smalloc(2, Fits(0)),
  verify(<<0,2, 1,0, 1,0, 1,0, 1,0, 1,0, 1,0, 1,0, 1,0, 1,0, T-1,0>>, 0, 0),
  smalloc(3, Fits(0)),
  verify(<<1,3, 0,0, 1,0, 1,0, 1,0, 1,0, 1,0, 1,0, 1,0, 1,0, T-1,0>>, 0, 0),
  smalloc(4, Fits(0)),
  verify(<<0,4, 0,0, 1,0, 1,0, 1,0, 1,0, 1,0, 1,0, 1,0, 1,0, T-1,0>>, 0, 0),
  smalloc(5, Fits(0)),
  verify(<<1,5, 1,0, 0,0, 1,0, 1,0, 1,0, 1,0, 1,0, 1,0, 1,0, T-1,0>>, 0, 0),
  smalloc(6, Fits(0)),
  verify(<<0,6, 1,0, 0,0, 1,0, 1,0, 1,0, 1,0, 1,0, 1,0, 1,0, T-1,0>>, 0, 0),
  smalloc(7, Fits(0)),
  verify(<<1,7, 0,0, 0,0, 1,0, 1,0, 1,0, 1,0, 1,0, 1,0, 1,0, T-1,0>>, 0, 0),
  smalloc(8, Fits(0)),
  verify(<<0,8, 0,0, 0,0, 1,0, 1,0, 1,0, 1,0, 1,0, 1,0, 1,0, T-1,0>>, 0, 0),
  sfree(1),
  verify(<<1,7, 0,0, 0,0, 1,0, 1,0, 1,0, 1,0, 1,0, 1,0, 1,0, T-1,0>>, 0, 0),
  sfree(3),
  verify(<<2,6, 0,0, 0,0, 1,0, 1,0, 1,0, 1,0, 1,0, 1,0, 1,0, T-1,0>>, 0, 0),
  sfree(2),
  verify(<<1,5, 1,0, 0,0, 1,0, 1,0, 1,0, 1,0, 1,0, 1,0, 1,0, T-1,0>>, 0, 0),
  sfree(5),
  verify(<<2,4, 1,0, 0,0, 1,0, 1,0, 1,0, 1,0, 1,0, 1,0, 1,0, T-1,0>>, 0, 0),
  sfree(6),
  verify(<<1,3, 2,0, 0,0, 1,0, 1,0, 1,0, 1,0, 1,0, 1,0, 1,0, T-1,0>>, 0, 0),
  sfree(7),
  verify(<<2,2, 2,0, 0,0, 1,0, 1,0, 1,0, 1,0, 1,0, 1,0, 1,0, T-1,0>>, 0, 0),
  sfree(4), oneUsed(0), sfree(8), allFree(0) >>

\* "tightest merge"
TightestMerge == <<
  smalloc(1, Fits(0)), oneUsed(0), smalloc(2, Fits(0)),
  verify(<<0,2, 1,0, 1,0, 1,0, 1,0, 1,0, 1,0, 1,0, 1,0, 1,0, T-1,0>>, 0, 0),
  smalloc(3, Fits(0)),
  verify(<<1,3, 0,0, 1,0, 1,0, 1,0, 1,0, 1,0, 1,0, 1,0, 1,0, T-1,0>>, 0, 0),
  smalloc(4, Fits(0)),
  verify(<<0,4, 0,0, 1,0, 1,0, 1,0, 1,0, 1,0, 1,0, 1,0, 1,0, T-1,0>>, 0, 0),
  sfree(1), sfree(2),
  verify(<<0,2, 1,0, 1,0, 1,0, 1,0, 1,0, 1,0, 1,0, 1,0, 1,0, T-1,0>>, 0, 0),
  sfree(3), srealloc(4, 4, Fits(1)), apart(4, 3, 0), smalloc(5, Fits(0)),
  apart(5, 1, 0), sfree(4), sfree(5), allFree(0) >>

TestCases == <<
  MemoryUtilization, AllSizes, FindingBuddies, MultipleBigAllocs, SreallocTest,
  ScallocTest, SreallocMergesTest, WeirdValues, SizeOfBlocks, Gepeta1, Gepeta1_5,
  Gepeta2, Gepeta3, Gepeta8, Gepeta9, Gepeta12, Gepeta13, Gepeta14, Gepeta15,
  ReallyFree, TightestMerge >>

----------------------------------------------------------------------------
(* The run of a test case                                                  *)

Script == TestCases[test]
Ended  == pos > Len(Script)
Calls4 == {"smalloc", "scalloc", "srealloc", "sfree"}

TestInit ==
  /\ Init
  /\ test \in DOMAIN TestCases
  /\ pos = 1
  /\ ptrs = [v \in Vars |-> NULL]

Start ==
  /\ Idle /\ ~Ended /\ Script[pos].do \in Calls4
  /\ LET c == Script[pos] IN CallWith(c.do, ptrs[c.old], c.num, c.n)
  /\ pos' = pos + 1
  /\ UNCHANGED <<test, ptrs>>

\* The system refuses nothing, and maps the highest address that is free.
Obliging ==
  /\ At("smalloc") => ~firstAlloc'
  /\ call'.ret # MAP_FAILED
  /\ \A a \in (live' \ live) \cap MMAP_ADDRS : a = Max(MMAP_ADDRS \ live)

\* The handler goes on; when it returns, the result goes to the variable.
Handle ==
  /\ Step /\ Obliging
  /\ ptrs' = IF call'.at = "idle" THEN [ptrs EXCEPT ![Script[pos - 1].var] = call'.ret]
                                  ELSE ptrs
  /\ UNCHANGED <<test, pos>>

Check ==
  /\ Idle /\ ~Ended /\ Script[pos].do \notin Calls4
  /\ pos' = pos + 1
  /\ UNCHANGED <<vars, test, ptrs>>

\* Nothing else may stop a test case: a state without a successor is one
\* where it has died or passes a pointer that is not its own.
Exit == Idle /\ Ended /\ UNCHANGED <<vars, test, pos, ptrs>>

TestNext == Start \/ Handle \/ Check \/ Exit

TestSpec == TestInit /\ [][TestNext]_<<vars, test, pos, ptrs>>

----------------------------------------------------------------------------
(* Properties                                                              *)

Holds(check) ==
  CASE check.do = "verify"  -> verify_block_by_order(check.free, check.used,
                                                     check.big, check.bytes)
    [] check.do = "given"   -> ptrs[check.v] # NULL
    [] check.do = "refused" -> ptrs[check.v] = NULL
    [] check.do = "apart"   -> ptrs[check.v] = ptrs[check.w] + check.d
    [] check.do = "kept"    -> ReallocKeepsContents

\* Every REQUIRE of every test case holds where the test case has it.
Verified == (Idle /\ ~Ended /\ Script[pos].do \notin Calls4) => Holds(Script[pos])
=============================================================================
