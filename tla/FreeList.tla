------------------------------ MODULE FreeList ------------------------------
(***************************************************************************)
(* What struct MetadataList promises its callers: a set of blocks handed   *)
(* out lowest address first, with the count of the blocks and the sum of   *)
(* the size fields it saw when blocks came and went.  The linked list that *)
(* keeps the promise is in module MetadataList.                            *)
(***************************************************************************)
EXTENDS Integers, FiniteSetsExt

EmptyList == [blocks |-> {}, num_blocks |-> 0, num_bytes |-> 0]

isEmpty(list) == list.blocks = {}

Head(list) == Min(list.blocks)

\* A block comes in with the size its header shows at that moment.
_addToList(list, b, size) ==
  [blocks     |-> list.blocks \cup {b},
   num_blocks |-> list.num_blocks + 1,
   num_bytes  |-> list.num_bytes + size]

\* MUTANT: the byte counter is left as it was.
_removeKeepingBytes(list, b, size) ==
  [list EXCEPT !.blocks = @ \ {b}, !.num_blocks = @ - 1]

\* A block goes; the counters change whether or not it was a member.
_removeFromList(list, b, size) ==
  [blocks     |-> list.blocks \ {b},
   num_blocks |-> list.num_blocks - 1,
   num_bytes  |-> list.num_bytes - size]
=============================================================================
