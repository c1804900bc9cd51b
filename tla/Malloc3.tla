------------------------------ MODULE Malloc3 ------------------------------
(***************************************************************************)
(* The buddy allocator of src/malloc_3.cpp, called by one sequential       *)
(* client.                                                                 *)
(*                                                                         *)
(* A pointer is modelled by the address of its header (the code adds and   *)
(* subtracts sizeof(MallocMetadata) at the boundary).  size and is_free    *)
(* are the header fields as MEMORY: a header that a merge swallows keeps   *)
(* its last values, as it does in the code, and stays readable.            *)
(*                                                                         *)
(* A call of the client is Call, which records the arguments in `call`,    *)
(* followed by the steps of the handler, one per branch or loop iteration; *)
(* call.at says where the handler stands and no other call can start until *)
(* it is "idle" again.  A handler that touches memory it does not own ends *)
(* in "segv" (unmapped or wild address) or "overrun" (a copy longer than   *)
(* its destination): the program's behaviour is undefined from there.      *)
(***************************************************************************)
EXTENDS BuddyGeometry

CONSTANTS
  MAX_SMALLOC_SIZE,            \* line 16
  INITIAL_MALLOC_BLOCK_AMOUNT, \* line 21
  START_BRKS,     \* where the program break may be before the first call
  BRK_LIMIT,      \* bound: the OS refuses to move the break beyond it
  FOREIGN_SBRK,   \* by how much other code of the process moves the break
  MMAP_ADDRS,     \* bound: the page-aligned addresses mmap can return
  SIZES,          \* bound: the sizes the client asks for
  NUMS,           \* bound: the numbers of elements it asks scalloc for
  SIZE_T_RANGE,   \* how many values size_t has (2^64)
  PATTERNS        \* bound: what the client's bytes read as, seen as a header

FL == INSTANCE FreeList

PROGRAM_BREAK_DIVISOR == INITIAL_MALLOC_BLOCK_AMOUNT * MAX_ORDER_BLOCK_SIZE

NULL == 0
MAP_FAILED == -1   \* (void*)(-1)

\* Where a header of the arena can be, and all header addresses.
Slots == {a \in 1 .. BRK_LIMIT : a % ORDER_SIZE = 0}
Headers == Slots \cup MMAP_ADDRS

ASSUME Malloc3Assumption ==
  /\ MAX_SMALLOC_SIZE \in Nat /\ MAX_ORDER_BLOCK_SIZE <= MAX_SMALLOC_SIZE
  /\ INITIAL_MALLOC_BLOCK_AMOUNT \in Nat \ {0}
  /\ BRK_LIMIT \in Nat
  /\ START_BRKS \subseteq 1 .. BRK_LIMIT
  /\ FOREIGN_SBRK \subseteq Nat
  /\ MMAP_ADDRS \subseteq {a \in Nat : a > BRK_LIMIT}
  /\ SIZES \subseteq Nat /\ NUMS \subseteq Nat
  /\ SIZE_T_RANGE \in Nat \ {0}
  /\ PATTERNS \subseteq [size : Nat, is_free : BOOLEAN]

VARIABLES
  brk,                  \* the program break
  firstAlloc,           \* line 12
  freeBlockListArray,   \* line 157
  mmapedList,           \* line 158
  num_allocated_blocks, \* line 161
  num_allocated_bytes,  \* line 162
  size, is_free,        \* header fields, by address
  live,       \* ghost: addresses where a block starts now
  arena,      \* ghost: where the sbrk arena starts, NULL before it exists
  held,       \* ghost: the pointers the client owns
  granted,    \* ghost: the pointers the client was given, and whose headers
              \* no payload of the client's has overwritten since
  call        \* the call in progress, or the last one with its result

counters == <<num_allocated_blocks, num_allocated_bytes>>
headers  == <<size, is_free>>
heap     == <<freeBlockListArray, mmapedList, counters, headers, live>>
os       == <<brk, firstAlloc, arena>>
client   == <<held, granted>>
vars     == <<heap, os, client, call>>

NoCall == [at |-> "idle", op |-> "none", old |-> NULL, n |-> 0,
           ret |-> NULL, moved |-> FALSE, blk |-> NULL, high |-> 0, splits |-> 0]

Init ==
  /\ brk \in START_BRKS
  /\ firstAlloc = TRUE
  /\ freeBlockListArray = [k \in Orders |-> FL!EmptyList]
  /\ mmapedList = FL!EmptyList
  /\ num_allocated_blocks = 0 /\ num_allocated_bytes = 0
  /\ size = [a \in Headers |-> 0]           \* fresh pages are zero
  /\ is_free = [a \in Headers |-> FALSE]
  /\ live = {} /\ arena = NULL
  /\ held = {} /\ granted = {}
  /\ call = NoCall

----------------------------------------------------------------------------
(* Control: how a handler moves on, answers its caller, or dies.           *)

At(place) == call.at = place

Goto(place) == call' = [call EXCEPT !.at = place]

\* The call is over and its scratch values are forgotten.
Answer(r, movedBytes) ==
  call' = [NoCall EXCEPT !.op = call.op, !.old = call.old, !.n = call.n,
                         !.ret = r, !.moved = movedBytes]

\* The client is given pointer b, in place of the pointers `lost`.
Grant(b, lost) ==
  /\ held' = (held \ lost) \cup {b}
  /\ granted' = granted \cup {b}

Fail == Answer(NULL, FALSE) /\ UNCHANGED client

\* smalloc has found b for whoever called it: the client itself (also
\* through srealloc(NULL, n)), scalloc, which clears b, or srealloc, which
\* moves the old block's bytes there.
SmallocReturns(b) ==
  IF \/ call.op = "smalloc"
     \/ call.op = "srealloc" /\ call.old = NULL
  THEN /\ Answer(b, FALSE)
       /\ IF b = MAP_FAILED THEN UNCHANGED client ELSE Grant(b, {})
  ELSE /\ call' = [call EXCEPT !.at = IF call.op = "scalloc" THEN "memset"
                                                             ELSE "memmove",
                               !.ret = b]
       /\ UNCHANGED client

\* The pointers sfree may be given: NULL, the client's own, and those it has
\* released, unless their bytes belong to another block of the client now or
\* have been overwritten when they did.
InsideHeld(p) == \E q \in held : q < p /\ p < q + size[q] + META
Releasable == {NULL} \cup {p \in granted : ~InsideHeld(p)}

\* The pointers srealloc may be given: the code also serves a released block
\* that is still a block of its own (lines 379-382, 404).
Reallocable == {NULL} \cup {p \in granted : p \in live}

\* num * size in size_t: what smalloc is asked for, and a large product that
\* wraps is asked for as a small one.
TotalSize(num, n) == (num * n) % SIZE_T_RANGE

\* The client calls one of the four functions, scalloc for num elements.
CallWith(op, p, num, n) ==
  /\ At("idle")
  /\ op \in {"smalloc", "scalloc"} => p = NULL
  /\ op = "srealloc" => p \in Reallocable
  /\ op = "sfree" => p \in Releasable /\ n = 0
  /\ op # "scalloc" => num = 1
  /\ call' = [NoCall EXCEPT
       !.op = op, !.old = p, !.blk = p,
       !.n = IF op = "scalloc" THEN TotalSize(num, n) ELSE n,
       !.at = IF op \in {"smalloc", "scalloc"} THEN "smalloc" ELSE op]
  /\ held' = IF op = "sfree" THEN held \ {p} ELSE held
  /\ UNCHANGED <<heap, os, granted>>

Call ==
  \E op \in {"smalloc", "scalloc", "srealloc", "sfree"},
     p \in {NULL} \cup granted, n \in SIZES \cup {0}, num \in NUMS \cup {1} :
    CallWith(op, p, num, n)

\* Code outside the allocator moves the break before the arena exists
\* (afterwards malloc_3.cpp never looks at the break again).
ForeignSbrk ==
  /\ At("idle") /\ firstAlloc
  /\ \E d \in FOREIGN_SBRK : brk + d <= BRK_LIMIT /\ brk' = brk + d
  /\ UNCHANGED <<heap, firstAlloc, arena, client, call>>

\* h is the place of a header (of a block merged away, or never made) that
\* the first n bytes of the payload of arena block b cover.
Covered(h, b, n) == b < h /\ h < b + META + n /\ h \in Slots
Buried(b, n) == {h \in Slots : Covered(h, b, n)}

\* The client writes its own bytes where such a header is; the pointer that
\* belonged to it is no pointer any more.  (What it holds is live: see
\* HeldAreUsed.)
ClientWrites ==
  /\ At("idle")
  /\ \E b \in held \cap live : \E h \in Buried(b, size[b]), w \in PATTERNS :
       /\ size' = [size EXCEPT ![h] = w.size]
       /\ is_free' = [is_free EXCEPT ![h] = w.is_free]
       /\ granted' = granted \ {h}
  /\ UNCHANGED <<freeBlockListArray, mmapedList, counters, live, os, held, call>>

----------------------------------------------------------------------------
(* smalloc                                                                 *)

\* MUTANT: the remainder itself is added to the break.
GapRemainder == brk % PROGRAM_BREAK_DIVISOR

\* MUTANT: the break is only aligned to the smallest block.
GapSmallest == IF brk % ORDER_SIZE = 0 THEN 0 ELSE ORDER_SIZE - (brk % ORDER_SIZE)

\* How far the break is from a multiple of PROGRAM_BREAK_DIVISOR.
Gap == IF brk % PROGRAM_BREAK_DIVISOR = 0 THEN 0
       ELSE PROGRAM_BREAK_DIVISOR - (brk % PROGRAM_BREAK_DIVISOR)

\* MUTANT: the loop over the top blocks starts one block late.
TopBlocksFewer(base) ==
  {base + i * MAX_ORDER_BLOCK_SIZE : i \in 1 .. INITIAL_MALLOC_BLOCK_AMOUNT - 1}

TopBlocks(base) ==
  {base + i * MAX_ORDER_BLOCK_SIZE : i \in 0 .. INITIAL_MALLOC_BLOCK_AMOUNT - 1}

\* The list of the highest order once every top block has been added.
TopList ==
  [blocks     |-> TopBlocks(brk + Gap),
   num_blocks |-> INITIAL_MALLOC_BLOCK_AMOUNT,
   num_bytes  |-> INITIAL_MALLOC_BLOCK_AMOUNT * Payload(MAX_ORDER)]

\* The arena cannot be had: the lists are reset, the break may have been
\* moved to the multiple already, and the next smalloc tries again.
FirstAllocatorFails ==
  /\ At("smalloc") /\ firstAlloc
  /\ brk' \in {brk} \cup {b \in {brk + Gap} : b <= BRK_LIMIT}
  /\ freeBlockListArray' = [k \in Orders |-> FL!EmptyList]
  /\ Fail
  /\ UNCHANGED <<mmapedList, counters, headers, live, firstAlloc, arena>>

FirstAllocator ==
  /\ At("smalloc") /\ firstAlloc
  /\ brk + Gap + PROGRAM_BREAK_DIVISOR <= BRK_LIMIT
  /\ brk' = brk + Gap + PROGRAM_BREAK_DIVISOR
  /\ arena' = brk + Gap
  /\ LET tops == TopBlocks(brk + Gap)
     IN /\ live' = live \cup tops
        /\ size' = [a \in Headers |-> IF a \in tops THEN Payload(MAX_ORDER) ELSE size[a]]
        /\ is_free' = [a \in Headers |-> a \in tops \/ is_free[a]]
  /\ freeBlockListArray' = [k \in Orders |-> IF k = MAX_ORDER THEN TopList
                                                          ELSE FL!EmptyList]
  /\ num_allocated_blocks' = num_allocated_blocks + INITIAL_MALLOC_BLOCK_AMOUNT
  /\ num_allocated_bytes' = num_allocated_bytes
                   + INITIAL_MALLOC_BLOCK_AMOUNT * Payload(MAX_ORDER)
  /\ firstAlloc' = FALSE
  /\ UNCHANGED <<mmapedList, client, call>>

Valid(n) == 0 < n /\ n <= MAX_SMALLOC_SIZE

SmallocReject ==
  /\ At("smalloc") /\ ~firstAlloc /\ ~Valid(call.n)
  /\ Fail
  /\ UNCHANGED <<heap, os>>

SmallocReady == At("smalloc") /\ ~firstAlloc /\ Valid(call.n)

Mapped == live \cap MMAP_ADDRS           \* the blocks with a mapping of their own
Whole(b) == size[b] + META               \* bytes of block b with its header

\* Address a has pages for n bytes and a header that no mapping has yet.
Unused(a, n) ==
  /\ a \notin live
  /\ \A m \in Mapped : a + n + META <= m \/ m + Whole(m) <= a

\* allocateByMmap: a mapping of its own for a large request.
SmallocMmap ==
  /\ SmallocReady /\ call.n >= MAX_ORDER_BLOCK_SIZE
  /\ \E a \in {m \in MMAP_ADDRS : Unused(m, call.n)} :
       /\ live' = live \cup {a}
       /\ size' = [size EXCEPT ![a] = call.n]
       /\ is_free' = [is_free EXCEPT ![a] = FALSE]
       /\ mmapedList' = FL!_addToList(mmapedList, a, call.n)
       /\ num_allocated_blocks' = num_allocated_blocks + 1
       /\ num_allocated_bytes' = num_allocated_bytes + call.n
       /\ SmallocReturns(a)
  /\ UNCHANGED <<freeBlockListArray, os>>

\* mmap refuses and its error value is handed on as if it were a block.
SmallocMmapFails ==
  /\ SmallocReady /\ call.n >= MAX_ORDER_BLOCK_SIZE
  /\ SmallocReturns(MAP_FAILED)
  /\ UNCHANGED <<heap, os>>

Tight == findTightOrder(call.n)

\* The orders from `from` up whose list has a block.
Stocked(from) == {k \in from .. MAX_ORDER : ~FL!isEmpty(freeBlockListArray[k])}

\* The order smalloc takes from: the tight one if it can, else the next.
LowestStocked(from) == Min(Stocked(from))

\* _popHead of the list of order k; b is its head.
PopHead(b, k) ==
  /\ freeBlockListArray' =
       [freeBlockListArray EXCEPT ![k] = FL!_removeFromList(@, b, size[b])]
  /\ is_free' = [is_free EXCEPT ![b] = FALSE]

SmallocSearch == SmallocReady /\ call.n < MAX_ORDER_BLOCK_SIZE

SmallocTight ==
  /\ SmallocSearch /\ ~FL!isEmpty(freeBlockListArray[Tight])
  /\ LET b == FL!Head(freeBlockListArray[Tight])
     IN PopHead(b, Tight) /\ SmallocReturns(b)
  /\ UNCHANGED <<mmapedList, counters, size, live, os>>

\* splitBlock(b, highOrder, tightOrder) starts, with highOrder-- done.
SmallocHigher ==
  /\ SmallocSearch
  /\ FL!isEmpty(freeBlockListArray[Tight]) /\ Stocked(Tight) # {}
  /\ LET high == LowestStocked(Tight)
         b    == FL!Head(freeBlockListArray[high])
     IN /\ PopHead(b, high)
        /\ call' = [call EXCEPT !.at = "split", !.blk = b, !.high = high - 1,
                                !.splits = high - Tight]
  /\ UNCHANGED <<mmapedList, counters, size, live, os, client>>

SmallocNone ==
  /\ SmallocSearch /\ Stocked(Tight) = {}
  /\ Fail
  /\ UNCHANGED <<heap, os>>

\* MUTANT: the loop of splitBlock stops one order early.
SplitsLeftEarly == call.high > Tight

\* The condition of the loop of splitBlock.
SplitsLeft == call.high >= Tight

\* MUTANT: one new block is counted however many halves there are.
CountOneBlock(d) ==
  /\ num_allocated_blocks' = num_allocated_blocks + (IF d > 0 THEN 1 ELSE d)
  /\ num_allocated_bytes' = num_allocated_bytes - d * META

\* d blocks more, so d headers more out of the same bytes.
CountBlocks(d) ==
  /\ num_allocated_blocks' = num_allocated_blocks + d
  /\ num_allocated_bytes' = num_allocated_bytes - d * META

\* MUTANT: highOrder-- is missing from the loop of splitBlock.
SameOrder(order) == order

\* highOrder--
NextLower(order) == order - 1

\* One turn of the loop of splitBlock: the right half goes to its list.
SplitStep ==
  /\ At("split") /\ SplitsLeft
  /\ LET left  == call.blk
         right == left + getOrderSize(call.high)
         bytes == Payload(call.high)
     IN /\ size' = [size EXCEPT ![left] = bytes, ![right] = bytes]
        /\ is_free' = [is_free EXCEPT ![left] = FALSE, ![right] = TRUE]
        /\ freeBlockListArray' = [freeBlockListArray EXCEPT
                               ![call.high] = FL!_addToList(@, right, bytes)]
        /\ live' = live \cup {right}
  /\ call' = [call EXCEPT !.high = NextLower(@)]
  /\ UNCHANGED <<mmapedList, counters, os, client>>

SplitReturn ==
  /\ At("split") /\ ~SplitsLeft
  /\ CountBlocks(call.splits)
  /\ SmallocReturns(call.blk)
  /\ UNCHANGED <<freeBlockListArray, mmapedList, headers, live, os>>

----------------------------------------------------------------------------
(* scalloc: smalloc's block is cleared; smalloc's NULL was answered above. *)

\* A write of n bytes at b dies if there is no block or too small a one.
WriteKills(b, n) ==
  \/ b = MAP_FAILED /\ Goto("segv")
  \/ b # MAP_FAILED /\ n > size[b] /\ Goto("overrun")

ScallocKilled ==
  /\ At("memset") /\ WriteKills(call.ret, call.n)
  /\ UNCHANGED <<heap, os, client>>

\* memset writes over the headers that are left in the block, too.
ScallocMemset ==
  /\ At("memset") /\ call.ret # MAP_FAILED /\ call.n <= size[call.ret]
  /\ LET Cleared(h) == Covered(h, call.ret, call.n)
     IN /\ size' = [h \in Headers |-> IF Cleared(h) THEN 0 ELSE size[h]]
        /\ is_free' = [h \in Headers |-> ~Cleared(h) /\ is_free[h]]
  /\ held' = held \cup {call.ret}
  /\ granted' = (granted \ Buried(call.ret, call.n)) \cup {call.ret}
  /\ Answer(call.ret, FALSE)
  /\ UNCHANGED <<freeBlockListArray, mmapedList, counters, live, os>>

----------------------------------------------------------------------------
(* sfree, for the client or for srealloc once it has moved the bytes       *)

findBuddyAddress(b) == findBuddyAddressBySize(b, size[b] + META)

\* sfree is over: the client learns nothing, srealloc answers its new block.
SfreeReturns ==
  IF call.op = "sfree" THEN Fail
  ELSE Answer(call.ret, TRUE) /\ Grant(call.ret, {})

SfreeNull ==
  /\ At("sfree") /\ call.blk = NULL
  /\ SfreeReturns
  /\ UNCHANGED <<heap, os>>

\* The header of a pointer whose pages were given back cannot be read.
Unmapped(b) == b \in MMAP_ADDRS \ live

SfreeSegv ==
  /\ At("sfree") /\ Unmapped(call.blk)
  /\ Goto("segv")
  /\ UNCHANGED <<heap, os, client>>

SfreeReadable == At("sfree") /\ call.blk # NULL /\ ~Unmapped(call.blk)

SfreeReleased ==
  /\ SfreeReadable /\ is_free[call.blk]
  /\ SfreeReturns
  /\ UNCHANGED <<heap, os>>

\* Giving a mapping back; its header is gone with its pages.
SfreeMunmap ==
  /\ SfreeReadable /\ ~is_free[call.blk]
  /\ LET b == call.blk
     IN /\ size[b] >= MAX_ORDER_BLOCK_SIZE
        /\ num_allocated_blocks' = num_allocated_blocks - 1
        /\ num_allocated_bytes' = num_allocated_bytes - size[b]
        /\ mmapedList' = FL!_removeFromList(mmapedList, b, size[b])
        /\ live' = live \ {b}
        /\ size' = [size EXCEPT ![b] = 0]
  /\ SfreeReturns
  /\ UNCHANGED <<freeBlockListArray, is_free, os>>

\* Block b is marked free and put on the list of its size.
MarkFree(b) ==
  /\ is_free' = [is_free EXCEPT ![b] = TRUE]
  /\ freeBlockListArray' = [freeBlockListArray EXCEPT
        ![findTightOrder(size[b])] = FL!_addToList(@, b, size[b])]

SfreeArena == SfreeReadable /\ ~is_free[call.blk]
              /\ size[call.blk] < MAX_ORDER_BLOCK_SIZE

\* A top block has no buddy; or the buddy is in use.
SfreeAlone ==
  /\ SfreeArena
  /\ findTightOrder(size[call.blk]) # MAX_ORDER
       => ~is_free[findBuddyAddress(call.blk)]
  /\ MarkFree(call.blk)
  /\ SfreeReturns
  /\ UNCHANGED <<mmapedList, counters, size, live, os>>

SfreeTriesMerge ==
  /\ SfreeArena
  /\ findTightOrder(size[call.blk]) # MAX_ORDER
  /\ is_free[findBuddyAddress(call.blk)]
  /\ Goto("merge")
  /\ UNCHANGED <<heap, os, client>>

\* MUTANT: the block that was being freed keeps its flag.
MarkMergedLeft(b, left) == is_free' = [is_free EXCEPT ![left] = TRUE]

\* Both headers say free after a merge, the swallowed one too.
MarkMerged(b, left) == is_free' = [is_free EXCEPT ![b] = TRUE, ![left] = TRUE]

\* mergeBlocks(b, buddy): two blocks of one size become the block of the
\* left one, on the list of the next order; right's header stays behind.
mergeBlocks(b, buddy) ==
  LET left  == Min({b, buddy})
      right == Max({b, buddy})
      order == findTightOrder(size[left])
      bytes == size[left] + size[right] + META
      FirstGone  == FL!_removeFromList(freeBlockListArray[order], buddy, size[buddy])
      BothGone   == IF is_free[b] THEN FL!_removeFromList(FirstGone, b, size[b])
                                  ELSE FirstGone
      Unlisted == [freeBlockListArray EXCEPT ![order] = BothGone]
  IN /\ freeBlockListArray' = [Unlisted EXCEPT
           ![findTightOrder(bytes)] = FL!_addToList(@, left, bytes)]
     /\ size' = [size EXCEPT ![left] = bytes]
     /\ MarkMerged(b, left)
     /\ live' = live \ {right}
     /\ CountBlocks(-1)
     /\ call' = [call EXCEPT !.blk = left]
     /\ UNCHANGED <<mmapedList, os, client>>

\* MUTANT: a free buddy is taken whatever its size.
CanMergeAnySize(b) == is_free[findBuddyAddress(b)]

\* MUTANT: the loop is left after its first merge.
CanMergeOnce(b) ==
  is_free[findBuddyAddress(b)] /\ size[findBuddyAddress(b)] = size[b] /\ ~is_free[b]

\* The test of the loop of sfree.
CanMerge(b) == is_free[findBuddyAddress(b)] /\ size[findBuddyAddress(b)] = size[b]

MergeStep ==
  /\ At("merge") /\ findTightOrder(size[call.blk]) < MAX_ORDER
  /\ CanMerge(call.blk)
  /\ mergeBlocks(call.blk, findBuddyAddress(call.blk))

\* MUTANT: the break statement is missing.
LoopOn == UNCHANGED <<client, call>>

\* The break statement of the loop, on line 312, and what follows it.
Break == SfreeReturns

\* The buddy is in use or in pieces: the block, which the merges have listed
\* already unless there was none, is free now.
MergeStop ==
  /\ At("merge")
  /\ LET b == call.blk
         k == findTightOrder(size[b])
     IN /\ k < MAX_ORDER /\ ~CanMerge(b)
        /\ is_free' = [is_free EXCEPT ![b] = TRUE]
        /\ freeBlockListArray' =
             IF b \in freeBlockListArray[k].blocks THEN freeBlockListArray
             ELSE [freeBlockListArray EXCEPT ![k] = FL!_addToList(@, b, size[b])]
  /\ Break
  /\ UNCHANGED <<mmapedList, counters, size, live, os>>

MergeTop ==
  /\ At("merge") /\ findTightOrder(size[call.blk]) = MAX_ORDER
  /\ SfreeReturns
  /\ UNCHANGED <<heap, os>>

----------------------------------------------------------------------------
(* srealloc                                                                *)

SreallocReject ==
  /\ At("srealloc") /\ ~Valid(call.n)
  /\ Fail
  /\ UNCHANGED <<heap, os>>

SreallocNull ==
  /\ At("srealloc") /\ Valid(call.n) /\ call.old = NULL
  /\ Goto("smalloc")
  /\ UNCHANGED <<heap, os, client>>

SreallocReady == At("srealloc") /\ Valid(call.n) /\ call.old # NULL

\* One of the two sizes is beyond the arena's blocks (lines 351-352).
Big == \/ size[call.old] > Payload(MAX_ORDER)
       \/ call.n > Payload(MAX_ORDER)

SreallocSame ==
  /\ SreallocReady /\ Big /\ call.n = size[call.old]
  /\ Answer(call.old, FALSE) /\ Grant(call.old, {})
  /\ UNCHANGED <<heap, os>>

\* MUTANT: the block leaves its list and keeps its flag.
TakeBackFlagKept(b, k) ==
  /\ is_free' = is_free
  /\ freeBlockListArray' = [freeBlockListArray EXCEPT
       ![k] = IF is_free[b] THEN FL!_removeFromList(@, b, size[b]) ELSE @]

\* A free block of order k is put in use, off its list.
TakeBack(b, k) ==
  /\ is_free' = [is_free EXCEPT ![b] = FALSE]
  /\ freeBlockListArray' = [freeBlockListArray EXCEPT
       ![k] = IF is_free[b] THEN FL!_removeFromList(@, b, size[b]) ELSE @]

\* The old block serves; if the client had released it, it is taken back.
SreallocReuse ==
  /\ SreallocReady /\ ~Big /\ call.n <= size[call.old]
  /\ TakeBack(call.old, findTightOrder(size[call.old]))
  /\ Answer(call.old, FALSE) /\ Grant(call.old, {})
  /\ UNCHANGED <<mmapedList, counters, size, live, os>>

SreallocGrows == SreallocReady /\ ~Big /\ call.n > size[call.old]

\* MUTANT: only the buddy's size is looked at.
canAllocateOverUsed(b, requestedOrder) ==
  \A k \in findTightOrder(size[b]) .. requestedOrder - 1 :
    size[findBuddyAddressBySize(Ancestor(b, k), getOrderSize(k))] = Payload(k)

\* canAllocateWithMerges: at every order on the way up, the buddy of what
\* the merges would have made by then is a whole free block.  (srealloc asks
\* only for an order above b's: the code's final `return false` is not met.)
canAllocateWithMerges(b, requestedOrder) ==
  \A k \in findTightOrder(size[b]) .. requestedOrder - 1 :
    LET buddy == findBuddyAddressBySize(Ancestor(b, k), getOrderSize(k))
    IN is_free[buddy] /\ size[buddy] = Payload(k)

SreallocMoves ==
  /\ \/ SreallocReady /\ Big /\ call.n # size[call.old]
     \/ SreallocGrows /\ ~canAllocateWithMerges(call.old, Tight)
  /\ Goto("smalloc")
  /\ UNCHANGED <<heap, os, client>>

SreallocMerges ==
  /\ SreallocGrows /\ canAllocateWithMerges(call.old, Tight)
  /\ IF is_free[call.old] THEN UNCHANGED <<is_free, freeBlockListArray>>
                          ELSE MarkFree(call.old)
  /\ Goto("grow")
  /\ UNCHANGED <<mmapedList, counters, size, live, os, client>>

\* mergeAndStopAtOrder
GrowStep ==
  /\ At("grow") /\ findTightOrder(size[call.blk]) < Tight
  /\ mergeBlocks(call.blk, findBuddyAddress(call.blk))

GrowReturn ==
  /\ At("grow") /\ findTightOrder(size[call.blk]) >= Tight
  /\ TakeBack(call.blk, Tight)
  /\ Answer(call.blk, FALSE) /\ Grant(call.blk, {call.old})
  /\ UNCHANGED <<mmapedList, counters, size, live, os>>

\* smalloc has answered: all the bytes of the old block are copied, and the
\* old block is released.
SreallocMemmove ==
  /\ At("memmove") /\ call.ret # MAP_FAILED /\ size[call.old] <= size[call.ret]
  /\ LET Copied(h) == Covered(h, call.ret, size[call.old])
         From(h) == IF Copied(h) THEN h - call.ret + call.old ELSE h
     IN /\ size' = [h \in Headers |-> size[From(h)]]
        /\ is_free' = [h \in Headers |-> is_free[From(h)]]
  /\ granted' = granted \ Buried(call.ret, size[call.old])
  /\ call' = [call EXCEPT !.at = "sfree", !.blk = call.old]
  /\ held' = held \ {call.old}
  /\ UNCHANGED <<freeBlockListArray, mmapedList, counters, live, os>>

SreallocKilled ==
  /\ At("memmove") /\ WriteKills(call.ret, size[call.old])
  /\ UNCHANGED <<heap, os, client>>

----------------------------------------------------------------------------
(* The getters, and what the tests compare their answers with              *)

_num_free_blocks == SumFunction([k \in Orders |-> freeBlockListArray[k].num_blocks])
_num_free_bytes == SumFunction([k \in Orders |-> freeBlockListArray[k].num_bytes])
_num_meta_data_bytes == num_allocated_blocks * META

\* The five getters against the numbers of free and of used blocks of each
\* order, of mapped blocks and of their bytes: the bytes of the blocks are
\* those of the arena and the mappings, less a header for each arena block.
verify_block_by_order(free, used, big_blocks_count, big_blocks_size) ==
  LET arena_blocks   == SumFunction([k \in Orders |-> free[k] + used[k]])
      total_blocks   == arena_blocks + big_blocks_count
      total_free     == SumFunction(free)
      free_with_meta == SumFunction([k \in Orders |-> free[k] * getOrderSize(k)])
  IN /\ num_allocated_blocks = total_blocks
     /\ num_allocated_bytes =
          IF total_blocks = 0 THEN 0
          ELSE big_blocks_size + PROGRAM_BREAK_DIVISOR - arena_blocks * META
     /\ _num_free_blocks = total_free
     /\ _num_free_bytes = free_with_meta - total_free * META
     /\ _num_meta_data_bytes = META * total_blocks

----------------------------------------------------------------------------

\* The steps of a call under way.
Step ==
  \/ FirstAllocatorFails \/ FirstAllocator
  \/ SmallocReject \/ SmallocMmap \/ SmallocMmapFails
  \/ SmallocTight \/ SmallocHigher \/ SmallocNone
  \/ SplitStep \/ SplitReturn
  \/ ScallocMemset \/ ScallocKilled
  \/ SfreeNull \/ SfreeSegv \/ SfreeReleased \/ SfreeMunmap
  \/ SfreeAlone \/ SfreeTriesMerge \/ MergeStep \/ MergeStop \/ MergeTop
  \/ SreallocReject \/ SreallocNull \/ SreallocSame \/ SreallocReuse
  \/ SreallocMoves \/ SreallocMerges \/ GrowStep \/ GrowReturn
  \/ SreallocMemmove \/ SreallocKilled

Dead == At("segv") \/ At("overrun")

\* A process that has died stays dead.
Halted == Dead /\ UNCHANGED vars

Next == Call \/ ClientWrites \/ ForeignSbrk \/ Step \/ Halted

\* What can happen, and what then does: a handler runs to its end on the
\* caller's thread, while the client need not call.
Safety == Init /\ [][Next]_vars
Spec   == Safety /\ WF_vars(Step)

----------------------------------------------------------------------------
(* Properties                                                              *)

List == [blocks : SUBSET Headers, num_blocks : Int, num_bytes : Int]
Places == {"idle", "smalloc", "split", "memset", "sfree", "merge",
           "srealloc", "grow", "memmove", "segv", "overrun"}

Calls == [at : Places, op : {"none", "smalloc", "scalloc", "srealloc", "sfree"},
          old : {NULL} \cup Headers, n : Nat,
          ret : {NULL, MAP_FAILED} \cup Headers, moved : BOOLEAN,
          blk : {NULL} \cup Headers, high : Int, splits : Int]

HeapType ==
  /\ freeBlockListArray \in [Orders -> List] /\ mmapedList \in List
  /\ num_allocated_blocks \in Int /\ num_allocated_bytes \in Int
  /\ size \in [Headers -> Nat] /\ is_free \in [Headers -> BOOLEAN]
  /\ live \subseteq Headers
  /\ firstAlloc \in BOOLEAN /\ arena \in {NULL} \cup Slots

\* Every variable keeps its kind; a header's size field is never negative,
\* every address the code computes for a block is one of a header.
TypeOK ==
  /\ HeapType /\ brk \in 1 .. BRK_LIMIT /\ call \in Calls
  /\ held \subseteq Headers /\ granted \subseteq Headers

Idle == At("idle")
Blocks == live \cap Slots                \* the blocks of the arena
Covers(b, a) == b <= a /\ a < b + Whole(b)
ArenaSlots == {a \in Slots : arena # NULL /\ arena <= a
                             /\ a < arena + PROGRAM_BREAK_DIVISOR}

\* The blocks tile the arena, each a power-of-two block aligned to its own
\* size: no split or merge loses, doubles or misplaces a byte, at any
\* iteration of their loops.
Shaped == \A b \in Blocks : /\ b \in ArenaSlots
                            /\ \E k \in Orders : /\ size[b] = Payload(k)
                                                 /\ b % getOrderSize(k) = 0
Apart  == \A a, b \in Blocks : a < b => a + Whole(a) <= b
Filled == \A a \in ArenaSlots : \E b \in Blocks : Covers(b, a)
Tiling == Shaped /\ Apart /\ Filled

\* Whenever the code computes a buddy, for the block itself or for what the
\* block would have become after some merges, a block starts there, not
\* larger: the header it then reads is a live one.
BuddyIsLive ==
  \A b \in Blocks : \A k \in findTightOrder(size[b]) .. MAX_ORDER - 1 :
    LET buddy == findBuddyAddressBySize(Ancestor(b, k), getOrderSize(k))
    IN buddy \in Blocks /\ size[buddy] <= Payload(k)

\* Each list holds exactly the free blocks of its order, once, and its two
\* counters (the getters' answers) agree; the same for the mapped blocks.
FreeBlocks(k) == {b \in Blocks : is_free[b] /\ size[b] = Payload(k)}
Listed == \A k \in Orders : freeBlockListArray[k].blocks = FreeBlocks(k)
ListsExact ==
  /\ Listed
  /\ \A k \in Orders :
       LET list == freeBlockListArray[k]
       IN /\ list.num_blocks = Cardinality(FreeBlocks(k))
          /\ list.num_bytes = Cardinality(FreeBlocks(k)) * Payload(k)
  /\ mmapedList.blocks = Mapped
  /\ mmapedList.num_blocks = Cardinality(Mapped)
  /\ mmapedList.num_bytes = SumFunctionOnSet(size, Mapped)

\* The five getters, between calls, give what verify_block_by_order of
\* malloc_3_test_basic.cpp:67-89 demands of the blocks there are.
UsedBlocks(k) == {b \in Blocks : ~is_free[b] /\ size[b] = Payload(k)}
CountersExact ==
  Idle => verify_block_by_order([k \in Orders |-> Cardinality(FreeBlocks(k))],
                                [k \in Orders |-> Cardinality(UsedBlocks(k))],
                                Cardinality(Mapped),
                                SumFunctionOnSet(size, Mapped))

\* Between calls the blocks in use are the client's: none is lost (leaked
\* by a failing or moving srealloc), none the client owns can be handed out.
Used == {b \in live : ~is_free[b]}
HeldAreUsed == Idle => held = Used

\* Between calls no two free buddies are left unmerged.
NoFreeBuddies ==
  Idle => \A b \in Blocks :
            is_free[b] /\ size[b] < Payload(MAX_ORDER) =>
              ~(/\ is_free[findBuddyAddress(b)]
                /\ size[findBuddyAddress(b)] = size[b])

\* A valid request for an arena block is refused only when every aligned
\* region of the order it needs has a byte in use: fragmentation by missed
\* merges never causes a refusal.
RefusedOnlyIfFull ==
  (Idle /\ call.op \in {"smalloc", "scalloc", "srealloc"} /\ call.ret = NULL
        /\ arena # NULL /\ Valid(call.n) /\ call.n <= Payload(MAX_ORDER))
  => \A a \in ArenaSlots : a % getOrderSize(Tight) = 0 =>
       \E b \in Blocks : /\ ~is_free[b]
                         /\ b < a + getOrderSize(Tight) /\ a < b + Whole(b)

\* sfree of a pointer already released finds is_free set in whatever header
\* is left there, be it swallowed by a merge, as long as its bytes belong to
\* no other block of the client.
ReleasedLooksFree ==
  Idle => \A p \in (granted \cap Slots) \ held : ~InsideHeld(p) => is_free[p]

\* The block smalloc and scalloc pick is of the tightest order.
TightFit ==
  (Idle /\ call.op \in {"smalloc", "scalloc"} /\ call.ret \in Slots)
  => \A k \in Orders : call.n <= Payload(k) => size[call.ret] <= Payload(k)

\* The halves splitBlock makes meet empty lists: their next and prev fields,
\* which splitBlock does not initialise, are never linked to another block.
HalvesMeetEmptyLists ==
  At("split") => \A k \in Tight .. call.high : freeBlockListArray[k].blocks = {}

\* The regions the client owns never overlap and change one at a time.
Regions == INSTANCE Heap WITH owned <- [p \in held |-> Whole(p)]
ImplementsHeap == Regions!Spec

\* No step touches the header of a block the client holds, takes it away or
\* lets it overlap another, except those of srealloc on that block.
HeldUntouched ==
  [][\A p \in held :
       \/ p = call.old /\ (At("srealloc") \/ At("grow") \/ At("memmove"))
       \/ p = call'.old /\ call'.at = "sfree"
       \/ /\ p \in held' /\ p \in live'
          /\ size'[p] = size[p] /\ is_free'[p] = is_free[p]]_vars

\* Every call returns, or kills the process: the loops of splitBlock, sfree
\* and mergeAndStopAtOrder come to an end.
CallReturns == ~Idle ~> (Idle \/ Dead)

----------------------------------------------------------------------------
(* The inductive invariant behind Tiling, BuddyIsLive and Listed           *)

\* The arena exists once firstAlloc is cleared, at a multiple of the largest
\* block, below the break's limit.
ArenaOK ==
  IF firstAlloc THEN arena = NULL /\ live = {}
  ELSE /\ arena \in Slots /\ arena % MAX_ORDER_BLOCK_SIZE = 0
       /\ arena + PROGRAM_BREAK_DIVISOR <= BRK_LIMIT

\* sfree and srealloc tell a mapped block by its size; it is never free.
MappedAreBig == \A a \in Mapped : size[a] >= MAX_ORDER_BLOCK_SIZE

\* A pointer sfree can be asked about: its header is that of a block, or is
\* one that a merge left behind saying free, or its pages are gone.
Known(p) == p \in MMAP_ADDRS \/ p \in live \/ (p \in Slots /\ is_free[p])

HeapOK == ArenaOK /\ Tiling /\ Listed /\ MappedAreBig
GrantedKnown == \A p \in granted : Known(p)

\* What each place of a handler relies on.
SplitOK == At("split") =>
  /\ call.blk \in Blocks /\ ~is_free[call.blk]
  /\ call.high \in -1 .. MAX_ORDER - 1 /\ Tight <= call.high + 1
  /\ size[call.blk] = Payload(call.high + 1)
SfreeOK == At("sfree") => call.blk = NULL \/ Known(call.blk)
MergeOK == At("merge") => call.blk \in Blocks
GrowOK == At("grow") =>
  /\ call.blk \in Blocks /\ is_free[call.blk]
  /\ findTightOrder(size[call.blk]) <= Tight
  /\ canAllocateWithMerges(call.blk, Tight)
OpOK ==
  /\ call.at \in {"smalloc", "split"} => call.op \in {"smalloc", "scalloc", "srealloc"}
  /\ call.at \in {"srealloc", "grow", "memmove"} => call.op = "srealloc"
  /\ call.at = "memset" => call.op = "scalloc"
  /\ call.at \in {"sfree", "merge"} => call.op \in {"sfree", "srealloc"}
OldOK ==
  /\ call.at = "memmove" => call.old # NULL
  /\ call.at = "srealloc" => call.blk = call.old
  /\ (/\ call.op = "srealloc" /\ call.old # NULL
      /\ call.at \in {"smalloc", "split", "memmove", "srealloc"})
     => call.old \in live
RetOK ==
  /\ call.at \in {"memset", "memmove"} => call.ret = MAP_FAILED \/ call.ret \in live
  /\ (call.at \in {"sfree", "merge"} /\ call.op # "sfree") => Known(call.ret)

CallOK == SplitOK /\ SfreeOK /\ MergeOK /\ GrowOK /\ OpOK /\ OldOK /\ RetOK
IInv == TypeOK /\ HeapOK /\ GrantedKnown /\ CallOK

----------------------------------------------------------------------------
(* The inductive invariant behind what a call promises (given IInv)        *)

\* findTightOrder has an order whose payload holds n, or n is mapped.
NotInHole(n) == n <= Payload(MAX_ORDER) \/ n >= MAX_ORDER_BLOCK_SIZE

\* No request has a size of lines 219 and 471 that falls between the two.
NoHoleRequests ==
  \A n \in SIZES \cup {0} :
    NotInHole(n) /\ \A num \in NUMS \cup {1} : NotInHole(TotalSize(num, n))

Releases == call.at \in {"sfree", "merge"}

\* The block srealloc has moved to, while it releases the old one.
MovedTo == IF call.op = "sfree" THEN {} ELSE {call.ret}

\* At every step each block in use has one owner: the client, or the handler
\* that has found it and not given it away yet or is about to free it.
OwnersOK ==
  /\ call.at \in {"idle", "smalloc", "srealloc"} => Used = held
  /\ At("split") => Used = held \cup {call.blk} /\ call.blk \notin held
  /\ call.at \in {"memset", "memmove"} =>
       Used = held \cup ({call.ret} \ {MAP_FAILED}) /\ call.ret \notin held
  /\ Releases => /\ Used \ {call.blk} = held \cup MovedTo
                 /\ call.blk \notin held \cup MovedTo /\ MovedTo \cap held = {}
  /\ At("grow") => Used = held \ {call.old}

\* The loop of sfree gets to the highest order only by merging.
TopIsFree ==
  At("merge") /\ size[call.blk] = Payload(MAX_ORDER) => is_free[call.blk]

\* What srealloc moves to is not the block it was given, even a released one.
OldApart ==
  (call.op = "srealloc" /\ call.old # NULL) =>
    /\ At("smalloc") /\ is_free[call.old] => size[call.old] < call.n
    /\ At("split") => call.old # call.blk
    /\ At("memmove") => call.old # call.ret

\* Mappings are in use and share no byte.
MappingsOK ==
  \A a \in Mapped :
    /\ ~is_free[a]
    /\ \A b \in Mapped : a < b => a + Whole(a) <= b

\* What is found is a block with room for the request, of the tightest order.
ResultOK ==
  /\ NotInHole(call.n)
  /\ At("split") \/ At("grow") => call.n <= Payload(MAX_ORDER)
  /\ call.op = "sfree" \/ call.at \in {"smalloc", "split", "srealloc", "grow"}
     => call.ret = NULL
  /\ call.ret \in Headers =>
       /\ call.ret \in Used /\ call.n <= size[call.ret]
       /\ call.op \in {"smalloc", "scalloc"} /\ call.ret \in Slots
          => size[call.ret] = Payload(Tight)

\* A refusal leaves the lists from the tight order up as it found them.
RefusedOK ==
  (Idle /\ call.op \in {"smalloc", "scalloc", "srealloc"} /\ call.ret = NULL
        /\ arena # NULL /\ Valid(call.n) /\ call.n <= Payload(MAX_ORDER))
  => Stocked(Tight) = {}

\* Only the block that the merges are at may have a free buddy.
AtMerge == {b \in Headers : (At("merge") \/ At("grow")) /\ b = call.blk}
MergedOK ==
  \A b \in Blocks \ AtMerge : is_free[b] /\ size[b] < Payload(MAX_ORDER) =>
    \/ findBuddyAddress(b) \in AtMerge
    \/ ~is_free[findBuddyAddress(b)]
    \/ size[findBuddyAddress(b)] # size[b]

CallInv == /\ OwnersOK /\ TopIsFree /\ OldApart /\ MappingsOK
           /\ ResultOK /\ HalvesMeetEmptyLists /\ RefusedOK /\ MergedOK

----------------------------------------------------------------------------
(* The inductive invariant behind ListsExact and CountersExact (given IInv) *)

\* The blocks splitBlock has made so far and not yet counted: it adds them to
\* the counter all at once when its loop is over.
Uncounted == IF At("split") THEN call.splits - (call.high + 1 - Tight) ELSE 0

CountInv ==
  /\ ListsExact
  /\ num_allocated_blocks + Uncounted = Cardinality(live)
  /\ num_allocated_bytes =
       SumFunctionOnSet(size, Mapped) + (IF firstAlloc THEN 0 ELSE PROGRAM_BREAK_DIVISOR)
         - (num_allocated_blocks - Cardinality(Mapped)) * META

----------------------------------------------------------------------------
(* How long a call takes                                                   *)

\* A bound on the steps that the call in progress has left: each turn of a
\* loop goes up or down one order, and each place leads to later ones only.
StepsLeft ==
  CASE At("srealloc") -> 2 * MAX_ORDER + 7
    [] At("grow") -> Tight + 1 - findTightOrder(size[call.blk])
    [] At("smalloc") -> 2 * MAX_ORDER + (IF firstAlloc THEN 6 ELSE 5)
    [] At("split") -> MAX_ORDER + 5 + call.high - Tight
    [] At("memmove") -> MAX_ORDER + 3
    [] At("memset") -> 1
    [] At("sfree") -> MAX_ORDER + 2
    [] At("merge") -> MAX_ORDER + 1 - findTightOrder(size[call.blk])
    [] OTHER -> 0

\* No handler goes on for ever: each of its steps leaves fewer to be taken,
\* and none is left to take when it ends.  (The three loops over the orders,
\* lines 303-316, 588-605 and 641-650, terminate.)
CallsShorten == [][~Idle => 0 <= StepsLeft' /\ StepsLeft' < StepsLeft]_vars

----------------------------------------------------------------------------
(* What the documentation says and the code does not do                    *)

\* malloc_3.cpp:199 "Searches for a free block with at least 'size' bytes".
GrantFits == (Idle /\ call.ret \in Headers) => call.n <= size[call.ret]

\* malloc_3.cpp:204-207: on failure smalloc returns NULL.
FailureIsNull == Idle => call.ret # MAP_FAILED

\* malloc_3.cpp:322-323: srealloc "copies content of oldp into the new
\* allocated space", whenever that is not the old one.
ReallocKeepsContents ==
  (Idle /\ call.op = "srealloc" /\ call.old # NULL /\ call.ret # NULL)
  => call.ret = call.old \/ call.moved

\* Shrinking works (malloc_3_test_srealloc_cases.cpp:139-144): srealloc
\* copies no more bytes than the new block has.
CopyFits == ~At("overrun")

\* malloc_3.cpp:271 "If 'p' is NULL or already released, simply returns".
ReleaseAgainReturns == ~(At("segv") /\ call.op = "sfree")
=============================================================================
