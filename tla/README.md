# A verification development for HW4_OS

Three memory allocators in C++, two of them with the same four functions
(`smalloc`, `scalloc`, `sfree`, `srealloc`) and six getters of statistics:

- `src/malloc_1.cpp`: `smalloc` only, one `sbrk` per call;
- `src/malloc_2.cpp`: a sorted list of all blocks, first fit, no splitting;
- `src/malloc_3.cpp`: a buddy allocator over 32 blocks of 128 KiB, with `mmap`
  for what is larger.

`malloc_3.cpp` carries almost all the logic, so most of the work is about it.
The development has TLA+ modules of the three programs and of the test cases of
the third, TLC runs that check them on small instances, and TLAPS proofs, for
every value of the constants, of the safety properties that those runs check of
the three allocators and of the linked lists: that each allocator implements the
same abstract `Heap`, that `malloc_3` with its twelve linked lists does what it would
do with sets, until it follows a word that is no pointer, and that every loop shortens. Section 4 says
what the proofs rest on and what is left to TLC.

## 1. Inventory

### 1.1 Components

| component | state | operations | interacts with |
|---|---|---|---|
| buddy arithmetic (`malloc_3.cpp` 465-481, 634-660) | none | `findTightOrder`, `getOrderSize`, `findBuddyAddress`, `findBuddyAddressBySize`, `pickLeftBlock` | called by every function of malloc_3 |
| `MetadataList` (35-155) | `list_head`, `list_tail`, `num_blocks`, `num_bytes`; `next`, `prev` in the headers | `_addToList`, `_removeFromList`, `_popHead`, `isEmpty`, `_exists_in_list` | eleven lists of free blocks and one of mapped blocks |
| buddy allocator (200-418, 485-652) | `firstAlloc`, `freeBlockListArray[11]`, `mmapedList`, two global counters; `size` and `is_free` in the header of every block | `firstAllocator`, `smalloc` (+ `splitBlock`, `allocateByMmap`), `scalloc`, `sfree` (+ `mergeBlocks`), `srealloc` (+ `canAllocateWithMerges`, `mergeAndStopAtOrder`) | `sbrk`, `mmap`, `munmap`; the lists; the client |
| getters (420-460) | none | sums of the lists' counters and the globals | read what the others keep |
| first-fit allocator `malloc_2.cpp` | list of all blocks, four counters | the four functions | `sbrk` |
| bump allocator `malloc_1.cpp` | none | `smalloc` | `sbrk` |
| `updatedTests/malloc_3_test_basic.cpp` | none | 21 test cases, each in a process of its own | `malloc_3` through its functions and getters |
| the other tests, CMake files, the diagrams | none | what the authors expect of the allocators | read, not modelled |

### 1.2 What is hard about this code

Nothing runs concurrently: the allocators are sequential and not
thread-safe, and there are no locks. The difficulty is elsewhere:

- **Long sequences of legal calls.** The shape of the heap is the result of
  every split and merge since the first call. Nothing in the code checks that
  the blocks tile the arena, that lists and flags agree, that the counters are
  right or that free buddies are always merged.
- **Headers read on trust.** `sfree` and `srealloc` read the header at a
  computed buddy address. Nothing says that a block starts there: it could be
  a header that an earlier merge swallowed, or somebody's payload. A second
  `sfree` of a pointer reads a header that may be a left-over.
- **Checks that are used later.** `canAllocateWithMerges` looks at the whole
  way up before the first merge; `mergeAndStopAtOrder` then merges blindly.
- **Failures half way.** The first allocation takes two `sbrk` calls, either of
  which may fail, and is run again later; `mmap` may fail; `srealloc` may fail
  after it has looked for space.
- **Boundaries.** Sizes next to a payload, next to the `mmap` threshold, and
  between the two; the last order, which has no buddy.
- **Link fields that nobody wrote.** `splitBlock` and `_addToList` leave some of
  the link fields of a block as they find them, and they may hold bytes that a
  client wrote there.
- **Loops over orders and lists.** Termination rests on each merge doubling the
  block, and on the links having no cycle.

`PROJECT.json` lists each of these at its line under "hazards".

### 1.3 What makes each component correct

- buddy arithmetic: the order is the tightest whose payload holds the request;
  toggling one bit of an aligned address gives the other half of the parent.
- lists: the links go through the members in the order of addresses, both
  ways; the two counters; the loops over them end.
- allocator: the blocks tile the arena; the lists hold the free blocks; the
  counters are those of the blocks; what the client holds is never touched,
  given away or lost; a request is refused only if there is no room; every
  call returns.
- first fit: the list holds every block; the counters are exact (two of them are
  not, finding 6); a request is refused only if no
  free block is large enough.
- all three: the regions their client owns never overlap (`Heap`).

## 2. Modules

| module | what it is | code |
|---|---|---|
| `BuddyGeometry` | orders, sizes, payloads, buddies as operators; the constants and their assumptions | 16-22, 465-481, 585-660 |
| `FreeList` | what a `MetadataList` promises: a set handed out lowest address first, with two counters | 35-155 |
| `Malloc3` | the allocator, its properties and its inductive invariant | all of `malloc_3.cpp` but the lists |
| `MetadataLinks` | what each operation of a list writes into head, tail, `next`, `prev` | 35-155; also `malloc_2.cpp` 26-72 |
| `MetadataList` | the list as a state machine, its loops step by step | 35-155 |
| `FreeListMachine` | the promise of `FreeList` as a state machine | 35-155, as callers see it |
| `Malloc3Links` | `Malloc3` on twelve linked lists whose links are memory | the list operations of every handler |
| `Malloc3Tests` | 21 test cases as programs of calls and checks, on `Malloc3` | `malloc_3_test_basic.cpp` |
| `Malloc2` | first fit: the list of all blocks, four counters | `malloc_2.cpp` |
| `Malloc1` | one `sbrk` per call | `malloc_1.cpp` |
| `Heap` | abstract specification of any allocator: the client's regions never overlap and change one at a time | the contract in the comments before each function |
| `Malloc12` | the two small allocators side by side, for a run and for the proofs | |
| `MCMalloc3`, `MCMalloc3Links`, `MCMalloc3Tests`, `MCMetadataList`, `MCMalloc12` + `.cfg` files | instances for TLC | |
| `FiniteSums` | lemmas: induction over a finite set, sums of a function over one | |
| `Malloc3HeapProofs` | multiples, alignment, siblings, tight orders; one lemma per operation on the heap | |
| `Malloc3Proofs` | `IInv`: one lemma per group of actions, and the theorems; how long a call takes | |
| `Malloc3OwnersProofs` | who holds which block; what a step leaves alone; refinement of `Heap` | |
| `Malloc3PromisesProofs` | what a call promises its caller; the lists' counts and the getters | |
| `Malloc3LinksProofs` | the twelve lists as links in memory: one lemma per operation of a list, one per step of a handler | |
| `MetadataListProofs` | one lemma per operation on the links, one per action, and the theorems | |
| `Malloc12Proofs` | `BlockInv` of `Malloc2`, its counters, both refinements of `Heap` | |

`Malloc3` EXTENDS `BuddyGeometry` and uses `FreeList`. `Malloc3Links` EXTENDS
`Malloc3` and uses `MetadataLinks`, as do `MetadataList` and `Malloc2`.
`MetadataList` implements `FreeListMachine`; `Malloc3`, `Malloc2` and `Malloc1`
implement `Heap`. The proof modules about `Malloc3` extend one another in the
order of the table; the last of them extends `Malloc3Links` as well.

### 2.1 How `Malloc3` corresponds to the code

*Pointers.* A block is named by the address of its header; the code adds and
subtracts `sizeof(MallocMetadata)` at its boundary. `size` and `is_free` are
memory: functions of the address, and a header that a merge swallows keeps its
last values, as in the code. `NULL` is 0 and `MAP_FAILED` is -1.

*Units.* Addresses and sizes are in one unit. In the instances it is 16 bytes:
a block of order 0 has 8 units (128 bytes) and a header 2 (32 bytes), as in the
code. The number of orders, of top blocks and the limits are smaller. The
proofs hold for any values that satisfy the assumptions.

*Calls.* The client picks a function and arguments (`Call`) and the handler
runs as a sequence of steps: one per branch, and one per iteration of a loop.
The record `call` holds what the handler's local variables hold: where it
stands (`at`), the arguments, and the block in hand (`blk`), `highOrder`
(`high`) and `amountOfSplits` (`splits`). `srealloc` and `scalloc` call
`smalloc` and `sfree` by going to their places; `SmallocReturns` and
`SfreeReturns` give the result to whoever called. So the invariants are
checked inside the loops as well as between calls, which is where a merge is
half done.

| steps | code |
|---|---|
| `FirstAllocator`, `FirstAllocatorFails` | 209-214, 521-560; either `sbrk` may fail, the break may have been moved |
| `SmallocReject`, `SmallocTight`, `SmallocHigher`, `SmallocNone` | 215-244 |
| `SmallocMmap`, `SmallocMmapFails` | 561-580 |
| `SplitStep`, `SplitReturn` | `splitBlock`, 581-610 |
| `ScallocMemset`, `ScallocKilled` | 256-266 |
| `SfreeNull`, `SfreeReleased`, `SfreeMunmap`, `SfreeAlone`, `SfreeTriesMerge`, `SfreeSegv` | 274-303 |
| `MergeStep`, `MergeStop`, `MergeTop` | the loop of `sfree`, 303-316, with `mergeBlocks`, 485-518 |
| `SreallocReject`, `SreallocNull`, `SreallocSame`, `SreallocReuse`, `SreallocMoves`, `SreallocMemmove`, `SreallocKilled`, `SreallocMerges` | 338-407 |
| `GrowStep`, `GrowReturn` | `mergeAndStopAtOrder`, 641-652, and 408-416 |

*The client* (external) passes to `sfree` `NULL`, a pointer it owns, or one it
has released, unless the bytes there belong to another of its blocks
(`Releasable`): line 271 promises that releasing twice is harmless. It passes to
`srealloc` `NULL`, a pointer it owns, or one it released that still is a block
(lines 379-382 and 404 serve that case). Between calls it writes its bytes into
its blocks (`ClientWrites`); so do `memset` and `memmove`. What matters to the
allocator is where those bytes meet a header that an earlier merge or split left
inside the block: its fields then read as one of `PATTERNS` (a block in use, or a
free one), zero, or a copy. A pointer whose old header has been overwritten in
this way is a payload address now, and is not released again. `held` and
`granted` are ghosts. `scalloc` computes `TotalSize` modulo `SIZE_T_RANGE`.

*The operating system* (external). `sbrk` is refused beyond `BRK_LIMIT`
or at any time; other code of the process may move the break before the arena
exists (`ForeignSbrk`); later `malloc_3` never looks at the break again. `mmap`
returns an address of `MMAP_ADDRS` or fails; the pages it gives are in no other
mapping, however large the request (`Unused`).

*Death.* A handler that reads unmapped memory goes to "segv", one that copies
beyond its destination to "overrun"; both stay (`Halted`). Deadlock checking is on.

*The getters* are operators; `verify_block_by_order` is the function with which
the test cases compare all of them with the number of blocks of each order.

*Ghosts.* `live` (addresses where a block starts), `arena` (where the arena
starts), `held`, `granted`, and `call.moved` (whether the bytes were copied).

*Closed forms.* The `for` loop of `findTightOrder` is a minimum over orders; the
walk of `canAllocateWithMerges` is a quantifier over the orders on the way, the
repeated `pickLeftBlock` being `Ancestor`; the loop of `firstAllocator` is one
assignment. All loops that change the heap one block at a time are steps.

Operators whose comment starts with `MUTANT` are seeded faults: variants of the
next definition with a plausible mistake (a dropped test, a loop that stops one
early, a missing reset). They are not used by the specification. Each
property is known to be violated once one of them takes the place of the
definition; `PROJECT.json` pairs them under "mutants".

### 2.2 The linked lists

`MetadataList` has one action per operation and one per turn of the loops of
`_addToList` and `_exists_in_list`. Links are functions of the address.
`MetadataLinks` has the straight-line code, branch by branch: `_addToList` into
an empty list writes no link of the block, at either end it writes one, and
`_removeFromList` runs its three stages one after the other, each on what the
last one left. It assumes of its caller that the links of an added block are NULL.

`Malloc3Links` is where that assumption is examined. The heads, tails and link fields
of all twelve lists are one memory, and the handlers decide by them: `smalloc` looks
for an order whose `head` is not NULL (`Headed`) and takes that head, whatever it is
(`LinkedPop`); `sfree`, when its loop stops, walks along the list link by link
(`ExistsBegins`, `ExistsWalks`, and `LinkedMergeStop` by what the walk has found). The
halves of a merge leave their list one by one, the top blocks are unlinked and added
from the highest down (`TopsLinked`, one `JoinTop` per turn of the loop). The rest of
each step (sizes, flags, counters, the client) is shared with `Malloc3`, and the sets
of `Malloc3` are carried along: where an address is inserted is read from them (the walk
of `_addToList` is a closed form here; turn by turn it is in `MetadataList`).

`ClientWritesLinks`, `LinkedMemset` and `LinkedMemmove` write over the link fields of old
headers, with words from `LINK_WORDS`: NULL, or `GARBAGE`, which is no pointer. Such a word
enters a list when `splitBlock` makes a block there, as it leaves `next` and `prev` of a
right half alone (finding 7). `PopStrays`, `RemovalStrays` and `MergeStrays` say when an
operation follows one: `_popHead` writes through the new head, `_removeFromList` through
the neighbours. That step sets `astray`, after which nothing is said of the
program: the write through the word may fault or hit any memory. Between the
two the lists are examined in full:

- `LinksAgree`: followed from either end, each list is the set that `Malloc3` takes it
  for, in the order of addresses; a word of a client's is only where the list ends
  (in `next` of the tail, in `prev` of the head); a header of a block in use has NULL
  links. Of headers that are no block's nothing is asked.
- `ImplementsSets`: the steps are those of `Malloc3`. It is not a conjunct of the
  specification: that the head which is popped is the lowest block of the set, that
  a list has a head when the set has a member, and that the walk finds a block when the
  set has it, are what the code must get right for it to hold.

`links_garbage` shows where this ends: the next head is a client's word.

### 2.3 `malloc_2` and `malloc_1`

`Malloc2` has the shape of `Malloc3`: `call` says where the handler stands, the
search over the list is one step per block, and `refused` is a ghost that counts the
refused `sbrk`s, to bound them. The counters move before the outcome of `sbrk` is looked
at (lines 113-120), which is finding 6.
The code to insert at the front or in the middle of the list is never reached,
because `sbrk` only goes up; `List` applies the whole of `_addToList` all the same.

`Malloc1` has one step per call: the function is straight-line code with one
system call. `Malloc12` has both, the choice being made at the start.

### 2.4 The test cases

`Malloc3Tests` writes each test case of `malloc_3_test_basic.cpp` as a sequence
of calls and of checks (`verify` is `verify_block_by_order`, `given` and `refused`
are the comparisons with NULL, `apart` compares two pointers, `kept` stands for
the check of the bytes after a move). They run on `Malloc3` in bytes, with eleven
orders and a header of 32 bytes. It is the comparison of the model with the
program: what the test cases say the code does, the model does. The bytes
themselves are not modelled, so the loops that compare zeros or contents are left
out where no move is involved.

## 3. Runs

The runs of `Malloc3` have `ORDER_SIZE` 8 and `META` 2, but for the test cases.
`malloc3_core`, `malloc3_tops` and `links_garbage` run `LinkedSpec`; `malloc3_tests` and
the other findings run `Malloc3` on its sets, which `ImplementsSets` justifies.

| run | instance | checks | result |
|---|---|---|---|
| `malloc3_core` | 3 orders, 1 top block, 1 mapping, 6 sizes, 11 elements and `size_t` of 60 values, foreign `sbrk`, linked lists | the safety invariants, the inductive ones (`IInv`, `CallInv`, `CountInv`), `LinksAgree`, `CallsShorten`, `CallReturns` | holds, 123,216 states |
| `malloc3_tops` | 2 orders, 2 top blocks, 1 mapping, 3 sizes, linked lists, clients that write no pointers | `Tiling`, `LinksAgree`, `HeldUntouched`, `ImplementsHeap`, `ImplementsSets` | holds, 82,741 states |
| `metadata_list` | 5 headers of 2 sizes | `ListInv`, `CountersMatch`, `KeepsPromise`, `WalkShortens`, `LoopsEnd` | holds, 2,916 states |
| `malloc12` | 16 addresses, 3 sizes, 2 refusals | the properties of `malloc_2` and `malloc_1`, `BlockInv`, `CallsShorten`, `CallReturns` | holds, 126,137 states |
| `malloc3_tests` | 11 orders, 4 top blocks, 63 mappings, in bytes | `Verified` | holds, 2,632 states |
| `malloc2_drift` | as `malloc12` | `AllocatedCountersExact` | violated |
| `malloc3_hole` | 2 orders, size 15 | `GrantFits` | violated |
| `malloc3_mapfailed` | 2 orders, mapped sizes | `FailureIsNull` | violated |
| `malloc3_leftmerge` | 2 orders | `ReallocKeepsContents` | violated |
| `malloc3_shrinkmap` | mapped sizes | `CopyFits` | violated |
| `malloc3_unmapped` | mapped sizes | `ReleaseAgainReturns` | violated |
| `links_garbage` | as `malloc3_tops`, non-NULL bytes | `HeadIsFree` | violated |

### 3.1 The properties

Of `Malloc3`:

- `TypeOK`, and the inductive invariants of section 4: `IInv` (the heap), `CallInv`
  (who holds which block, what the call in progress is sure of) and `CountInv`
  (the counters in the middle of a handler).
- `Tiling`: at every step the blocks tile the arena, aligned to their size.
- `BuddyIsLive`: every buddy whose header the code reads is a block.
- `ListsExact`, `CountersExact`: lists, flags and getters agree; between calls
  the getters satisfy the test cases' own `verify_block_by_order`.
- `HeldAreUsed`: the blocks in use are the client's: no leak, no theft.
- `NoFreeBuddies`, `RefusedOnlyIfFull`: merging is complete, so that a valid
  request is refused only when every aligned region of its order is in use.
- `ReleasedLooksFree`: a second `sfree` finds `is_free` set in whatever header
  is there. It is why `mergeBlocks` has to set the flag of the swallowed block.
- `TightFit`, `GrantFits`: the order is neither too high nor too low.
- `HalvesMeetEmptyLists`: `splitBlock` leaves `next` and `prev` of a right half
  as they were; the half always goes to an empty list, which writes neither, so
  that what is there stays until the half is popped (finding 7).
- `HeldUntouched` (action property): no step touches the header of a block the
  client holds, except those of `srealloc` on that block.
- `ImplementsHeap`: refinement of `Heap`, with the regions the client holds.
- `CallsShorten` (action property): each step of a handler leaves it fewer to take,
  by the measure `StepsLeft`, which is at most `2 * MAX_ORDER + 7`.
- `CallReturns` (liveness): every call returns or kills the process.

Of the lists:

- `LinksAgree`, `ImplementsSets`: section 2.2.
- `ListInv` (inductive): the links of one list during its loops; what is off the
  list is detached; the loops do not miss what they look for.
- `CountersMatch`: `num_blocks` and `num_bytes` are those of the members.
- `KeepsPromise`: refinement of `FreeListMachine`.
- `WalkShortens` (action property): a turn of a loop ends it or leaves fewer blocks
  ahead of it.
- `LoopsEnd` (liveness): the loops end.

Of `Malloc2` and `Malloc1`:

- `ListComplete`: the list holds every block, ordered, linked both ways.
- `FreeCountersExact`: the free counters, at every step.
- `HeldAreUsed`: between calls the blocks in use are the client's.
- `FirstFit`: what `smalloc` is asked for is refused only if no free block is large
  enough, and never given less. For `scalloc` that is the product as `size_t` holds it
  (3 times 3 is 1 in the run), and nothing is said of one that has wrapped.
- `BlockInv` (inductive): what the others rest on; section 4.4.
- `ImplementsHeap`, `BumpImplementsHeap`: refinement of `Heap`.
- `CallsShorten` (action property): as for `malloc_3`; at most 5 steps and one for
  each block.
- `CallReturns` (liveness): every call returns.

Of the test cases: `Verified`, that every check holds where it stands. Deadlock
checking says the rest: a test case that dies or passes a pointer that is not its
own is a state without a successor.

### 3.2 Bounds

Three orders are the fewest with a split and a merge over two levels, a buddy
that is in pieces, and a middle order; two top blocks are the fewest where
neighbours are adjacent and not buddies. `START_BRKS` is not a multiple of the divisor, so the gap is needed, and
`FOREIGN_SBRK` shows the retry of the first allocation from another break. The
sizes are payloads, one below, one above, the `mmap` threshold, the largest
legal size and one beyond. `malloc3_core` leaves out size 15 of an instance
(the hole), so `GrantFits` holds there; the finding adds it. With 11 elements and 60 values
of `size_t` 6 times 11 wraps to 6 and 7 times 11 to 17.

`malloc3_tops` has clients that write `GARBAGE` only, so that every right half that `splitBlock`
makes inside a payload has it in its links, and every list that is not empty ends in it or
in NULL; NULL alone is in `malloc3_core`. Each behaviour goes on until such a word is followed.

Five headers give lists with an inside block and room to insert before and after
it, which `malloc3_tops` is too small for: its lists have at most two blocks, and the
middle of a list is the business of `metadata_list`. In `malloc12` a request of 1 fits a block of 3 and not the
other way round, 5 is too large, 3 times 3 wraps to 1, and the break has room for
four of the smallest blocks. The client stops calling after `MAX_REFUSALS` refused `sbrk`s, as
the two counters that drift (finding 6) have no bound of their own.

`malloc3_tests` has 4 top blocks in place of 32. Where a test case says 32, 31 or
30, the model says `T`, `T - 1`, `T - 2`, and a loop over all pairs of blocks runs
over `2 T`. No test case needs more than three top blocks. TLC's integers have 32
bits, so the range of `size_t` is 2^31 - 1 there; nothing in a test case wraps.

### 3.3 Fairness

`WF_vars(Step)` in `Malloc3` and `Malloc2`, `WF_vars(Loop)` in `MetadataList`:
once called, a function runs to its end on the caller's thread (nothing in it
waits). Nothing is assumed of the client, of foreign code or of the operating
system: `mmap` and `sbrk` may fail each time. `LinkedSpec` has the fairness of
`Malloc3`, of a handler whose walk along a list is steps of its own (`Running`). `TestSpec` states none, as only safety is checked of it.

### 3.4 What the runs found

1. **A hole between two thresholds** (`malloc_3.cpp:471`). Requests of 131041 to
   131071 bytes are below the `mmap` threshold (line 219) and above the largest
   payload; `findTightOrder` falls through to `return MAX_ORDER` and the block
   has 131040 bytes. Line 199: "a free block with at least 'size' bytes". With
   `srealloc` of a released block such a size even gives the client a free block
   (section 4.2).
2. **A failing `mmap` is answered as `(void*)-1`** (`malloc_3.cpp:566`), which
   `scalloc` and `srealloc` write through. Lines 204-207 document `NULL`.
3. **Growing to the left loses the contents** (`malloc_3.cpp:416`): `srealloc`
   merges with a left buddy, answers its address and moves nothing. Lines
   322-323 promise a copy and `malloc_3_test_srealloc_cases.cpp:171-176` tests it.
4. **Shrinking a mapped block overruns** (`malloc_3.cpp:362`): the old size is
   copied. `malloc_3_test_srealloc_cases.cpp:139-144` expects it to work.
5. **A second `sfree` of a mapped block** reads an unmapped header
   (`malloc_3.cpp:279`). Line 271: "or already released, simply returns".
6. **A refused `sbrk` is counted** (`malloc_2.cpp:113-114`): the counters move before line
   118 looks at what `sbrk` returned, and nothing takes that back. Lines 244-251:
   "the overall (free and used) number of allocated blocks in the heap"; `verify_size` of
   `malloc_2_test.cpp:18-23` would fail from then on.
7. **Old bytes become links** (`malloc_3.cpp:599`): `splitBlock` writes `next`
   and `prev` of the left half and not of the right. `_addToList` into an empty
   list does not write them either. When that half is popped, line 110 makes
   whatever the client once wrote there the head of the list, and the next
   `smalloc` takes it for a block. Line 199: "Searches for a free block".
   Lines 112-113 first write NULL through that word, which may fault at once.
   `HalvesMeetEmptyLists` shows that the half always is the only one of its list.

One more disagreement needs no run: `totalSize = num * size` (`malloc_3.cpp:257`,
`malloc_2.cpp:152`) wraps in `size_t`, and `scalloc` answers a small block for elements that
need more than 10^8 bytes. Line 254: "If 'size * num' is more than" the limit, "return
NULL". The model has the wrap, and the passing runs have products that do.

## 4. Proofs

All theorems are for every value of the constants that satisfies the assumptions
(4.7). `PROJECT.json` lists them with the property of a run that each states.

### 4.1 The heap of `malloc_3`: `IInv`

The theorems about `Malloc3` are stated for `Safety`, its `Spec` without the fairness,
so that `LinksImplementLists` (4.6) carries them over to the linked lists.

`Malloc3Proofs`: `Invariance` (`Safety => []IInv`), and from it `TypeCorrect`,
`ArenaTiled` (`Tiling`), `BuddiesLive` (`BuddyIsLive`) and `ListsHoldTheFree`
(`Listed`, the membership part of `ListsExact`).

`Tiling` is not inductive alone. A merge keeps the tiling only if the buddy is
a whole block; the buddy exists because the arena is tiled and aligned (lemma
`TilingGivesBuddies`: the block that fills the buddy's address cannot reach
over the parent of the two, or it would hold the first block as well). A pop
keeps it only if the head is a block, so the lists' membership (`Listed`) is
needed. The merges of `mergeAndStopAtOrder` test nothing, so `GrowOK` carries
what `canAllocateWithMerges` saw up the remaining orders, and `GrowStepKeeps`
shows a merge does not disturb the higher orders. `sfree` may be given any
pointer ever granted, so `GrantedKnown` says each is a block, a left-over
header that says free, or a mapping. `MappedAreBig` is how the code tells a
mapped block. `SplitOK` ties the block in hand to the loop counter.

The argument has three layers: numbers and the heap (both in
`Malloc3HeapProofs`: each operation keeps `HeapOK`), calls and client
(`Malloc3Proofs`: each action keeps `IInv`).

`CallsEnd` (`CallsShorten`) is in `Malloc3Proofs` too. The handlers are straight-line
code between three loops over the orders: the merges of `sfree` and of `srealloc` go
up one order each turn, the splits go down one. A call makes at most one way
up, after at most one way down (`srealloc` that moves: split, copy, release the old
block with all its merges), which `StepsLeft` adds up. That a merge raises the order
is `IInv`'s doing: the halves are of one size, so that with a header they make
exactly a block of the next order.

### 4.2 Who holds what, and what a call promises: `CallInv`

| theorem | states |
|---|---|
| `EachBlockHasOneOwner` | the ownership parts of `CallInv`, at every step |
| `NoLeakNoTheft` | `HeldAreUsed` |
| `DoubleFreeSeesFree` | `ReleasedLooksFree` |
| `HeldBlocksUntouched` | `HeldUntouched`, an action property |
| `BuddiesImplementHeap` | `ImplementsHeap`, the refinement of `Heap` |
| `GrantsFit`, `GrantsAreTight` | `GrantFits`, `TightFit` |
| `SplitMeetsEmptyLists` | `HalvesMeetEmptyLists` |
| `FreeBuddiesMerged` | `NoFreeBuddies` |
| `RefusedOnlyWhenFull` | `RefusedOnlyIfFull` |
| `CallsKeepPromises` | all of `CallInv` |

`HeldAreUsed` speaks of the time between calls; to carry it through a call,
`OwnersOK` says at each place which blocks are in use without being the client's:
the one a split works on, the one `srealloc` has moved to, the one `sfree` was
given and has not freed yet. It needs three companions. `OldApart`: the block that
`srealloc` moves to is never the one it was given, or the `sfree` after the
`memmove` would free what is about to be answered. `TopIsFree`: the loop of
`sfree` reaches the last order only by a merge, so that leaving it there without
`_addToList` leaves no block in use. `MappingsOK`: mappings are in use and apart,
which rests on what the kernel guarantees (`Unused`).

`ReleasedLooksFree` follows from `GrantedKnown` and `OwnersOK`. `HeldUntouched` is
proved action by action: a step writes headers only at the block in the handler's
hands and at its free buddy, and by `OwnersOK` the client holds neither. The
refinement of `Heap` needs in addition that no two blocks share a byte, which for
the arena is `Tiling` and for the mappings `MappingsOK`; each step is then
`TakeBack`, `Give`, `Replace` (a growing `srealloc`) or a stutter.

`MergedOK` generalises `NoFreeBuddies` to the middle of a merge: only the block
the loop is at may have a free buddy of its size. It is kept because a split makes
siblings of which one stays in the handler's hands, and because a block that
leaves a merge was looked at last. `RefusedOnlyIfFull` follows from `RefusedOK` (the
lists from the tight order up are empty) and `Tiling`: an aligned region without
a used byte would be tiled by free blocks, and with no free buddies left one of
them would be as large as the region and on a list that is empty.

*Hypothesis.* These theorems but `SplitMeetsEmptyLists` assume `NoHoleRequests`: no
request has a size between the largest payload and the `mmap` threshold
(finding 1); the sizes of `malloc3_core` satisfy it. It is needed, and not only for
`GrantFits`. The attempt to prove ownership without it failed, and TLC then gave the
reason: when `srealloc` is given a *released* block of the last order and a
size of the hole, `smalloc` pops that same block, the bytes are copied onto
themselves, `sfree` releases the block, and its address is answered. The client
then holds a free block, which the next `smalloc` gives away again. This is
another face of finding 1: `HeldAreUsed` is false of the program for such sizes.

### 4.3 The counters of `malloc_3`: `CountInv`

`CountersInvariant`, `ListCountersExact` (`ListsExact`) and `GettersExact`
(`CountersExact`) need no hypothesis. The totals are not right at every step:
`splitBlock` adds the blocks it makes to the counter when its loop is over, so
`CountInv` has the term `Uncounted`, the splits done so far. The byte total is tied
to the number of blocks: what the program has from the operating system is fixed,
and each arena block costs one header of it. The getters' sums over the lists become
the number of free blocks by `SumOfClasses`: summing the sizes of the classes of a
finite set gives the size of the set.

Sums are `SumFunctionOnSet` of the community modules, which recurses over a choice
of elements. `FiniteSums` proves of it what the proofs use (`SumWith`, `SumWithout`,
`SumLinear`, `SumSame`, `SumOfClasses`): the function that the recursion defines is
shown to exist for finite sets and to be the only one, and that the order of
choice does not matter, by a least counterexample (`LeastNat`). This is an
induction written out, as the library's induction theorems cannot be
instantiated by the installed provers.

### 4.4 `malloc_2` and `malloc_1`

`Malloc12Proofs` proves every safety property that `malloc12` checks:
`BlocksInvariant` (`BlockInv`), `FirstFitTypes` (`TypeOK`), `NoBlockLost`
(`ListComplete`), `FirstFitFound` (`FirstFit`), `NoLeakNoTheft2` (`HeldAreUsed`),
`FreeCountersOf2`, `FirstFitImplementsHeap`
(`ImplementsHeap`) and `BumpRegions` (`BumpImplementsHeap`).

`BlockInv` says that the blocks with their headers lie one after another below the
break (`BlocksApart`), so that a new one, made at the break, is behind all of them
and `_addToList` takes its branch for the end (`ListAppends`); that the search has
passed only blocks that do not fit (`CallOK`), which is what makes a refusal right
when it falls off the list; and which blocks are in transit between client and
allocator at each place (`OwnersOK`). Here a released block given to `srealloc` needs
no hypothesis: it is taken back if it is large enough, and if not the search does
not find it.

Of `malloc_1` the invariant is that every region ends at or below the break.

### 4.5 The linked list

`MetadataListProofs` proves, for every set of headers and all their sizes,
`ListInvariance` (`ListInv`), `ListCountersMatch` (`CountersMatch`) and `Promised`
(`KeepsPromise`, the refinement of `FreeListMachine`).

`ListInv` is inductive once it says three things besides the links: that headers
off the list are detached (the branches of `_addToList` write one link of the two
and rely on the other), that an insertion in progress is strictly between head and
tail (so that the loop cannot run off the end), and that the blocks the loop has
passed are all below what it looks for. The lemmas are about `Good(l, S)`, the
links of `l` are those of `S`: one for each thing the code does to the links, saying
that it makes a good list of one set into a good list of another. `_removeFromList`
is proved by composing its stages. `Promised` follows action by action: the head
is the least member, and the walk of `_exists_in_list` ends at the block or has
passed all of them.

`WalksShorten` (`WalkShortens`): a turn of a loop goes to a higher block of the list,
so that the blocks at or above the pointer become fewer. `SearchesShorten`
(`CallsShorten` of `Malloc2`, in `Malloc12Proofs`) is the same argument for the search
of `malloc_2`.

### 4.6 The lists of `malloc_3` as links in memory

`Malloc3LinksProofs` proves, whatever words the clients write:

- `LinksImplementLists` (`LinkedSpec => ImplementsSets`): every behaviour of the code with its
  pointers is one of `Malloc3`, so that what is proved of `Malloc3` is true of it;
- `LinksAgreeAlways` (`LinkedSpec => []LinksAgree`).

Both are about the program until it follows a word that is no pointer (`astray`), and say
nothing of it from there. Neither has a hypothesis. The invariant behind them, `LinksKept`,
is `IInv`, `CountInv` (as `GetInv`) and, unless astray, `LinksOK` (`LinksAgree` with the
types of the links) and `WalkOK` (the walk of `_exists_in_list` is at a block of the list
that is not beyond the one it looks for). The two theorems need each other: a step is
one of `Malloc3` because the links are right before it (`HeadIsLowest`, `HeadedIsStocked`,
`LookingFacts`), and the links are right after it because it is one of `Malloc3`, for which
`NextKeeps` and `CountsNext` say what the sets then are (`LinksNext`).

The link fields are one memory for twelve lists, so the unit of the argument is not
one list but all of them (`GoodLinks`): disjoint lists, each linked both ways in the
order of addresses, whose two outward ends may hold any word; and NULL in the headers of
blocks that are on no list. `AddToGood`, `RemoveFromGood` and `PopFromGood` say that an
operation of one list makes such a memory into one where that list has one block more
or less and the others are as they were. Each rests on a lemma about one list: the
operation is done on the list with its open ends cut off, and the words at the ends
are put back. Every branch of `_addToList` comes to putting the block between two
neighbours, every case of `_removeFromList` and `_popHead` to the neighbours meeting.
What a block brings along in its links does not disturb `_addToList`: each
branch writes those that lead into the list and leaves only those that lead out of it. A memory
that satisfies this stays so when words are written to a header that is no block's, which
covers the client, `memset` and `memmove` (what those reach is inside a block, so that by
`Tiling` no block starts there). That headers of blocks in use have NULL links says where
words of clients can come from at all: from a block that `splitBlock` has just made.

The handlers compose these lemmas. `MergeLinks` is the longest: the buddy leaves its
list, then the block itself if `sfree` has freed it (`srealloc` comes with one in
use), then the lower half joins the next order. The loop of `firstAllocator` is a recursive
function over the top blocks. That TLAPS may use its recursion at all (`TopsCanJoin`) and
that each turn keeps the invariant (`TopsJoin`) are inductions written out as a least
counterexample, as in `FiniteSums`.

### 4.7 Assumptions, and what is only model-checked

Assumptions: `GeometryAssumption` (sizes are positive, the header is smaller
than a block of order 0), `Malloc3Assumption` (kinds of the constants, mapped
addresses beyond the arena's limit, the largest block not above
`MAX_SMALLOC_SIZE`), `DoublingAssumption`, which states `2^(k+1) = 2 * 2^k` for
block sizes (the provers have no exponentiation), `ListAssumption` (headers
are positive numbers, sizes are numbers) and `Malloc2Assumption` (kinds of the
constants of `malloc_2`, a positive header, which `malloc_1` shares). TLC evaluates
each in a run.

Only model-checked:

- `Verified`: 21 concrete programs, with nothing to generalise;
- `CallReturns` and `LoopsEnd`: liveness. That the steps run out is proved
  (`CallsShorten`, `WalkShortens`); what is left is that a handler which has not
  ended can take one (deadlock checking looks for one that cannot) and, by fairness,
  does. Both need `ENABLED`.

## 5. Not modelled

- The overflow of the `int` counters (`malloc_3.cpp:575`): undefined behaviour
  that needs 2^31 bytes of mappings; the model's counters are unbounded.
- Payload bytes: only whether they were copied (`call.moved`), and what they do to
  headers that are left inside a block.
- What the program does after it has followed a word that is no pointer, or has died.
- The test programs other than `malloc_3_test_basic.cpp`, and that file's
  `performCorruption`, which no test case calls. Build files and diagrams.

## 6. Plan

1. Done: `BuddyGeometry`, `FreeList`, `Malloc3`, `Heap`, the proof of `IInv`.
2. Done: `MetadataLinks`, `MetadataList`, `Malloc3Links`, `Malloc2`, `Malloc1`,
   `Malloc3Tests`, the proofs of `ListInv` and `KeepsPromise`.
3. Done: the proofs of the safety properties of `Malloc3`, `MetadataList`, `Malloc2`
   and `Malloc1`, with `CallInv`, `CountInv`, `BlockInv` and the lemmas on sums.
4. Done: `Malloc3Links` on the real heads and links, `LinksAgree` and `ImplementsSets`
   for any words of the clients; that calls shorten.
5. Left: the theorems of `Malloc3` that assume `NoHoleRequests` could be restated for
   clients that use sizes of the hole and never `srealloc` a released block. If the
   code initialises the links in `splitBlock` (finding 7), `astray` can be dropped and
   `HeadIsFree` becomes a property of a passing run.
