------------------------------ MODULE Malloc2 ------------------------------
(***************************************************************************)
(* The first-fit allocator of src/malloc_2.cpp, called by one sequential   *)
(* client: one list of all blocks, in the order of their addresses, each   *)
(* made by an sbrk and never split, merged or given back.                  *)
(*                                                                         *)
(* A pointer is modelled by the address of its header.  Calls are modelled *)
(* as in Malloc3: Call records the arguments in `call`, the steps of the   *)
(* handler follow, one per branch or turn of the loop over the list.       *)
(***************************************************************************)
EXTENDS MetadataLinks, FiniteSetsExt

CONSTANTS
  META,             \* sizeof(MallocMetadata)
  MAX_SMALLOC_SIZE, \* line 8
  START_BRKS,       \* where the program break may be before the first call
  BRK_LIMIT,        \* bound: the OS refuses to move the break beyond it
  FOREIGN_SBRK,     \* by how much other code of the process moves the break
  SIZES,            \* bound: the sizes the client asks for
  NUMS,             \* bound: the numbers of elements it asks scalloc for
  SIZE_T_RANGE,     \* how many values size_t has (2^64)
  MAX_REFUSALS      \* bound: how many sbrks of smalloc the OS may refuse

Headers == 1 .. BRK_LIMIT

ASSUME Malloc2Assumption ==
  /\ META \in Nat \ {0} /\ MAX_SMALLOC_SIZE \in Nat
  /\ BRK_LIMIT \in Nat /\ MAX_REFUSALS \in Nat
  /\ START_BRKS \subseteq 1 .. BRK_LIMIT
  /\ FOREIGN_SBRK \subseteq Nat
  /\ SIZES \subseteq Nat /\ NUMS \subseteq Nat
  /\ SIZE_T_RANGE \in Nat \ {0}

VARIABLES
  brk,              \* the program break
  blockList,        \* line 75, with the links of the headers
  size, is_free,    \* header fields, by address
  num_free_block, num_free_bytes,            \* lines 20, 21
  num_allocated_blocks, num_allocated_bytes, \* lines 23, 24
  held,             \* ghost: the pointers the client owns
  refused,          \* ghost: how many sbrks were refused
  call              \* the call in progress, or the last one with its result

headers        == <<size, is_free>>
free_count     == <<num_free_block, num_free_bytes>>
allocated      == <<num_allocated_blocks, num_allocated_bytes, refused>>
list           == <<blockList, brk>>
vars           == <<headers, free_count, allocated, list, held, call>>

\* The blocks there are: their size, once set, does not change (lines 1-2).
Blocks == {a \in Headers : size[a] # 0}

NoCall == [at |-> "idle", op |-> "none", old |-> NULL, n |-> 0,
           ret |-> NULL, current |-> NULL]

Init ==
  /\ brk \in START_BRKS
  /\ blockList = Empty(Headers)
  /\ size = [a \in Headers |-> 0] /\ is_free = [a \in Headers |-> FALSE]
  /\ num_free_block = 0 /\ num_free_bytes = 0
  /\ num_allocated_blocks = 0 /\ num_allocated_bytes = 0
  /\ held = {} /\ refused = 0
  /\ call = NoCall

----------------------------------------------------------------------------

At(place) == call.at = place
Goto(place) == call' = [call EXCEPT !.at = place]
Answer(r) == call' = [NoCall EXCEPT !.op = call.op, !.old = call.old, !.n = call.n, !.ret = r]
Grant(b) == held' = held \cup {b}
Fail == Answer(NULL) /\ UNCHANGED held

\* smalloc has found b for the client (also through srealloc(NULL, n)), for
\* scalloc, whose memset changes no header, or for srealloc.
SmallocReturns(b) ==
  IF call.op = "srealloc" /\ call.old # NULL
  THEN call' = [call EXCEPT !.at = "memmove", !.ret = b] /\ UNCHANGED held
  ELSE Answer(b) /\ Grant(b)

\* The client calls one of the four functions; sfree and srealloc serve a
\* pointer that was released before, too (lines 175, 215).
Call ==
  /\ At("idle") /\ refused < MAX_REFUSALS
  /\ \E op \in {"smalloc", "scalloc", "srealloc", "sfree"},
        p \in {NULL} \cup Blocks, n \in SIZES \cup {0}, num \in NUMS \cup {1} :
       /\ op \in {"smalloc", "scalloc"} => p = NULL
       /\ op = "sfree" => n = 0
       /\ op # "scalloc" => num = 1
       /\ call' = [NoCall EXCEPT
            !.op = op, !.old = p, !.n = (num * n) % SIZE_T_RANGE,
            !.at = IF op \in {"smalloc", "scalloc"} THEN "smalloc" ELSE op]
       /\ held' = IF op = "sfree" THEN held \ {p} ELSE held
  /\ UNCHANGED <<headers, free_count, allocated, list>>

\* Other code of the process moves the break.
ForeignSbrk ==
  /\ At("idle")
  /\ \E d \in FOREIGN_SBRK : brk + d <= BRK_LIMIT /\ brk' = brk + d
  /\ UNCHANGED <<headers, free_count, allocated, blockList, held, call>>

----------------------------------------------------------------------------
(* smalloc                                                                 *)

Valid(n) == 0 < n /\ n <= MAX_SMALLOC_SIZE

SmallocReject ==
  /\ At("smalloc") /\ ~Valid(call.n)
  /\ Fail
  /\ UNCHANGED <<headers, free_count, allocated, list>>

SmallocStarts ==
  /\ At("smalloc") /\ Valid(call.n)
  /\ call' = [call EXCEPT !.at = "search", !.current = blockList.head]
  /\ UNCHANGED <<headers, free_count, allocated, list, held>>

\* MUTANT: a block is good enough only if it has a byte more than is needed.
FitsLarger(b) == is_free[b] /\ size[b] > call.n

\* The test of the loop.
Fits(b) == is_free[b] /\ size[b] >= call.n

\* MUTANT: the loop stays where it is.
SameBlock(b) == b

\* current = current->next
NextBlock(b) == blockList.next[b]

SmallocSkips ==
  /\ At("search") /\ call.current # NULL /\ ~Fits(call.current)
  /\ call' = [call EXCEPT !.current = NextBlock(@)]
  /\ UNCHANGED <<headers, free_count, allocated, list, held>>

\* MUTANT: the free bytes go down by what was asked for, not by the block's.
UseAsked(b) ==
  /\ is_free' = [is_free EXCEPT ![b] = FALSE]
  /\ num_free_block' = num_free_block - 1
  /\ num_free_bytes' = num_free_bytes - call.n

\* MUTANT: the block keeps its flag.
UseFlagKept(b) ==
  /\ num_free_block' = num_free_block - 1
  /\ num_free_bytes' = num_free_bytes - size[b]
  /\ UNCHANGED is_free

\* A free block is put in use (also lines 216-218).
Use(b) ==
  /\ is_free' = [is_free EXCEPT ![b] = FALSE]
  /\ num_free_block' = num_free_block - 1
  /\ num_free_bytes' = num_free_bytes - size[b]

SmallocTakes ==
  /\ At("search") /\ call.current # NULL /\ Fits(call.current)
  /\ Use(call.current)
  /\ SmallocReturns(call.current)
  /\ UNCHANGED <<size, allocated, list>>

\* MUTANT: the header is not asked for.
RoomWithoutHeader == call.n

\* What sbrk is asked for.
Room == call.n + META

\* The counters move before the outcome of sbrk is looked at.
CountNew ==
  /\ num_allocated_blocks' = num_allocated_blocks + 1
  /\ num_allocated_bytes' = num_allocated_bytes + call.n

\* MUTANT: the new block goes to the front, whatever its address.
ListFront(b) == blockList' = AddFront(blockList, b)

\* The new block comes with NULL links.  Where the loop of _addToList would
\* stop is the first block above it: sbrk never returns one below another,
\* so that there is none.
List(b) ==
  blockList' = _addToList(Detach(blockList, b), b, Min({a \in Blocks : a > b} \cup {b}))

SmallocExtends ==
  /\ At("search") /\ call.current = NULL
  /\ brk + Room <= BRK_LIMIT
  /\ brk' = brk + Room
  /\ CountNew
  /\ size' = [size EXCEPT ![brk] = call.n]
  /\ is_free' = [is_free EXCEPT ![brk] = FALSE]
  /\ List(brk)
  /\ SmallocReturns(brk)
  /\ UNCHANGED <<free_count, refused>>

\* MUTANT: the error value of sbrk is not told from a block.
ErrorValue == -1

\* What a refused sbrk is answered with.
Refusal == NULL

SmallocRefused ==
  /\ At("search") /\ call.current = NULL
  /\ CountNew
  /\ refused' = refused + 1
  /\ Answer(Refusal) /\ UNCHANGED held
  /\ UNCHANGED <<headers, free_count, list>>

----------------------------------------------------------------------------
(* sfree, for the client or for srealloc once it has moved the bytes       *)

SfreeReturns == IF call.op = "sfree" THEN Fail ELSE Answer(call.ret) /\ Grant(call.ret)

\* NULL, or released already.
SfreeNothing ==
  /\ At("sfree") /\ (call.old # NULL => is_free[call.old])
  /\ SfreeReturns
  /\ UNCHANGED <<headers, free_count, allocated, list>>

SfreeBlock ==
  /\ At("sfree") /\ call.old # NULL /\ ~is_free[call.old]
  /\ is_free' = [is_free EXCEPT ![call.old] = TRUE]
  /\ num_free_block' = num_free_block + 1
  /\ num_free_bytes' = num_free_bytes + size[call.old]
  /\ SfreeReturns
  /\ UNCHANGED <<size, allocated, list>>

----------------------------------------------------------------------------
(* srealloc                                                                *)

SreallocReject ==
  /\ At("srealloc") /\ ~Valid(call.n)
  /\ Fail
  /\ UNCHANGED <<headers, free_count, allocated, list>>

\* The old block is large enough; if it had been released it is taken back.
SreallocReuses ==
  /\ At("srealloc") /\ Valid(call.n) /\ call.old # NULL /\ call.n <= size[call.old]
  /\ IF is_free[call.old] THEN Use(call.old) ELSE UNCHANGED <<is_free, free_count>>
  /\ Answer(call.old) /\ Grant(call.old)
  /\ UNCHANGED <<size, allocated, list>>

\* There is none, or it is too small: smalloc.
SreallocAllocates ==
  /\ At("srealloc") /\ Valid(call.n)
  /\ call.old # NULL => call.n > size[call.old]
  /\ Goto("smalloc")
  /\ UNCHANGED <<headers, free_count, allocated, list, held>>

\* The old bytes are copied, then the old block is released.
SreallocMoves ==
  /\ At("memmove")
  /\ Goto("sfree")
  /\ held' = held \ {call.old}
  /\ UNCHANGED <<headers, free_count, allocated, list>>

----------------------------------------------------------------------------

Step ==
  \/ SmallocReject \/ SmallocStarts \/ SmallocSkips \/ SmallocTakes
  \/ SmallocExtends \/ SmallocRefused
  \/ SfreeNothing \/ SfreeBlock
  \/ SreallocReject \/ SreallocReuses \/ SreallocAllocates \/ SreallocMoves

\* The bound on refusals is reached: the client calls no more.
Bounded == At("idle") /\ refused = MAX_REFUSALS /\ UNCHANGED vars

Next == Call \/ ForeignSbrk \/ Step \/ Bounded

\* A handler runs to its end on the caller's thread; the client need not call.
Spec == Init /\ [][Next]_vars /\ WF_vars(Step)

----------------------------------------------------------------------------
(* Properties                                                              *)

Calls == [at : {"idle", "smalloc", "search", "sfree", "srealloc", "memmove"},
          op : {"none", "smalloc", "scalloc", "srealloc", "sfree"},
          old : {NULL} \cup Headers, n : Nat,
          ret : {NULL} \cup Headers, current : {NULL} \cup Headers]

\* Every variable keeps its kind; every link is NULL or a header.
TypeOK ==
  /\ brk \in 1 .. BRK_LIMIT
  /\ blockList \in [head : {NULL} \cup Headers, tail : {NULL} \cup Headers,
                    next : [Headers -> {NULL} \cup Headers],
                    prev : [Headers -> {NULL} \cup Headers]]
  /\ size \in [Headers -> Nat] /\ is_free \in [Headers -> BOOLEAN]
  /\ num_free_block \in Int /\ num_free_bytes \in Int
  /\ num_allocated_blocks \in Int /\ num_allocated_bytes \in Int
  /\ held \subseteq Headers
  /\ refused \in Nat
  /\ call \in Calls

Idle == At("idle")
FreeBlocks == {b \in Blocks : is_free[b]}
Bytes(S) == SumFunctionOnSet(size, S)

\* The list goes through all the blocks there are, forwards and backwards,
\* in the order of their addresses: the first fit is the lowest, and no block
\* is ever lost to the search.
ListComplete == Forward(blockList, Blocks) /\ Backward(blockList, Blocks)

\* The free counters are those of the blocks that are free, at any step: a
\* block larger than was asked for counts in full when it is taken, one that
\* is released twice or taken back by srealloc counts once.
FreeCountersExact ==
  /\ num_free_block = Cardinality(FreeBlocks)
  /\ num_free_bytes = Bytes(FreeBlocks)

\* malloc_2.cpp:244 "the overall (free and used) number of allocated blocks in
\* the heap", and line 249 of their bytes: between calls the two other counters
\* are those of the blocks that there are.  (No invariant: they move before
\* the outcome of sbrk is looked at, and a refused one is never taken back.)
AllocatedCountersExact ==
  Idle => /\ num_allocated_blocks = Cardinality(Blocks)
          /\ num_allocated_bytes = Bytes(Blocks)

\* Between calls the blocks in use are the client's: none is lost when
\* srealloc fails or moves, none it owns can be handed out again.
HeldAreUsed == Idle => held = Blocks \ FreeBlocks

\* smalloc, whoever calls it, refuses a valid request only when no free block
\* is large enough (lines 79-80), and never gives a smaller one.  (For scalloc
\* the request is the product of line 152 as size_t holds it: of one that has
\* wrapped nothing is said here.)
FirstFit ==
  (Idle /\ call.op \in {"smalloc", "scalloc", "srealloc"} /\ Valid(call.n)) =>
    IF call.ret = NULL THEN \A b \in FreeBlocks : size[b] < call.n
                       ELSE call.n <= size[call.ret]

\* A block with its header ends before the next one begins, and the last one
\* at the break: an sbrk never gives room that some block has.
BlocksApart ==
  /\ \A b \in Blocks : b + size[b] + META <= brk
  /\ \A a, b \in Blocks : a < b => a + size[a] + META <= b

\* What a call in progress is sure of.
NoneFits(S) == \A b \in S \cap FreeBlocks : size[b] < call.n
Refitted == call.op = "srealloc" /\ call.old # NULL =>
              call.old \in Blocks /\ size[call.old] < call.n
Asking == call.op \in {"smalloc", "scalloc", "srealloc"} /\ Refitted
                                    /\ (call.op # "srealloc" => call.old = NULL)
Moving == /\ call.op = "srealloc" /\ call.old # NULL /\ call.old \in Blocks
          /\ call.ret \in Blocks \ FreeBlocks /\ call.ret # call.old
          /\ call.n <= size[call.ret]

\* The search has passed only blocks that do not fit, and goes on from a
\* block; the block that srealloc has found is in use, large enough, and not
\* the one whose bytes are moved into it.
CallOK ==
  /\ At("smalloc") => Asking
  /\ At("search") => /\ Asking /\ Valid(call.n)
                     /\ call.current \in {NULL} \cup Blocks
                     /\ NoneFits(IF call.current = NULL THEN Blocks
                                 ELSE {b \in Blocks : b < call.current})
  /\ At("memmove") => Moving
  /\ At("sfree") => /\ call.op \in {"sfree", "srealloc"}
                    /\ call.op = "srealloc" => Moving
                    /\ call.op = "sfree" => call.old \in {NULL} \cup Blocks
  /\ At("srealloc") => call.op = "srealloc" /\ call.old \in {NULL} \cup Blocks

\* The blocks that are in use without being the client's: the one it gives
\* back, the one that srealloc is to give it.
InTransit ==
  CASE At("memmove") -> {call.ret}
    [] At("sfree") -> IF call.op = "sfree" THEN {call.old} ELSE {call.old, call.ret}
    [] OTHER -> {}

OwnersOK == held = (Blocks \ FreeBlocks) \ InTransit

\* What the other properties rest on.  (Inductive.)
BlockInv ==
  TypeOK /\ BlocksApart /\ ListComplete /\ CallOK /\ OwnersOK /\ FirstFit

\* The regions the client owns never overlap and change one at a time.
Regions == INSTANCE Heap WITH owned <- [p \in held |-> size[p] + META]
ImplementsHeap == Regions!Spec

\* A bound on the steps the call in progress has left.
StepsLeft ==
  CASE At("srealloc") -> 5 + Cardinality(Blocks)
    [] At("smalloc") -> 4 + Cardinality(Blocks)
    [] At("search") ->
         3 + Cardinality({b \in Blocks : call.current # NULL /\ call.current <= b})
    [] At("memmove") -> 2
    [] At("sfree") -> 1
    [] OTHER -> 0

\* No handler goes on for ever: each of its steps leaves fewer to be taken.
CallsShorten == [][~Idle => 0 <= StepsLeft' /\ StepsLeft' < StepsLeft]_vars

\* Every call returns.
CallReturns == ~Idle ~> Idle
=============================================================================
