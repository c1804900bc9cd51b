---------------------------- MODULE Malloc3Proofs ----------------------------
(***************************************************************************)
(* IInv is an invariant of Safety: one lemma per part of malloc_3.cpp, one *)
(* step per action.  What the actions do to the heap is Malloc3HeapProofs; *)
(* here it is what they do to the call in progress and to the client.      *)
(***************************************************************************)
EXTENDS Malloc3HeapProofs

(* IInv without the heap. *)
ClientType == call \in Calls /\ held \subseteq Headers /\ granted \subseteq Headers
ClientOK == ClientType /\ GrantedKnown /\ CallOK
BrkOK == brk \in 1 .. BRK_LIMIT

LEMMA IInvParts ==
  IInv <=> HeapType /\ HeapOK /\ BrkOK /\ ClientOK
BY DEF IInv, TypeOK, ClientOK, ClientType, BrkOK

LEMMA AddressKinds ==
  NULL \notin Headers /\ MAP_FAILED \notin Headers /\ NULL # MAP_FAILED
BY SlotsType, Malloc3Assumption DEF Headers, NULL, MAP_FAILED

(* A known pointer is the address of a header. *)
LEMMA KnownIsHeader ==
  ASSUME HeapType, NEW p, Known(p)
  PROVE  p \in Headers
BY DEF HeapType, Known, Headers

(* After Answer no place of a handler is left to rely on anything.         *)
LEMMA AnswerEnds ==
  ASSUME call \in Calls, NEW r \in {NULL, MAP_FAILED} \cup Headers,
         NEW m \in BOOLEAN, Answer(r, m)
  PROVE  call' \in Calls /\ CallOK'
<1>1. call' = [at |-> "idle", op |-> call.op, old |-> call.old, n |-> call.n,
               ret |-> r, moved |-> m, blk |-> NULL, high |-> 0, splits |-> 0]
  BY DEF Answer, NoCall
<1>2. call' \in Calls
  BY <1>1 DEF Calls, Places
<1> QED
  BY <1>1, <1>2 DEF CallOK, SplitOK, SfreeOK, MergeOK, GrowOK, OpOK, OldOK, RetOK, At

(* The client's pointers stay known when the heap keeps what is known and  *)
(* no other pointer but b is granted.                                      *)
LEMMA GrantKeeps ==
  ASSUME ClientType, GrantedKnown, KnownKept,
         NEW b \in Headers, Known(b)', NEW lost, Grant(b, lost)
  PROVE  held' \subseteq Headers /\ granted' \subseteq Headers /\ GrantedKnown'
BY DEF ClientType, GrantedKnown, KnownKept, Grant

LEMMA NoGrantKeeps ==
  ASSUME ClientType, GrantedKnown, KnownKept, held' \subseteq held, granted' = granted
  PROVE  held' \subseteq Headers /\ granted' \subseteq Headers /\ GrantedKnown'
BY DEF ClientType, GrantedKnown, KnownKept

(* Fail, after any change of the heap that keeps what is known.            *)
LEMMA FailKeeps ==
  ASSUME ClientOK, KnownKept, Fail
  PROVE  ClientOK'
<1>1. call' \in Calls /\ CallOK'
  BY AnswerEnds DEF Fail, ClientOK, ClientType
<1>2. held' \subseteq Headers /\ granted' \subseteq Headers /\ GrantedKnown'
  BY NoGrantKeeps DEF Fail, ClientOK, client
<1> QED
  BY <1>1, <1>2 DEF ClientOK, ClientType

(* The handler answers a known pointer. *)
LEMMA AnswerGrantKeeps ==
  ASSUME ClientOK, KnownKept, NEW b \in Headers, Known(b)', NEW lost,
         NEW m \in BOOLEAN, Answer(b, m), Grant(b, lost)
  PROVE  ClientOK'
<1>1. call' \in Calls /\ CallOK'
  BY AnswerEnds DEF ClientOK, ClientType
<1>2. held' \subseteq Headers /\ granted' \subseteq Headers /\ GrantedKnown'
  BY GrantKeeps DEF ClientOK
<1> QED
  BY <1>1, <1>2 DEF ClientOK, ClientType

(* smalloc gives its result to whoever called it. *)
LEMMA SmallocReturnsKeeps ==
  ASSUME ClientOK, KnownKept, live \subseteq live',
         call.at \in {"smalloc", "split"},
         NEW b, b = MAP_FAILED \/ (b \in Headers /\ b \in live'),
         SmallocReturns(b)
  PROVE  ClientOK'
<1> DEFINE toClient == call.op = "smalloc" \/ (call.op = "srealloc" /\ call.old = NULL)
<1>1. CASE toClient
  <2>1. Answer(b, FALSE) /\ IF b = MAP_FAILED THEN UNCHANGED client ELSE Grant(b, {})
    BY <1>1 DEF SmallocReturns
  <2>2. CASE b = MAP_FAILED
    <3>1. call' \in Calls /\ CallOK'
      BY <2>1, <2>2, AnswerEnds DEF ClientOK, ClientType
    <3>2. held' \subseteq Headers /\ granted' \subseteq Headers /\ GrantedKnown'
      BY <2>1, <2>2, NoGrantKeeps DEF ClientOK, client
    <3> QED
      BY <3>1, <3>2 DEF ClientOK, ClientType
  <2>3. CASE b # MAP_FAILED
    BY <2>1, <2>3, AnswerGrantKeeps DEF Known
  <2> QED
    BY <2>2, <2>3
<1>2. CASE ~toClient
  <2> DEFINE place == IF call.op = "scalloc" THEN "memset" ELSE "memmove"
  <2>1. call' = [call EXCEPT !.at = place, !.ret = b] /\ UNCHANGED client
    BY <1>2 DEF SmallocReturns
  <2>2. call \in Calls /\ OpOK /\ OldOK
    BY DEF ClientOK, ClientType, CallOK
  <2>3. call' \in Calls
    BY <2>1, <2>2 DEF Calls, Places
  <2>4. /\ call'.at = place /\ call'.ret = b
        /\ call'.op = call.op /\ call'.old = call.old
    BY <2>1, <2>2 DEF Calls
  <2>5. place = "memmove" => /\ call.op = "srealloc" /\ call.old # NULL
                             /\ call.old \in live
    BY <1>2, <2>2 DEF OpOK, OldOK
  <2>6. SplitOK' /\ SfreeOK' /\ MergeOK' /\ GrowOK'
    BY <2>4 DEF SplitOK, SfreeOK, MergeOK, GrowOK, At
  <2>7. OpOK' /\ OldOK'
    BY <2>4, <2>5 DEF OpOK, OldOK
  <2>8. RetOK'
    BY <2>4 DEF RetOK
  <2>9. held' \subseteq Headers /\ granted' \subseteq Headers /\ GrantedKnown'
    BY <2>1, NoGrantKeeps DEF ClientOK, client
  <2> QED
    BY <2>3, <2>6, <2>7, <2>8, <2>9 DEF ClientOK, ClientType, CallOK
<1> QED
  BY <1>1, <1>2

(* sfree is over, for the client or for srealloc. *)
LEMMA SfreeReturnsKeeps ==
  ASSUME HeapType, ClientOK, KnownKept, call.at \in {"sfree", "merge"}, SfreeReturns
  PROVE  ClientOK'
<1>1. CASE call.op = "sfree"
  BY <1>1, FailKeeps DEF SfreeReturns
<1>2. CASE call.op # "sfree"
  <2>1. Known(call.ret) /\ call.ret \in Headers
    BY <1>2, KnownIsHeader DEF ClientOK, CallOK, RetOK
  <2>2. PICK b \in Headers : b = call.ret /\ Known(b)
    BY <2>1
  <2>3. Answer(b, TRUE) /\ Grant(b, {})
    BY <1>2, <2>2 DEF SfreeReturns
  <2>4. Known(b)'
    BY <2>2 DEF KnownKept
  <2> QED
    BY <2>3, <2>4, AnswerGrantKeeps
<1> QED
  BY <1>1, <1>2

LEMMA IInvNext ==
  ASSUME HeapType', HeapOK', BrkOK', ClientOK'
  PROVE  IInv'
BY DEF IInv, TypeOK, ClientOK, ClientType, BrkOK

LEMMA GotoMoves ==
  ASSUME call \in Calls, NEW place \in Places, Goto(place)
  PROVE  /\ call' \in Calls /\ call'.at = place
         /\ call'.op = call.op /\ call'.old = call.old /\ call'.n = call.n
         /\ call'.ret = call.ret /\ call'.blk = call.blk /\ call'.high = call.high
BY DEF Goto, Calls

(* The handler dies: nothing is relied on any more. *)
LEMMA GotoDeadKeeps ==
  ASSUME ClientOK, KnownKept, NEW place \in {"segv", "overrun"},
         Goto(place), held' \subseteq held, granted' = granted
  PROVE  ClientOK'
<1>1. call' \in Calls /\ call'.at = place
  BY GotoMoves DEF ClientOK, ClientType, Places
<1>2. CallOK'
  BY <1>1 DEF CallOK, SplitOK, SfreeOK, MergeOK, GrowOK, OpOK, OldOK, RetOK, At
<1>3. held' \subseteq Headers /\ granted' \subseteq Headers /\ GrantedKnown'
  BY NoGrantKeeps DEF ClientOK
<1> QED
  BY <1>1, <1>2, <1>3 DEF ClientOK, ClientType

LEMMA TightFacts ==
  ASSUME call \in Calls
  PROVE  /\ call.n \in Nat /\ Tight \in Orders
         /\ call.n <= Payload(MAX_ORDER) => call.n <= Payload(Tight)
<1>1. call.n \in Nat
  BY DEF Calls
<1> QED
  BY <1>1, TightOrder DEF Tight

(* The size in its header tells an arena block from a mapped one. *)
LEMMA SmallIsArena ==
  ASSUME HeapType, HeapOK, NEW p \in live, size[p] < MAX_ORDER_BLOCK_SIZE
  PROVE  p \in Blocks
<1>1. p \in Headers /\ size[p] \in Nat
  BY DEF HeapType
<1>2. p \notin Mapped
  BY <1>1, DivisorType DEF HeapOK, MappedAreBig
<1> QED
  BY <1>1, <1>2 DEF Mapped, Headers, Blocks

----------------------------------------------------------------------------
(* The client's side. *)

LEMMA InitKeeps ==
  ASSUME Init
  PROVE  IInv
<1>1. HeapType
  <2>1. FL!EmptyList \in List
    BY DEF FL!EmptyList, List
  <2> QED
    BY <2>1 DEF Init, HeapType
<1>2. Blocks = {} /\ Mapped = {} /\ ArenaSlots = {}
  BY DEF Init, Blocks, Mapped, ArenaSlots
<1>3. ArenaOK /\ Tiling /\ MappedAreBig
  BY <1>2 DEF Init, ArenaOK, Tiling, Shaped, Apart, Filled, MappedAreBig
<1>4. Listed
  BY <1>2 DEF Init, Listed, FreeBlocks, FL!EmptyList
<1>5. call \in Calls /\ call.at = "idle"
  BY DEF Init, NoCall, Calls, Places
<1>6. CallOK
  BY <1>5 DEF CallOK, SplitOK, SfreeOK, MergeOK, GrowOK, OpOK, OldOK, RetOK, At
<1>7. BrkOK /\ GrantedKnown /\ held \subseteq Headers /\ granted \subseteq Headers
  BY Malloc3Assumption DEF Init, BrkOK, GrantedKnown
<1> QED
  BY <1>1, <1>3, <1>4, <1>5, <1>6, <1>7 DEF IInv, TypeOK, HeapOK, BrkOK

LEMMA StutterKeeps ==
  ASSUME IInv, UNCHANGED vars
  PROVE  IInv'
<1> USE DEF vars, os, client
<1>1. HeapType' /\ HeapOK' /\ KnownKept
  BY HeapSame DEF IInv, TypeOK
<1>2. /\ call \in Calls' /\ call' = call /\ held' = held /\ granted' = granted
      /\ Blocks' = Blocks /\ Tight' = Tight
  BY DEF Calls, IInv, TypeOK, Blocks, heap, Tight
<1>3. GrantedKnown' /\ held' \subseteq Headers /\ granted' \subseteq Headers
  BY <1>1, NoGrantKeeps DEF IInv, TypeOK, ClientType
<1>4. CallOK'
  <2>1. CallOK /\ is_free' = is_free /\ size' = size /\ live' = live
    BY DEF IInv, heap, headers
  <2>2. SplitOK' /\ SfreeOK' /\ MergeOK'
    BY <1>2, <2>1 DEF CallOK, SplitOK, SfreeOK, MergeOK, At, Known
  <2>3. GrowOK'
    BY <1>2, <2>1 DEF CallOK, GrowOK, At, canAllocateWithMerges
  <2>4. OpOK' /\ OldOK' /\ RetOK'
    BY <1>2, <2>1 DEF CallOK, OpOK, OldOK, RetOK, Known
  <2> QED
    BY <2>2, <2>3, <2>4 DEF CallOK
<1>5. BrkOK'
  BY DEF IInv, TypeOK, BrkOK
<1> QED
  BY <1>1, <1>2, <1>3, <1>4, <1>5, IInvNext DEF ClientOK, ClientType

LEMMA CallKeeps ==
  ASSUME IInv, Call
  PROVE  IInv'
<1>0. PICK op \in {"smalloc", "scalloc", "srealloc", "sfree"},
           p \in {NULL} \cup granted, n \in SIZES \cup {0}, num \in NUMS \cup {1} :
             CallWith(op, p, num, n)
  BY DEF Call
<1>1. HeapType' /\ HeapOK' /\ KnownKept
  BY <1>0, HeapSame DEF IInv, TypeOK, CallWith, os
<1>2. /\ op \in {"smalloc", "scalloc"} => p = NULL
      /\ op = "srealloc" => p \in Reallocable
      /\ op = "sfree" => p \in Releasable /\ n = 0
      /\ op # "scalloc" => num = 1
      /\ call' = [NoCall EXCEPT
           !.op = op, !.old = p, !.blk = p,
           !.n = IF op = "scalloc" THEN TotalSize(num, n) ELSE n,
           !.at = IF op \in {"smalloc", "scalloc"} THEN "smalloc" ELSE op]
      /\ held' = IF op = "sfree" THEN held \ {p} ELSE held
      /\ UNCHANGED <<heap, os, granted>>
  BY <1>0 DEF CallWith
<1> DEFINE place == IF op \in {"smalloc", "scalloc"} THEN "smalloc" ELSE op
<1> DEFINE bytes == IF op = "scalloc" THEN TotalSize(num, n) ELSE n
<1>3. call' = [at |-> place, op |-> op, old |-> p, n |-> bytes,
               ret |-> NULL, moved |-> FALSE, blk |-> p, high |-> 0, splits |-> 0]
  BY <1>2 DEF NoCall
<1>11. bytes \in Nat
  <2>1. n \in Nat /\ num \in Nat
    BY Malloc3Assumption
  <2>2. num * n \in Nat
    BY <2>1
  <2>3. \A x \in Nat : x % SIZE_T_RANGE \in Nat
    BY Malloc3Assumption
  <2> QED
    BY <2>1, <2>2, <2>3 DEF TotalSize
<1>4. p = NULL \/ (p \in Headers /\ Known(p))
  BY DEF IInv, TypeOK, GrantedKnown
<1>5. call' \in Calls
  <2>1. place \in Places
    BY DEF Places
  <2> HIDE DEF place, bytes
  <2> QED
    BY <1>3, <1>4, <1>11, <2>1 DEF Calls
<1>6. p # NULL => Known(p)'
  BY <1>1, <1>4 DEF KnownKept
<1>7. op = "srealloc" /\ p # NULL => p \in live'
  BY <1>2 DEF Reallocable, heap
<1>8. CallOK'
  <2>1. SplitOK' /\ MergeOK' /\ GrowOK'
    BY <1>3 DEF SplitOK, MergeOK, GrowOK, At
  <2>2. SfreeOK'
    BY <1>3, <1>6 DEF SfreeOK, At
  <2>3. OpOK' /\ OldOK' /\ RetOK'
    BY <1>3, <1>7 DEF OpOK, OldOK, RetOK
  <2> QED
    BY <2>1, <2>2, <2>3 DEF CallOK
<1>9. held' \subseteq held /\ granted' = granted /\ BrkOK'
  BY <1>2 DEF IInv, TypeOK, BrkOK, os
<1>10. GrantedKnown' /\ held' \subseteq Headers /\ granted' \subseteq Headers
  BY <1>1, <1>9, NoGrantKeeps DEF IInv, TypeOK, ClientType
<1> QED
  BY <1>1, <1>5, <1>8, <1>9, <1>10, IInvNext DEF ClientOK, ClientType

LEMMA ForeignSbrkKeeps ==
  ASSUME IInv, ForeignSbrk
  PROVE  IInv'
<1>1. HeapType' /\ HeapOK' /\ KnownKept
  BY HeapSame DEF IInv, TypeOK, ForeignSbrk
<1>2. call' = call /\ call.at = "idle" /\ call \in Calls
  BY DEF ForeignSbrk, At, IInv, TypeOK
<1>3. CallOK'
  BY <1>2 DEF CallOK, SplitOK, SfreeOK, MergeOK, GrowOK, OpOK, OldOK, RetOK, At
<1>4. GrantedKnown' /\ held' \subseteq Headers /\ granted' \subseteq Headers
  BY <1>1, NoGrantKeeps DEF IInv, TypeOK, ClientType, ForeignSbrk, client
<1>5. BrkOK'
  BY Malloc3Assumption DEF ForeignSbrk, BrkOK, IInv, TypeOK
<1> QED
  BY <1>1, <1>2, <1>3, <1>4, <1>5, IInvNext DEF ClientOK, ClientType

----------------------------------------------------------------------------
(* smalloc and scalloc. *)

LEMMA FirstAllocationKeeps ==
  ASSUME IInv, FirstAllocatorFails \/ FirstAllocator
  PROVE  IInv'
<1>1. HeapType /\ HeapOK /\ brk \in 1 .. BRK_LIMIT /\ ClientOK
  BY DEF IInv, TypeOK, ClientOK, ClientType
<1>2. CASE FirstAllocatorFails
  <2>1. HeapType' /\ HeapOK' /\ KnownKept /\ BrkOK'
    BY <1>1, <1>2, FirstAllocatorFailsKeeps DEF BrkOK
  <2>2. ClientOK'
    BY <1>1, <1>2, <2>1, FailKeeps DEF FirstAllocatorFails
  <2> QED
    BY <2>1, <2>2, IInvNext
<1>3. CASE FirstAllocator
  <2>1. HeapType' /\ HeapOK' /\ KnownKept /\ BrkOK' /\ live \subseteq live'
    BY <1>1, <1>3, FirstAllocatorKeeps DEF BrkOK
  <2>2. call' = call /\ call.at = "smalloc" /\ held' = held /\ granted' = granted
    BY <1>3 DEF FirstAllocator, At, client
  <2>3. CallOK'
    <3>1. OpOK /\ OldOK
      BY <1>1 DEF ClientOK, CallOK
    <3> QED
      BY <2>1, <2>2, <3>1
         DEF CallOK, SplitOK, SfreeOK, MergeOK, GrowOK, OpOK, OldOK, RetOK, At
  <2>4. GrantedKnown' /\ held' \subseteq Headers /\ granted' \subseteq Headers
    BY <1>1, <2>1, <2>2, NoGrantKeeps DEF ClientOK
  <2> QED
    BY <1>1, <2>1, <2>2, <2>3, <2>4, IInvNext DEF ClientOK, ClientType
<1> QED
  BY <1>2, <1>3

LEMMA SmallocAnswersKeep ==
  ASSUME IInv,
         SmallocReject \/ SmallocNone \/ SmallocMmapFails \/ SmallocMmap \/ SmallocTight
  PROVE  IInv'
<1>1. HeapType /\ HeapOK /\ ClientOK /\ BrkOK /\ call \in Calls
  BY DEF IInv, TypeOK, ClientOK, ClientType, BrkOK
<1>2. UNCHANGED os /\ BrkOK'
  BY <1>1 DEF SmallocReject, SmallocNone, SmallocMmapFails, SmallocMmap, SmallocTight,
              os, BrkOK
<1>3. firstAlloc' = firstAlloc /\ arena' = arena
  BY <1>2 DEF os
<1>4. CASE SmallocReject \/ SmallocNone \/ SmallocMmapFails
  <2>1. UNCHANGED heap
    BY <1>4 DEF SmallocReject, SmallocNone, SmallocMmapFails
  <2>2. HeapType' /\ HeapOK' /\ KnownKept /\ live' = live
    BY <1>1, <1>3, <2>1, HeapSame DEF heap
  <2>3. CASE Fail
    BY <1>1, <1>2, <2>2, <2>3, FailKeeps, IInvNext
  <2>4. CASE SmallocMmapFails
    <3>1. call.at = "smalloc" /\ SmallocReturns(MAP_FAILED)
      BY <2>4 DEF SmallocMmapFails, SmallocReady, At
    <3>2. ClientOK'
      BY <1>1, <2>2, <3>1, SmallocReturnsKeeps
    <3> QED
      BY <1>2, <2>2, <3>2, IInvNext
  <2> QED
    BY <1>4, <2>3, <2>4 DEF SmallocReject, SmallocNone
<1>5. CASE SmallocMmap
  <2>1. PICK a \in MMAP_ADDRS \ live :
          /\ live' = live \cup {a}
          /\ size' = [size EXCEPT ![a] = call.n]
          /\ is_free' = [is_free EXCEPT ![a] = FALSE]
          /\ mmapedList' = FL!_addToList(mmapedList, a, call.n)
          /\ num_allocated_blocks' = num_allocated_blocks + 1
          /\ num_allocated_bytes' = num_allocated_bytes + call.n
          /\ SmallocReturns(a)
    BY <1>5 DEF SmallocMmap, Unused
  <2>2. /\ ~firstAlloc /\ call.n >= MAX_ORDER_BLOCK_SIZE /\ call.at = "smalloc"
        /\ freeBlockListArray' = freeBlockListArray
    BY <1>5 DEF SmallocMmap, SmallocReady, At
  <2>3. PICK n \in Nat : n = call.n
    BY <1>1, TightFacts
  <2>4. HeapType' /\ HeapOK' /\ KnownKept /\ a \in Headers
    <3>1. /\ n >= MAX_ORDER_BLOCK_SIZE
          /\ size' = [size EXCEPT ![a] = n]
          /\ mmapedList' = FL!_addToList(mmapedList, a, n)
          /\ num_allocated_bytes' = num_allocated_bytes + n
      BY <2>1, <2>2, <2>3
    <3> QED
      BY <1>1, <1>3, <2>1, <2>2, <3>1, MmapKeeps
  <2>5. a \in live'
    BY <2>1
  <2>6. ClientOK'
    BY <1>1, <2>1, <2>2, <2>4, <2>5, SmallocReturnsKeeps
  <2> QED
    BY <1>2, <2>4, <2>6, IInvNext
<1>6. CASE SmallocTight
  <2>1. PICK k \in Orders : k = Tight
    BY <1>1, TightFacts
  <2>2. PICK b : b = FL!Head(freeBlockListArray[k])
    OBVIOUS
  <2>3. /\ ~FL!isEmpty(freeBlockListArray[k]) /\ PopHead(b, k) /\ SmallocReturns(b)
        /\ call.at = "smalloc"
        /\ UNCHANGED <<mmapedList, counters, size, live, os>>
    BY <1>6, <2>1, <2>2 DEF SmallocTight, SmallocSearch, SmallocReady, At
  <2>4. /\ HeapType' /\ HeapOK' /\ KnownKept
        /\ b \in Blocks' /\ b \in Headers
    BY <1>1, <1>3, <2>2, <2>3, PopHeadKeeps
  <2>5. b \in live'
    BY <2>4 DEF Blocks
  <2>6. ClientOK'
    BY <1>1, <2>3, <2>4, <2>5, SmallocReturnsKeeps
  <2> QED
    BY <1>2, <2>4, <2>6, IInvNext
<1> QED
  BY <1>4, <1>5, <1>6

(* splitBlock starts: the order it comes from is above the tight one, whose *)
(* list is empty.                                                           *)
LEMMA SmallocHigherKeeps ==
  ASSUME IInv, SmallocHigher
  PROVE  IInv'
<1>1. HeapType /\ HeapOK /\ ClientOK /\ BrkOK /\ call \in Calls
  BY DEF IInv, TypeOK, ClientOK, ClientType, BrkOK
<1>2. PICK tight \in Orders : tight = Tight
  BY <1>1, TightFacts
<1>3. PICK high : high = LowestStocked(tight)
  OBVIOUS
<1>4. PICK b : b = FL!Head(freeBlockListArray[high])
  OBVIOUS
<1>5. /\ call.at = "smalloc"
      /\ FL!isEmpty(freeBlockListArray[tight]) /\ Stocked(tight) # {}
      /\ PopHead(b, high)
      /\ call' = [call EXCEPT !.at = "split", !.blk = b, !.high = high - 1,
                              !.splits = high - tight]
      /\ UNCHANGED <<mmapedList, counters, size, live, os, client>>
  BY <1>2, <1>3, <1>4 DEF SmallocHigher, SmallocSearch, SmallocReady, At
<1>6. high \in Stocked(tight)
  <2>1. tight \in Nat /\ MAX_ORDER \in Nat
    BY <1>2, OrdersType
  <2>2. Stocked(tight) \subseteq Nat
    BY <2>1 DEF Stocked
  <2>3. Min(Stocked(tight)) \in Stocked(tight)
    BY <1>5, <2>2, MinIsLeast
  <2> QED
    BY <1>3, <2>3 DEF LowestStocked
<1>7. high \in Orders /\ tight < high /\ ~FL!isEmpty(freeBlockListArray[high])
  <2>1. tight \in Nat /\ MAX_ORDER \in Nat
    BY <1>2, OrdersType
  <2>2. high \in tight .. MAX_ORDER /\ ~FL!isEmpty(freeBlockListArray[high])
    BY <1>6 DEF Stocked
  <2> QED
    BY <1>5, <2>1, <2>2 DEF Orders
<1>8. UNCHANGED <<firstAlloc, arena, brk>> /\ live' = live /\ size' = size
  BY <1>5 DEF os
<1>9. /\ HeapType' /\ HeapOK' /\ KnownKept /\ b \in Blocks' /\ b \in Headers
      /\ size[b] = Payload(high) /\ ~is_free'[b]
  BY <1>1, <1>4, <1>5, <1>7, <1>8, PopHeadKeeps
<1>10. high \in Int /\ tight \in Int /\ MAX_ORDER \in Nat /\ 0 <= tight /\ high <= MAX_ORDER
  BY <1>2, <1>7, OrdersType DEF Orders
<1>11. call' \in Calls
  <2>1. high - 1 \in Int /\ high - tight \in Int
    BY <1>10
  <2>2. call' = [call EXCEPT !.at = "split", !.blk = b, !.high = high - 1,
                             !.splits = high - tight]
    BY <1>5
  <2>3. call \in Calls /\ b \in Headers
    BY <1>1, <1>9
  <2> QED
    BY <2>1, <2>2, <2>3 DEF Calls, Places
<1>12. /\ call'.at = "split" /\ call'.blk = b /\ call'.high = high - 1
       /\ call'.op = call.op /\ call'.old = call.old /\ call'.n = call.n
  BY <1>1, <1>5 DEF Calls
<1>13. Tight' = tight
  BY <1>2, <1>12 DEF Tight
<1>14. SplitOK'
  <2>1. high - 1 + 1 = high /\ high - 1 \in -1 .. MAX_ORDER - 1 /\ tight <= high
    BY <1>7, <1>10
  <2> QED
    BY <1>8, <1>9, <1>12, <1>13, <2>1 DEF SplitOK
<1>15. OpOK' /\ OldOK'
  BY <1>1, <1>5, <1>8, <1>12 DEF ClientOK, CallOK, OpOK, OldOK
<1>16. SfreeOK' /\ MergeOK' /\ GrowOK' /\ RetOK'
  BY <1>12 DEF SfreeOK, MergeOK, GrowOK, RetOK, At
<1>17. GrantedKnown' /\ held' \subseteq Headers /\ granted' \subseteq Headers
  BY <1>1, <1>5, <1>9, NoGrantKeeps DEF ClientOK, client
<1> QED
  BY <1>1, <1>8, <1>9, <1>11, <1>14, <1>15, <1>16, <1>17, IInvNext
     DEF ClientOK, ClientType, CallOK, BrkOK

LEMMA SplitStepKeeps ==
  ASSUME IInv, SplitStep
  PROVE  IInv'
<1>1. HeapType /\ HeapOK /\ ClientOK /\ BrkOK /\ call \in Calls
  BY DEF IInv, TypeOK, ClientOK, ClientType, BrkOK
<1>2. PICK b, h, tight : b = call.blk /\ h = call.high /\ tight = Tight
  OBVIOUS
<1>3. PICK right : right = b + getOrderSize(h)
  OBVIOUS
<1>4. /\ call.at = "split" /\ h >= tight
      /\ size' = [size EXCEPT ![b] = Payload(h), ![right] = Payload(h)]
      /\ is_free' = [is_free EXCEPT ![b] = FALSE, ![right] = TRUE]
      /\ freeBlockListArray' = [freeBlockListArray EXCEPT
                         ![h] = FL!_addToList(@, right, Payload(h))]
      /\ live' = live \cup {right}
      /\ call' = [call EXCEPT !.high = h - 1]
      /\ UNCHANGED <<mmapedList, counters, os, client>>
  BY <1>1, <1>2, <1>3 DEF SplitStep, SplitsLeft, NextLower, At, Calls
<1>5. /\ b \in Blocks /\ ~is_free[b] /\ h \in -1 .. MAX_ORDER - 1
      /\ tight <= h + 1 /\ size[b] = Payload(h + 1)
  BY <1>1, <1>2, <1>4 DEF ClientOK, CallOK, SplitOK, At
<1>6. tight \in Orders
  BY <1>1, <1>2, TightFacts
<1>7. h \in Orders /\ h < MAX_ORDER /\ h \in Int
  BY <1>4, <1>5, <1>6, OrdersType DEF Orders
<1>8. UNCHANGED <<firstAlloc, arena, brk, held, granted>>
  BY <1>4 DEF os, client
<1>9. /\ HeapType' /\ HeapOK' /\ KnownKept
      /\ b \in Blocks' /\ ~is_free'[b] /\ size'[b] = Payload(h)
  BY <1>1, <1>3, <1>4, <1>5, <1>7, <1>8, SplitKeeps
<1>10. /\ call' \in Calls /\ call'.at = "split" /\ call'.blk = b /\ call'.high = h - 1
       /\ call'.op = call.op /\ call'.old = call.old /\ call'.n = call.n
  BY <1>1, <1>2, <1>4, <1>7 DEF Calls
<1>11. Tight' = tight
  BY <1>2, <1>10 DEF Tight
<1>12. SplitOK'
  <2>1. h - 1 + 1 = h /\ h - 1 \in -1 .. MAX_ORDER - 1 /\ tight <= h
    BY <1>4, <1>6, <1>7, OrdersType DEF Orders
  <2> QED
    BY <1>9, <1>10, <1>11, <2>1 DEF SplitOK
<1>13. OpOK' /\ OldOK'
  BY <1>1, <1>4, <1>10 DEF ClientOK, CallOK, OpOK, OldOK
<1>14. SfreeOK' /\ MergeOK' /\ GrowOK' /\ RetOK'
  BY <1>10 DEF SfreeOK, MergeOK, GrowOK, RetOK, At
<1>15. GrantedKnown' /\ held' \subseteq Headers /\ granted' \subseteq Headers
  BY <1>1, <1>8, <1>9, NoGrantKeeps DEF ClientOK
<1> QED
  BY <1>1, <1>8, <1>9, <1>10, <1>12, <1>13, <1>14, <1>15, IInvNext
     DEF ClientOK, ClientType, CallOK, BrkOK

(* Only the two global counters change. *)
LEMMA CountKeeps ==
  ASSUME HeapType, HeapOK, NEW d \in Int, CountBlocks(d),
         UNCHANGED <<freeBlockListArray, mmapedList, headers, live, firstAlloc, arena>>
  PROVE  HeapType' /\ HeapOK' /\ KnownKept /\ Blocks' = Blocks
<1>1. HeapType'
  <2>1. num_allocated_blocks' \in Int /\ num_allocated_bytes' \in Int
    BY OrdersType DEF CountBlocks, HeapType
  <2> QED
    BY <2>1 DEF HeapType, headers
<1>2. Blocks' = Blocks /\ ArenaOK' /\ Tiling' /\ MappedAreBig'
  BY FlagsOnly DEF headers
<1>3. Listed'
  BY <1>2 DEF HeapOK, Listed, FreeBlocks, headers
<1>4. KnownKept
  BY DEF KnownKept, Known, headers
<1> QED
  BY <1>1, <1>2, <1>3, <1>4 DEF HeapOK

LEMMA SplitReturnKeeps ==
  ASSUME IInv, SplitReturn
  PROVE  IInv'
<1>1. HeapType /\ HeapOK /\ ClientOK /\ BrkOK /\ call \in Calls
  BY DEF IInv, TypeOK, ClientOK, ClientType, BrkOK
<1>2. PICK b \in Blocks, d \in Int : b = call.blk /\ d = call.splits
  <2>1. call.splits \in Int
    BY <1>1 DEF Calls
  <2>2. call.blk \in Blocks
    BY <1>1 DEF ClientOK, CallOK, SplitOK, SplitReturn
  <2> QED
    BY <2>1, <2>2
<1>3. /\ call.at = "split" /\ CountBlocks(d) /\ SmallocReturns(b)
      /\ UNCHANGED <<freeBlockListArray, mmapedList, headers, live, os>>
  BY <1>2 DEF SplitReturn, At
<1>4. UNCHANGED <<firstAlloc, arena, brk>>
  BY <1>3 DEF os
<1>5. HeapType' /\ HeapOK' /\ KnownKept /\ Blocks' = Blocks
  BY <1>1, <1>3, <1>4, CountKeeps
<1>6. b \in Headers /\ b \in live'
  BY <1>5 DEF Blocks, Headers
<1>7. ClientOK'
  BY <1>1, <1>3, <1>5, <1>6, SmallocReturnsKeeps
<1> QED
  BY <1>1, <1>4, <1>5, <1>7, IInvNext DEF BrkOK

(* Writes over dead headers, and the pointers lost with them.              *)
LEMMA WritesKeepClient ==
  ASSUME ClientType, GrantedKnown, NEW S, held' \subseteq Headers,
         granted' = granted \ S,
         \A p \in Headers \ S : Known(p) => Known(p)'
  PROVE  granted' \subseteq Headers /\ GrantedKnown'
BY DEF ClientType, GrantedKnown

LEMMA WriteKilledKeeps ==
  ASSUME IInv, ScallocKilled \/ SreallocKilled
  PROVE  IInv'
<1>1. HeapType /\ HeapOK /\ ClientOK /\ BrkOK
  BY DEF IInv, TypeOK, ClientOK, ClientType, BrkOK
<1>2. UNCHANGED <<heap, os, client>> /\ (Goto("segv") \/ Goto("overrun"))
  BY DEF ScallocKilled, SreallocKilled, WriteKills
<1>3. HeapType' /\ HeapOK' /\ KnownKept /\ BrkOK'
  BY <1>1, <1>2, HeapSame DEF os, BrkOK
<1> QED
  BY <1>1, <1>2, <1>3, GotoDeadKeeps, IInvNext DEF client

LEMMA ClientWritesKeeps ==
  ASSUME IInv, ClientWrites
  PROVE  IInv'
<1>1. HeapType /\ HeapOK /\ ClientOK /\ BrkOK /\ call \in Calls
  BY DEF IInv, TypeOK, ClientOK, ClientType, BrkOK
<1>11. PICK b \in held \cap live :
         \E h \in Buried(b, size[b]), w \in PATTERNS :
           /\ size' = [size EXCEPT ![h] = w.size]
           /\ is_free' = [is_free EXCEPT ![h] = w.is_free]
           /\ granted' = granted \ {h}
  BY DEF ClientWrites
<1>2. PICK h \in Buried(b, size[b]), w \in PATTERNS :
        /\ size' = [size EXCEPT ![h] = w.size]
        /\ is_free' = [is_free EXCEPT ![h] = w.is_free]
        /\ granted' = granted \ {h}
  BY <1>11
<1>3. h \in Slots \ live
  <2>1. size[b] \in Nat
    BY <1>1 DEF HeapType
  <2>2. size[b] <= size[b]
    BY <2>1
  <2> QED
    BY <1>1, <2>1, <2>2, BuriedIsDead
<1>4. UNCHANGED <<freeBlockListArray, mmapedList, counters, live, firstAlloc, arena,
                  brk, held, call>> /\ call.at = "idle"
  BY DEF ClientWrites, os, At
<1>5. /\ size' \in [Headers -> Nat] /\ is_free' \in [Headers -> BOOLEAN]
      /\ \A x \in Headers \ {h} : size'[x] = size[x] /\ is_free'[x] = is_free[x]
  <2>1. w.size \in Nat /\ w.is_free \in BOOLEAN
    BY Malloc3Assumption
  <2>2. size \in [Headers -> Nat] /\ is_free \in [Headers -> BOOLEAN]
    BY <1>1 DEF HeapType
  <2> QED
    BY <1>2, <2>1, <2>2
<1>6. {h} \in SUBSET (Slots \ live)
  BY <1>3
<1>7. HeapType' /\ HeapOK' /\ \A p \in Headers \ {h} : Known(p) => Known(p)'
  BY <1>1, <1>4, <1>5, <1>6, ScribbleKeeps
<1>8. held' \subseteq Headers /\ granted' \subseteq Headers /\ GrantedKnown'
  BY <1>1, <1>2, <1>4, <1>7, WritesKeepClient DEF ClientOK, ClientType
<1>9. CallOK' /\ call' \in Calls
  BY <1>1, <1>4 DEF CallOK, SplitOK, SfreeOK, MergeOK, GrowOK, OpOK, OldOK, RetOK, At
<1>10. BrkOK'
  BY <1>1, <1>4 DEF BrkOK
<1> QED
  BY <1>7, <1>8, <1>9, <1>10, IInvNext DEF ClientOK, ClientType

LEMMA ScallocMemsetKeeps ==
  ASSUME IInv, ScallocMemset
  PROVE  IInv'
<1>1. HeapType /\ HeapOK /\ ClientOK /\ BrkOK /\ call \in Calls
  BY DEF IInv, TypeOK, ClientOK, ClientType, BrkOK
<1>2. PICK b, n : b = call.ret /\ n = call.n
  OBVIOUS
<1>3. /\ call.at = "memset" /\ b \in live /\ b \in Headers
      /\ n \in Nat /\ n <= size[b]
  BY <1>1, <1>2 DEF ScallocMemset, At, ClientOK, CallOK, RetOK, Calls, HeapType
<1>4. PICK cleared : cleared = Buried(b, n)
  OBVIOUS
<1>5. /\ size' = [h \in Headers |-> IF h \in cleared THEN 0 ELSE size[h]]
      /\ is_free' = [h \in Headers |-> h \notin cleared /\ is_free[h]]
      /\ held' = held \cup {b} /\ granted' = (granted \ cleared) \cup {b}
      /\ Answer(b, FALSE)
  <2>1. \A h : Covered(h, b, n) <=> h \in cleared
    BY <1>4 DEF Buried, Covered
  <2> QED
    BY <1>2, <1>4, <2>1 DEF ScallocMemset
<1>6. UNCHANGED <<freeBlockListArray, mmapedList, counters, live, firstAlloc, arena, brk>>
  BY DEF ScallocMemset, os
<1>7. cleared \in SUBSET (Slots \ live)
  BY <1>1, <1>3, <1>4, BuriedIsDead
<1>8. /\ size' \in [Headers -> Nat] /\ is_free' \in [Headers -> BOOLEAN]
      /\ \A x \in Headers \ cleared : size'[x] = size[x] /\ is_free'[x] = is_free[x]
  BY <1>1, <1>5 DEF HeapType
<1>9. /\ HeapType' /\ HeapOK' /\ \A p \in Headers \ cleared : Known(p) => Known(p)'
      /\ \A p \in live : Known(p)'
  BY <1>1, <1>6, <1>7, <1>8, ScribbleKeeps
<1>10. held' \subseteq Headers /\ granted' \subseteq Headers /\ GrantedKnown'
  BY <1>1, <1>3, <1>5, <1>9 DEF ClientOK, ClientType, GrantedKnown
<1>11. call' \in Calls /\ CallOK'
  BY <1>1, <1>3, <1>5, AnswerEnds
<1>12. BrkOK'
  BY <1>1, <1>6 DEF BrkOK
<1> QED
  BY <1>9, <1>10, <1>11, <1>12, IInvNext DEF ClientOK, ClientType

----------------------------------------------------------------------------
(* sfree. *)

(* A readable header that says used is that of a block. *)
LEMMA UsedIsLive ==
  ASSUME HeapType, ClientOK, SfreeReadable, NEW b, b = call.blk
  PROVE  /\ b \in Headers /\ Known(b)
         /\ ~is_free[b] => b \in live
<1>1. Known(b)
  BY DEF SfreeReadable, ClientOK, CallOK, SfreeOK
<1> QED
  BY <1>1, KnownIsHeader DEF SfreeReadable, Unmapped, Known

LEMMA SfreeQuietKeeps ==
  ASSUME IInv, SfreeNull \/ SfreeSegv \/ SfreeReleased \/ SfreeTriesMerge
  PROVE  IInv'
<1>1. HeapType /\ HeapOK /\ ClientOK /\ BrkOK /\ call \in Calls
  BY DEF IInv, TypeOK, ClientOK, ClientType, BrkOK
<1>2. UNCHANGED <<heap, os>>
  BY DEF SfreeNull, SfreeSegv, SfreeReleased, SfreeTriesMerge
<1>3. HeapType' /\ HeapOK' /\ KnownKept /\ BrkOK' /\ Blocks' = Blocks
  BY <1>1, <1>2, HeapSame DEF os, BrkOK, heap, Blocks
<1>4. CASE SfreeNull \/ SfreeReleased
  <2>1. call.at = "sfree" /\ SfreeReturns
    BY <1>4 DEF SfreeNull, SfreeReleased, SfreeReadable, At
  <2> QED
    BY <1>1, <1>3, <2>1, SfreeReturnsKeeps, IInvNext
<1>5. CASE SfreeSegv
  BY <1>1, <1>3, <1>5, GotoDeadKeeps, IInvNext DEF SfreeSegv, client
<1>6. CASE SfreeTriesMerge
  <2>1. PICK b : b = call.blk
    OBVIOUS
  <2>2. b \in live /\ size[b] < MAX_ORDER_BLOCK_SIZE /\ call.at = "sfree"
    BY <1>1, <1>6, <2>1, UsedIsLive DEF SfreeTriesMerge, SfreeArena, SfreeReadable, At
  <2>3. b \in Blocks
    BY <1>1, <2>2, SmallIsArena
  <2>4. Goto("merge") /\ UNCHANGED client
    BY <1>6 DEF SfreeTriesMerge
  <2>5. /\ call' \in Calls /\ call'.at = "merge" /\ call'.blk = b
        /\ call'.op = call.op /\ call'.ret = call.ret
    BY <1>1, <2>1, <2>4, GotoMoves DEF Places
  <2>6. call.op # "sfree" => Known(call.ret) /\ call.ret \in Headers
    BY <1>1, <2>2, KnownIsHeader DEF ClientOK, CallOK, RetOK
  <2>7. RetOK'
    <3>1. PICK r : r = call.ret
      OBVIOUS
    <3>2. call.op # "sfree" => Known(r)'
      BY <1>3, <2>6, <3>1 DEF KnownKept
    <3> QED
      BY <2>5, <3>1, <3>2 DEF RetOK
  <2>8. SplitOK' /\ SfreeOK' /\ MergeOK' /\ GrowOK' /\ OpOK' /\ OldOK'
    BY <1>1, <1>3, <2>2, <2>3, <2>5
       DEF ClientOK, CallOK, SplitOK, SfreeOK, MergeOK, GrowOK, OpOK, OldOK, At
  <2>9. GrantedKnown' /\ held' \subseteq Headers /\ granted' \subseteq Headers
    BY <1>1, <1>3, <2>4, NoGrantKeeps DEF ClientOK, client
  <2> QED
    BY <1>3, <2>5, <2>7, <2>8, <2>9, IInvNext DEF ClientOK, ClientType, CallOK
<1> QED
  BY <1>4, <1>5, <1>6

LEMMA SfreeHeapKeeps ==
  ASSUME IInv, SfreeMunmap \/ SfreeAlone
  PROVE  IInv'
<1>1. HeapType /\ HeapOK /\ ClientOK /\ BrkOK /\ call \in Calls
  BY DEF IInv, TypeOK, ClientOK, ClientType, BrkOK
<1>2. PICK b : b = call.blk
  OBVIOUS
<1>3. /\ SfreeReadable /\ ~is_free[b] /\ SfreeReturns /\ UNCHANGED os
      /\ call.at = "sfree"
  BY <1>2 DEF SfreeMunmap, SfreeAlone, SfreeArena, SfreeReadable, At
<1>4. b \in Headers /\ Known(b) /\ b \in live
  BY <1>1, <1>2, <1>3, UsedIsLive
<1>5. UNCHANGED <<firstAlloc, arena, brk>> /\ BrkOK'
  BY <1>1, <1>3 DEF os, BrkOK
<1>6. HeapType' /\ HeapOK' /\ KnownKept
  <2>1. CASE SfreeMunmap
    <3>1. /\ size[b] >= MAX_ORDER_BLOCK_SIZE
          /\ num_allocated_blocks' = num_allocated_blocks - 1
          /\ num_allocated_bytes' = num_allocated_bytes - size[b]
          /\ mmapedList' = FL!_removeFromList(mmapedList, b, size[b])
          /\ live' = live \ {b}
          /\ size' = [size EXCEPT ![b] = 0]
          /\ UNCHANGED <<freeBlockListArray, is_free, os>>
      BY <1>2, <2>1 DEF SfreeMunmap
    <3> QED
      BY <1>1, <1>3, <1>4, <1>5, <3>1, MunmapKeeps
  <2>2. CASE SfreeAlone
    <3>1. /\ size[b] < MAX_ORDER_BLOCK_SIZE /\ MarkFree(b)
          /\ UNCHANGED <<mmapedList, counters, size, live, os>>
      BY <1>2, <2>2 DEF SfreeAlone, SfreeArena
    <3>2. b \in Blocks
      BY <1>1, <1>4, <3>1, SmallIsArena
    <3> QED
      BY <1>1, <1>3, <1>5, <3>1, <3>2, MarkFreeKeeps
  <2> QED
    BY <2>1, <2>2
<1> QED
  BY <1>1, <1>3, <1>5, <1>6, SfreeReturnsKeeps, IInvNext

(* One turn of the loop of sfree. *)
LEMMA MergeStepKeeps ==
  ASSUME IInv, MergeStep
  PROVE  IInv'
<1>1. HeapType /\ HeapOK /\ ClientOK /\ BrkOK /\ call \in Calls
  BY DEF IInv, TypeOK, ClientOK, ClientType, BrkOK
<1>2. PICK b : b = call.blk
  OBVIOUS
<1>3. b \in Blocks
  BY <1>1, <1>2 DEF MergeStep, ClientOK, CallOK, MergeOK
<1>4. PICK k \in Orders : size[b] = Payload(k) /\ findTightOrder(size[b]) = k
  BY <1>1, <1>3, BlockFacts DEF HeapOK, Tiling
<1>5. PICK buddy : buddy = findBuddyAddress(b)
  OBVIOUS
<1>6. PICK left : left = Ancestor(b, k + 1)
  OBVIOUS
<1>7. /\ call.at = "merge" /\ k < MAX_ORDER
      /\ is_free[buddy] /\ size[buddy] = size[b] /\ mergeBlocks(b, buddy)
  BY <1>2, <1>4, <1>5 DEF MergeStep, CanMerge, At
<1>8. /\ HeapType' /\ HeapOK' /\ KnownKept /\ left \in Blocks'
      /\ call' = [call EXCEPT !.blk = left]
      /\ held' = held /\ granted' = granted /\ brk' = brk
  BY <1>1, <1>3, <1>4, <1>5, <1>6, <1>7, MergeKeeps
<1>9. left \in Headers
  BY <1>8 DEF Blocks, Headers
<1>10. /\ call' \in Calls /\ call'.at = "merge" /\ call'.blk = left
       /\ call'.op = call.op /\ call'.ret = call.ret
  BY <1>1, <1>7, <1>8, <1>9 DEF Calls
<1>11. RetOK'
  <2>1. PICK r : r = call.ret
    OBVIOUS
  <2>2. call.op # "sfree" => Known(r) /\ r \in Headers
    BY <1>1, <1>7, <2>1, KnownIsHeader DEF ClientOK, CallOK, RetOK
  <2>3. call.op # "sfree" => Known(r)'
    BY <1>8, <2>2 DEF KnownKept
  <2> QED
    BY <1>10, <2>1, <2>3 DEF RetOK
<1>12. SplitOK' /\ SfreeOK' /\ MergeOK' /\ GrowOK' /\ OpOK' /\ OldOK'
  BY <1>1, <1>7, <1>8, <1>10
     DEF ClientOK, CallOK, SplitOK, SfreeOK, MergeOK, GrowOK, OpOK, OldOK, At
<1>13. GrantedKnown' /\ held' \subseteq Headers /\ granted' \subseteq Headers
  BY <1>1, <1>8, NoGrantKeeps DEF ClientOK
<1> QED
  BY <1>1, <1>8, <1>10, <1>11, <1>12, <1>13, IInvNext
     DEF ClientOK, ClientType, CallOK, BrkOK

LEMMA MergeEndKeeps ==
  ASSUME IInv, MergeStop \/ MergeTop
  PROVE  IInv'
<1>1. HeapType /\ HeapOK /\ ClientOK /\ BrkOK /\ call \in Calls
  BY DEF IInv, TypeOK, ClientOK, ClientType, BrkOK
<1>2. PICK b, k : b = call.blk /\ k = findTightOrder(size[call.blk])
  OBVIOUS
<1>3. call.at = "merge" /\ b \in Blocks
  BY <1>1, <1>2 DEF MergeStop, MergeTop, At, ClientOK, CallOK, MergeOK
<1>4. SfreeReturns /\ UNCHANGED os
  BY DEF MergeStop, MergeTop, Break
<1>5. UNCHANGED <<firstAlloc, arena, brk>> /\ BrkOK'
  BY <1>1, <1>4 DEF os, BrkOK
<1>6. HeapType' /\ HeapOK' /\ KnownKept
  <2>1. CASE MergeStop
    <3>1. /\ is_free' = [is_free EXCEPT ![b] = TRUE]
          /\ freeBlockListArray' =
               IF b \in freeBlockListArray[k].blocks THEN freeBlockListArray
               ELSE [freeBlockListArray EXCEPT ![k] = FL!_addToList(@, b, size[b])]
          /\ UNCHANGED <<mmapedList, counters, size, live>>
      BY <1>2, <2>1 DEF MergeStop
    <3> QED
      BY <1>1, <1>2, <1>3, <1>5, <3>1, MergeStopKeeps
  <2>2. CASE MergeTop
    BY <1>1, <1>5, <2>2, HeapSame DEF MergeTop
  <2> QED
    BY <2>1, <2>2
<1> QED
  BY <1>1, <1>3, <1>4, <1>5, <1>6, SfreeReturnsKeeps, IInvNext

----------------------------------------------------------------------------
(* srealloc. *)

(* What srealloc knows of the block it is given. *)
LEMMA OldIsLive ==
  ASSUME HeapType, HeapOK, ClientOK, SreallocReady, NEW b, b = call.old
  PROVE  /\ call.at = "srealloc" /\ call.op = "srealloc"
         /\ b \in live /\ b \in Headers /\ Known(b) /\ call.blk = b
         /\ ~Big => b \in Blocks
<1>1. /\ call.at = "srealloc" /\ call.op = "srealloc" /\ call.old # NULL
  BY DEF SreallocReady, At, ClientOK, CallOK, OpOK
<1>2. b \in live /\ call.blk = b
  BY <1>1 DEF ClientOK, CallOK, OldOK
<1>3. Known(b) /\ b \in Headers
  BY <1>2, KnownIsHeader DEF Known
<1>4. ASSUME ~Big PROVE b \in Blocks
  <2>1. size[b] \in Nat /\ ~(size[b] > Payload(MAX_ORDER))
    BY <1>3, <1>4 DEF Big, HeapType
  <2>2. size[b] < MAX_ORDER_BLOCK_SIZE
    BY <2>1, OrdersType, PayloadType, DivisorType, GeometryAssumption DEF Payload
  <2> QED
    BY <1>2, <2>2, SmallIsArena
<1> QED
  BY <1>1, <1>2, <1>3, <1>4

LEMMA SreallocQuietKeeps ==
  ASSUME IInv,
         SreallocReject \/ SreallocNull \/ SreallocSame \/ SreallocMoves
  PROVE  IInv'
<1>1. HeapType /\ HeapOK /\ ClientOK /\ BrkOK /\ call \in Calls
  BY DEF IInv, TypeOK, ClientOK, ClientType, BrkOK
<1>2. UNCHANGED <<heap, os>>
  BY DEF SreallocReject, SreallocNull, SreallocSame, SreallocMoves
<1>3. HeapType' /\ HeapOK' /\ KnownKept /\ BrkOK' /\ live' = live
  BY <1>1, <1>2, HeapSame DEF os, BrkOK, heap
<1>4. CASE SreallocReject
  BY <1>1, <1>3, <1>4, FailKeeps, IInvNext DEF SreallocReject
<1>5. CASE SreallocSame
  <2>1. PICK b : b = call.old
    OBVIOUS
  <2>2. b \in Headers /\ Known(b)
    BY <1>1, <1>5, <2>1, OldIsLive DEF SreallocSame
  <2>3. Answer(b, FALSE) /\ Grant(b, {})
    BY <1>5, <2>1 DEF SreallocSame
  <2>4. Known(b)'
    BY <1>3, <2>2 DEF KnownKept
  <2> QED
    BY <1>1, <1>3, <2>2, <2>3, <2>4, AnswerGrantKeeps, IInvNext
<1>6. CASE SreallocNull \/ SreallocMoves
  <2>1. Goto("smalloc") /\ UNCHANGED client /\ call.at = "srealloc"
    BY <1>6 DEF SreallocNull, SreallocMoves, SreallocGrows, SreallocReady, At
  <2>2. /\ call' \in Calls /\ call'.at = "smalloc"
        /\ call'.op = call.op /\ call'.old = call.old
    BY <1>1, <2>1, GotoMoves DEF Places
  <2>3. OpOK /\ OldOK
    BY <1>1 DEF ClientOK, CallOK
  <2>4. CallOK'
    BY <1>3, <2>1, <2>2, <2>3
       DEF CallOK, SplitOK, SfreeOK, MergeOK, GrowOK, OpOK, OldOK, RetOK, At
  <2>5. GrantedKnown' /\ held' \subseteq Headers /\ granted' \subseteq Headers
    BY <1>1, <1>3, <2>1, NoGrantKeeps DEF ClientOK, client
  <2> QED
    BY <1>3, <2>2, <2>4, <2>5, IInvNext DEF ClientOK, ClientType
<1> QED
  BY <1>4, <1>5, <1>6

(* A header that is copied comes from under the bytes of the old block.    *)
LEMMA CopiedFromHeaders ==
  ASSUME HeapType, HeapOK, NEW b \in live, NEW r \in live, size[b] <= size[r],
         NEW h \in Buried(r, size[b])
  PROVE  h - r + b \in Slots /\ h - r + b \in Headers
<1>1. h \in Slots /\ r < h /\ h < r + META + size[b] /\ h \in Nat
  BY SlotsType DEF Buried, Covered
<1>2. b \in Headers /\ r \in Headers /\ size[b] \in Nat /\ size[r] \in Nat
  BY DEF HeapType
<1>3. r \in Blocks
  <2>1. h <= BRK_LIMIT /\ BRK_LIMIT \in Nat
    BY <1>1, Malloc3Assumption DEF Slots
  <2>2. r \in MMAP_ADDRS => r \in Nat /\ r > BRK_LIMIT
    BY Malloc3Assumption
  <2> QED
    BY <1>1, <1>2, <2>1, <2>2 DEF Headers, Blocks
<1>4. PICK k \in Orders : size[r] = Payload(k)
  BY <1>3 DEF HeapOK, Tiling, Shaped
<1>5. size[r] < MAX_ORDER_BLOCK_SIZE
  <2>1. Payload(k) <= Payload(MAX_ORDER)
    <3>1. MAX_ORDER \in Orders /\ (k = MAX_ORDER \/ k < MAX_ORDER)
      BY OrdersType DEF Orders
    <3> QED
      BY <3>1, PayloadType
  <2>2. Payload(MAX_ORDER) < MAX_ORDER_BLOCK_SIZE
    BY OrdersType, PayloadType, DivisorType, GeometryAssumption DEF Payload
  <2> QED
    BY <1>4, <2>1, <2>2, OrdersType, PayloadType, DivisorType
<1>6. b \in Blocks
  <2>1. size[b] < MAX_ORDER_BLOCK_SIZE
    BY <1>2, <1>5, DivisorType
  <2> QED
    BY <2>1, SmallIsArena
<1>7. /\ b \in Nat /\ b >= 1 /\ b + size[b] + META <= BRK_LIMIT
      /\ b % ORDER_SIZE = 0 /\ r \in Nat /\ r % ORDER_SIZE = 0 /\ h % ORDER_SIZE = 0
  <2>1. b \in Slots /\ r \in Slots
    BY <1>3, <1>6 DEF Blocks
  <2>2. b + Whole(b) <= BRK_LIMIT
    <3>1. PICK j \in Orders : /\ b \in ArenaSlots /\ Ancestor(b, j) = b
                              /\ Whole(b) = getOrderSize(j)
      BY <1>6, BlockFacts DEF HeapOK, Tiling
    <3>2. b + Whole(b) <= arena + PROGRAM_BREAK_DIVISOR
      BY <3>1, AncestorInArena DEF HeapOK
    <3>3. /\ arena + PROGRAM_BREAK_DIVISOR <= BRK_LIMIT /\ arena \in Nat
      BY <3>1, ArenaFacts DEF HeapOK, ArenaOK
    <3> QED
      BY <1>2, <2>1, <3>2, <3>3, SlotsType, DivisorType, OrdersType,
         Malloc3Assumption DEF Whole
  <2>3. b \in Nat /\ b >= 1 /\ r \in Nat
    BY <2>1 DEF Slots
  <2> QED
    BY <1>1, <1>2, <2>1, <2>2, <2>3, SlotsType, OrdersType DEF Whole
<1>8. (h - r + b) % ORDER_SIZE = 0
  <2>1. ORDER_SIZE \in Nat \ {0}
    BY OrdersType
  <2>2. PICK d \in Nat : d = h - r
    BY <1>1, <1>7
  <2>3. h >= r /\ (h - r) % ORDER_SIZE = 0
    <3>1. h \in Nat /\ r \in Nat /\ h >= r /\ h % ORDER_SIZE = 0 /\ r % ORDER_SIZE = 0
      BY <1>1, <1>7
    <3>2. h >= r => (h - r) % ORDER_SIZE = 0
      BY <2>1, <3>1, MultipleSum, Zenon
    <3> QED
      BY <3>1, <3>2
  <2>4. (d + b) % ORDER_SIZE = 0
    BY <1>7, <2>1, <2>2, <2>3, MultipleSum
  <2> QED
    BY <2>2, <2>4
<1>9. h - r + b \in 1 .. BRK_LIMIT
  BY <1>1, <1>2, <1>7, OrdersType, Malloc3Assumption
<1> QED
  BY <1>8, <1>9 DEF Slots, Headers

LEMMA SreallocMemmoveKeeps ==
  ASSUME IInv, SreallocMemmove
  PROVE  IInv'
<1>1. HeapType /\ HeapOK /\ ClientOK /\ BrkOK /\ call \in Calls
  BY DEF IInv, TypeOK, ClientOK, ClientType, BrkOK
<1>2. PICK b, r : b = call.old /\ r = call.ret
  OBVIOUS
<1>3. /\ call.at = "memmove" /\ call.op = "srealloc" /\ b \in live /\ r \in live
      /\ b \in Headers /\ r \in Headers /\ size[b] \in Nat /\ size[b] <= size[r]
  BY <1>1, <1>2
     DEF SreallocMemmove, At, ClientOK, CallOK, OpOK, OldOK, RetOK, HeapType
<1>4. PICK copied : copied = Buried(r, size[b])
  OBVIOUS
<1> DEFINE From(h) == IF h \in copied THEN h - r + b ELSE h
<1>5. /\ size' = [h \in Headers |-> size[From(h)]]
      /\ is_free' = [h \in Headers |-> is_free[From(h)]]
      /\ held' = held \ {b} /\ granted' = granted \ copied
      /\ call' = [call EXCEPT !.at = "sfree", !.blk = b]
  <2>1. \A h : Covered(h, r, size[b]) <=> h \in copied
    BY <1>4 DEF Buried, Covered
  <2> QED
    BY <1>2, <1>4, <2>1 DEF SreallocMemmove
<1>6. UNCHANGED <<freeBlockListArray, mmapedList, counters, live, firstAlloc, arena, brk>>
  BY DEF SreallocMemmove, os
<1>7. \A h \in Headers : From(h) \in Headers
  BY <1>1, <1>3, <1>4, CopiedFromHeaders
<1>8. copied \in SUBSET (Slots \ live)
  <2>1. Buried(r, size[b]) \subseteq Slots \ live
    BY <1>1, <1>3, BuriedIsDead
  <2> QED
    BY <1>4, <2>1
<1>9. \A x \in Headers \ copied : From(x) = x
  OBVIOUS
<1> HIDE DEF From
<1>10. /\ size' \in [Headers -> Nat] /\ is_free' \in [Headers -> BOOLEAN]
       /\ \A x \in Headers \ copied : size'[x] = size[x] /\ is_free'[x] = is_free[x]
  BY <1>1, <1>5, <1>7, <1>9 DEF HeapType
<1>11. /\ HeapType' /\ HeapOK' /\ \A p \in Headers \ copied : Known(p) => Known(p)'
       /\ \A p \in live : Known(p)'
  BY <1>1, <1>6, <1>8, <1>10, ScribbleKeeps
<1>12. held' \subseteq Headers /\ granted' \subseteq Headers /\ GrantedKnown'
  BY <1>1, <1>5, <1>11, WritesKeepClient DEF ClientOK, ClientType
<1>13. /\ call' \in Calls /\ call'.at = "sfree" /\ call'.blk = b
       /\ call'.op = "srealloc" /\ call'.ret = r
  BY <1>1, <1>2, <1>3, <1>5 DEF Calls, Places
<1>14. CallOK'
  BY <1>3, <1>11, <1>13
     DEF CallOK, SplitOK, SfreeOK, MergeOK, GrowOK, OpOK, OldOK, RetOK, At
<1>15. BrkOK'
  BY <1>1, <1>6 DEF BrkOK
<1> QED
  BY <1>11, <1>12, <1>13, <1>14, <1>15, IInvNext DEF ClientOK, ClientType

LEMMA SreallocReuseKeeps ==
  ASSUME IInv, SreallocReuse
  PROVE  IInv'
<1>1. HeapType /\ HeapOK /\ ClientOK /\ BrkOK /\ call \in Calls
  BY DEF IInv, TypeOK, ClientOK, ClientType, BrkOK
<1>2. PICK b : b = call.old
  OBVIOUS
<1>3. PICK k : k = findTightOrder(size[b])
  OBVIOUS
<1>4. /\ TakeBack(b, k) /\ Answer(b, FALSE) /\ Grant(b, {})
      /\ UNCHANGED <<mmapedList, counters, size, live, os>>
  BY <1>2, <1>3 DEF SreallocReuse
<1>5. b \in Headers /\ Known(b) /\ b \in Blocks
  BY <1>1, <1>2, OldIsLive DEF SreallocReuse
<1>6. UNCHANGED <<firstAlloc, arena, brk>> /\ BrkOK'
  BY <1>1, <1>4 DEF os, BrkOK
<1>7. HeapType' /\ HeapOK' /\ KnownKept
  BY <1>1, <1>3, <1>4, <1>5, <1>6, TakeBackKeeps
<1>8. Known(b)'
  BY <1>5, <1>7 DEF KnownKept
<1> QED
  BY <1>1, <1>4, <1>5, <1>6, <1>7, <1>8, AnswerGrantKeeps, IInvNext

(* canAllocateWithMerges looks at the whole way up before the first merge; *)
(* what it has seen holds when the merges start ...                        *)
LEMMA SreallocMergesKeeps ==
  ASSUME IInv, SreallocMerges
  PROVE  IInv'
<1>1. HeapType /\ HeapOK /\ ClientOK /\ BrkOK /\ call \in Calls
  BY DEF IInv, TypeOK, ClientOK, ClientType, BrkOK
<1>2. PICK b : b = call.old
  OBVIOUS
<1>3. /\ SreallocReady /\ ~Big /\ call.n > size[b]
      /\ canAllocateWithMerges(b, Tight)
      /\ IF is_free[b] THEN UNCHANGED <<is_free, freeBlockListArray>> ELSE MarkFree(b)
      /\ Goto("grow")
      /\ UNCHANGED <<mmapedList, counters, size, live, os, client>>
  BY <1>2 DEF SreallocMerges, SreallocGrows
<1>4. b \in Headers /\ b \in Blocks /\ call.blk = b
  BY <1>1, <1>2, <1>3, OldIsLive
<1>5. UNCHANGED <<firstAlloc, arena, brk, held, granted, size, live>> /\ BrkOK'
  BY <1>1, <1>3 DEF os, BrkOK, client
<1>6. /\ HeapType' /\ HeapOK' /\ KnownKept /\ Blocks' = Blocks
      /\ is_free'[b] /\ \A x \in Headers : is_free[x] => is_free'[x]
  <2>1. Blocks' = Blocks
    BY <1>5 DEF Blocks
  <2>2. CASE is_free[b]
    <3>1. UNCHANGED <<heap, firstAlloc, arena>> /\ is_free' = is_free
      BY <1>3, <1>5, <2>2 DEF heap, headers
    <3> QED
      BY <1>1, <2>1, <2>2, <3>1, HeapSame
  <2>3. CASE ~is_free[b]
    <3>1. MarkFree(b)
      BY <1>3, <2>3
    <3>2. /\ HeapType' /\ HeapOK' /\ KnownKept
          /\ is_free' = [is_free EXCEPT ![b] = TRUE]
      BY <1>1, <1>3, <1>4, <1>5, <2>3, <3>1, MarkFreeKeeps
    <3> QED
      BY <1>1, <1>4, <2>1, <3>2 DEF HeapType
  <2> QED
    BY <2>2, <2>3
<1>7. /\ call' \in Calls /\ call'.at = "grow" /\ call'.blk = b /\ call'.n = call.n
      /\ call'.op = "srealloc"
  BY <1>1, <1>3, <1>4, GotoMoves, OldIsLive DEF Places
<1>8. PICK t \in Orders : t = Tight /\ Tight' = t
  BY <1>1, <1>7, TightFacts DEF Tight
<1>9. PICK j \in Orders : size[b] = Payload(j) /\ findTightOrder(size[b]) = j
  BY <1>1, <1>4, BlockFacts DEF HeapOK, Tiling
<1>10. j <= t
  <2>1. call.n \in Nat /\ Payload(j) < call.n /\ call.n <= Payload(t)
    <3>1. ~(call.n > Payload(MAX_ORDER)) /\ Payload(MAX_ORDER) \in Nat
      BY <1>3, OrdersType, PayloadType DEF Big
    <3> QED
      BY <1>1, <1>3, <1>8, <1>9, <3>1, TightFacts, PayloadType
  <2>2. Payload(j) < Payload(t)
    BY <2>1, PayloadType
  <2> QED
    BY <2>2, PayloadType, OrdersType
<1>11. canAllocateWithMerges(b, t)'
  <2> SUFFICES ASSUME NEW i \in j .. t - 1,
                      NEW x, x = findBuddyAddressBySize(Ancestor(b, i), getOrderSize(i))
               PROVE  is_free'[x] /\ size'[x] = Payload(i)
    BY <1>5, <1>9 DEF canAllocateWithMerges
  <2>1. is_free[x] /\ size[x] = Payload(i)
    BY <1>3, <1>8, <1>9 DEF canAllocateWithMerges
  <2>2. x \in Headers
    <3>1. i \in findTightOrder(size[b]) .. MAX_ORDER - 1
      BY <1>8, <1>9, OrdersType DEF Orders
    <3>2. BuddyIsLive
      BY <1>1, TilingGivesBuddies DEF HeapOK
    <3> QED
      BY <1>4, <3>1, <3>2 DEF BuddyIsLive, Blocks, Headers
  <2> QED
    BY <1>5, <1>6, <2>1, <2>2
<1>12. GrowOK'
  BY <1>4, <1>5, <1>6, <1>7, <1>8, <1>9, <1>10, <1>11 DEF GrowOK
<1>13. SplitOK' /\ SfreeOK' /\ MergeOK' /\ OpOK' /\ OldOK' /\ RetOK'
  BY <1>7 DEF SplitOK, SfreeOK, MergeOK, OpOK, OldOK, RetOK, At
<1>14. GrantedKnown' /\ held' \subseteq Headers /\ granted' \subseteq Headers
  BY <1>1, <1>5, <1>6, NoGrantKeeps DEF ClientOK
<1> QED
  BY <1>5, <1>6, <1>7, <1>12, <1>13, <1>14, IInvNext DEF ClientOK, ClientType, CallOK

(* ... and goes on holding above every merge made on the way.              *)
LEMMA GrowStepKeeps ==
  ASSUME IInv, GrowStep
  PROVE  IInv'
<1>1. HeapType /\ HeapOK /\ ClientOK /\ BrkOK /\ call \in Calls
  BY DEF IInv, TypeOK, ClientOK, ClientType, BrkOK
<1>2. PICK b : b = call.blk
  OBVIOUS
<1>3. PICK t \in Orders : t = Tight
  BY <1>1, TightFacts
<1>4. b \in Blocks /\ canAllocateWithMerges(b, t) /\ call.at = "grow"
  BY <1>1, <1>2, <1>3 DEF GrowStep, ClientOK, CallOK, GrowOK, At
<1>5. PICK k \in Orders : /\ size[b] = Payload(k) /\ findTightOrder(size[b]) = k
                          /\ Ancestor(b, k) = b /\ b \in Nat
                          /\ findBuddyAddress(b) = findBuddyAddressBySize(b, getOrderSize(k))
  BY <1>1, <1>4, BlockFacts DEF HeapOK, Tiling
<1>6. PICK buddy : buddy = findBuddyAddress(b)
  OBVIOUS
<1>7. PICK left : left = Ancestor(b, k + 1)
  OBVIOUS
<1>8. k < t /\ k < MAX_ORDER /\ k + 1 \in Orders /\ mergeBlocks(b, buddy)
  BY <1>2, <1>3, <1>5, <1>6, OrdersType DEF GrowStep, Orders
<1>9. is_free[buddy] /\ size[buddy] = size[b]
  <2>1. k \in findTightOrder(size[b]) .. t - 1
    BY <1>5, <1>8, OrdersType
  <2> QED
    BY <1>4, <1>5, <1>6, <2>1 DEF canAllocateWithMerges
<1>10. /\ HeapType' /\ HeapOK' /\ KnownKept
       /\ left \in Blocks' /\ is_free'[left] /\ size'[left] = Payload(k + 1)
       /\ call' = [call EXCEPT !.blk = left]
       /\ held' = held /\ granted' = granted /\ brk' = brk
       /\ \A x \in Blocks' : x # left => /\ is_free'[x] = is_free[x]
                                         /\ size'[x] = size[x]
       /\ \A x \in Blocks : x \in {b, buddy} \/ x \in Blocks'
  BY <1>1, <1>4, <1>5, <1>6, <1>7, <1>8, <1>9, MergeKeeps
<1>11. left \in {b, buddy} /\ left \in Nat
  BY <1>1, <1>4, <1>5, <1>6, <1>7, <1>8, BuddyFacts
<1>12. left \in Headers
  BY <1>10 DEF Blocks, Headers
<1>13. /\ call' \in Calls /\ call'.at = "grow" /\ call'.blk = left /\ call'.n = call.n
       /\ call'.op = "srealloc"
  BY <1>1, <1>4, <1>10, <1>12 DEF Calls, ClientOK, CallOK, OpOK
<1>14. Tight' = t
  BY <1>3, <1>13 DEF Tight
<1>15. findTightOrder(Payload(k + 1)) = k + 1
  BY <1>8, TightOrderOfPayload
<1>16. canAllocateWithMerges(left, t)'
  <2> SUFFICES ASSUME NEW i \in k + 1 .. t - 1,
                      NEW x, x = findBuddyAddressBySize(Ancestor(left, i), getOrderSize(i))
               PROVE  is_free'[x] /\ size'[x] = Payload(i)
    BY <1>10, <1>15 DEF canAllocateWithMerges
  <2>1. i \in Orders /\ k < i /\ k + 1 <= i /\ i \in k .. t - 1 /\ i \in k .. MAX_ORDER - 1
    BY <1>8, OrdersType DEF Orders
  <2>2. Ancestor(left, i) = Ancestor(b, i)
    <3> DEFINE c == Ancestor(b, i)
    <3>1. /\ c \in Nat /\ c % getOrderSize(i) = 0 /\ c <= b /\ b < c + getOrderSize(i)
      BY <1>5, <2>1, AncestorType
    <3>2. /\ c <= Ancestor(b, k + 1)
          /\ Ancestor(b, k + 1) + getOrderSize(k + 1) <= c + getOrderSize(i)
      BY <1>5, <1>8, <2>1, <3>1, Nested
    <3>3. getOrderSize(k + 1) \in Nat \ {0} /\ getOrderSize(i) \in Nat \ {0}
      BY <1>8, <2>1, OrderSizeType
    <3> HIDE DEF c
    <3>4. c <= left /\ left < c + getOrderSize(i)
      BY <1>7, <1>11, <3>1, <3>2, <3>3
    <3> QED
      BY <1>11, <2>1, <3>1, <3>4, AncestorUnique DEF c
  <2>3. is_free[x] /\ size[x] = Payload(i)
    BY <1>4, <1>5, <2>1, <2>2 DEF canAllocateWithMerges
  <2>4. x \in Blocks
    <3>1. BuddyIsLive
      BY <1>1, TilingGivesBuddies DEF HeapOK
    <3> QED
      BY <1>4, <1>5, <2>1, <2>2, <3>1 DEF BuddyIsLive
  <2>5. x \notin {b, buddy}
    <3>1. Payload(i) # Payload(k)
      BY <2>1, PayloadType
    <3> QED
      BY <1>5, <1>9, <2>3, <3>1
  <2> QED
    BY <1>10, <1>11, <2>3, <2>4, <2>5
<1>17. GrowOK'
  <2>1. k + 1 <= t
    BY <1>8, OrdersType
  <2> QED
    BY <1>10, <1>13, <1>14, <1>15, <1>16, <2>1 DEF GrowOK
<1>18. SplitOK' /\ SfreeOK' /\ MergeOK' /\ OpOK' /\ OldOK' /\ RetOK'
  BY <1>13 DEF SplitOK, SfreeOK, MergeOK, OpOK, OldOK, RetOK, At
<1>19. GrantedKnown' /\ held' \subseteq Headers /\ granted' \subseteq Headers
  BY <1>1, <1>10, NoGrantKeeps DEF ClientOK
<1> QED
  BY <1>1, <1>10, <1>13, <1>17, <1>18, <1>19, IInvNext
     DEF ClientOK, ClientType, CallOK, BrkOK

LEMMA GrowReturnKeeps ==
  ASSUME IInv, GrowReturn
  PROVE  IInv'
<1>1. HeapType /\ HeapOK /\ ClientOK /\ BrkOK /\ call \in Calls
  BY DEF IInv, TypeOK, ClientOK, ClientType, BrkOK
<1>2. PICK b, lost : b = call.blk /\ lost = {call.old}
  OBVIOUS
<1>3. PICK t \in Orders : t = Tight
  BY <1>1, TightFacts
<1>4. b \in Blocks /\ findTightOrder(size[b]) <= t /\ findTightOrder(size[b]) >= t
  BY <1>1, <1>2, <1>3 DEF GrowReturn, ClientOK, CallOK, GrowOK, At
<1>5. findTightOrder(size[b]) \in Orders /\ b \in Headers
  BY <1>1, <1>4, BlockFacts DEF HeapOK, Tiling
<1>6. t = findTightOrder(size[b])
  <2>1. PICK j : j = findTightOrder(size[b])
    OBVIOUS
  <2>2. j \in Nat /\ t \in Nat /\ j <= t /\ j >= t
    BY <1>4, <1>5, <2>1, OrdersType
  <2> QED
    BY <2>1, <2>2
<1>7. /\ TakeBack(b, t) /\ Answer(b, FALSE) /\ Grant(b, lost)
      /\ UNCHANGED <<mmapedList, counters, size, live, os>>
  BY <1>2, <1>3 DEF GrowReturn
<1>8. UNCHANGED <<firstAlloc, arena, brk>> /\ BrkOK'
  BY <1>1, <1>7 DEF os, BrkOK
<1>9. HeapType' /\ HeapOK' /\ KnownKept /\ b \in Blocks'
  BY <1>1, <1>4, <1>6, <1>7, <1>8, TakeBackKeeps
<1>10. Known(b)'
  BY <1>9 DEF Known, Blocks
<1> QED
  BY <1>1, <1>5, <1>7, <1>8, <1>9, <1>10, AnswerGrantKeeps, IInvNext

----------------------------------------------------------------------------

LEMMA NextKeeps ==
  ASSUME IInv, [Next]_vars
  PROVE  IInv'
<1>1. CASE Call
  BY <1>1, CallKeeps
<1>2. CASE ForeignSbrk
  BY <1>2, ForeignSbrkKeeps
<1>3. CASE Step
  <2>1. CASE FirstAllocatorFails \/ FirstAllocator
    BY <2>1, FirstAllocationKeeps
  <2>2. CASE SmallocReject \/ SmallocMmap \/ SmallocMmapFails \/ SmallocTight \/ SmallocNone
    BY <2>2, SmallocAnswersKeep
  <2>3. CASE SmallocHigher
    BY <2>3, SmallocHigherKeeps
  <2>4. CASE SplitStep
    BY <2>4, SplitStepKeeps
  <2>5. CASE SplitReturn
    BY <2>5, SplitReturnKeeps
  <2>6. CASE ScallocMemset
    BY <2>6, ScallocMemsetKeeps
  <2>7. CASE SfreeNull \/ SfreeSegv \/ SfreeReleased \/ SfreeTriesMerge
    BY <2>7, SfreeQuietKeeps
  <2>8. CASE SfreeMunmap \/ SfreeAlone
    BY <2>8, SfreeHeapKeeps
  <2>9. CASE MergeStep
    BY <2>9, MergeStepKeeps
  <2>10. CASE MergeStop \/ MergeTop
    BY <2>10, MergeEndKeeps
  <2>11. CASE SreallocReject \/ SreallocNull \/ SreallocSame \/ SreallocMoves
    BY <2>11, SreallocQuietKeeps
  <2>16. CASE SreallocMemmove
    BY <2>16, SreallocMemmoveKeeps
  <2>17. CASE ScallocKilled \/ SreallocKilled
    BY <2>17, WriteKilledKeeps
  <2>12. CASE SreallocReuse
    BY <2>12, SreallocReuseKeeps
  <2>13. CASE SreallocMerges
    BY <2>13, SreallocMergesKeeps
  <2>14. CASE GrowStep
    BY <2>14, GrowStepKeeps
  <2>15. CASE GrowReturn
    BY <2>15, GrowReturnKeeps
  <2> QED
    BY <1>3, <2>1, <2>2, <2>3, <2>4, <2>5, <2>6, <2>7, <2>8, <2>9, <2>10, <2>11,
       <2>12, <2>13, <2>14, <2>15, <2>16, <2>17 DEF Step
<1>4. CASE ClientWrites
  BY <1>4, ClientWritesKeeps
<1>5. CASE Halted \/ UNCHANGED vars
  BY <1>5, StutterKeeps DEF Halted
<1> QED
  BY <1>1, <1>2, <1>3, <1>4, <1>5 DEF Next

(* The inductive invariant: the type of every variable, the shape of the   *)
(* heap at every step of every handler, and what each place of a handler   *)
(* relies on (of the loops of splitBlock, sfree and mergeAndStopAtOrder in  *)
(* particular).                                                            *)
THEOREM Invariance == Safety => []IInv
BY InitKeeps, NextKeeps, PTL DEF Safety

(* Every variable keeps its type: no size field becomes negative and every *)
(* address that the code computes for a block is that of a header.         *)
THEOREM TypeCorrect == Safety => []TypeOK
<1>1. IInv => TypeOK
  BY DEF IInv
<1> QED
  BY <1>1, Invariance, PTL

(* Splits and merges neither lose, double nor misplace a byte: at every    *)
(* step the blocks tile the arena of the first allocation, each of a power *)
(* of two and aligned to its own size.                                     *)
THEOREM ArenaTiled == Safety => []Tiling
<1>1. IInv => Tiling
  BY DEF IInv, HeapOK
<1> QED
  BY <1>1, Invariance, PTL

(* sfree and srealloc read the header of a buddy without asking whether    *)
(* there is a block: there always is one, inside the arena, at every order *)
(* they may reach.                                                         *)
THEOREM BuddiesLive == Safety => []BuddyIsLive
<1>1. IInv => BuddyIsLive
  BY TilingGivesBuddies DEF IInv, TypeOK, HeapOK
<1> QED
  BY <1>1, Invariance, PTL

(* The list that smalloc takes a block from and sfree adds one to has the  *)
(* free blocks of its order as members and no others, at every step.       *)
THEOREM ListsHoldTheFree == Safety => []Listed
<1>1. IInv => Listed
  BY DEF IInv, HeapOK
<1> QED
  BY <1>1, Invariance, PTL
----------------------------------------------------------------------------
(* How long a call takes: what its last step can have left, by place.      *)

StepsBounded ==
  /\ StepsLeft \in Nat
  /\ At("smalloc") => 2 * MAX_ORDER + 5 <= StepsLeft
  /\ At("split") => MAX_ORDER + 4 <= StepsLeft
  /\ At("merge") => 1 <= StepsLeft /\ StepsLeft <= MAX_ORDER + 1
  /\ At("grow") => 1 <= StepsLeft /\ StepsLeft <= MAX_ORDER + 1

(* StepsLeft by place, each case on its own. *)
LEMMA StepsAt ==
  /\ call.at = "idle" \/ call.at = "segv" \/ call.at = "overrun" => StepsLeft = 0
  /\ call.at = "srealloc" => StepsLeft = 2 * MAX_ORDER + 7
  /\ call.at = "grow" => StepsLeft = Tight + 1 - findTightOrder(size[call.blk])
  /\ call.at = "smalloc" => StepsLeft = 2 * MAX_ORDER + (IF firstAlloc THEN 6 ELSE 5)
  /\ call.at = "split" => StepsLeft = MAX_ORDER + 5 + call.high - Tight
  /\ call.at = "memmove" => StepsLeft = MAX_ORDER + 3
  /\ call.at = "memset" => StepsLeft = 1
  /\ call.at = "sfree" => StepsLeft = MAX_ORDER + 2
  /\ call.at = "merge" => StepsLeft = MAX_ORDER + 1 - findTightOrder(size[call.blk])
BY DEF StepsLeft, At

LEMMA StepsAtNext ==
  /\ call'.at = "idle" \/ call'.at = "segv" \/ call'.at = "overrun" => StepsLeft' = 0
  /\ call'.at = "smalloc" => StepsLeft' = 2 * MAX_ORDER + (IF firstAlloc' THEN 6 ELSE 5)
  /\ call'.at = "split" => StepsLeft' = MAX_ORDER + 5 + call'.high - Tight'
  /\ call'.at = "memmove" => StepsLeft' = MAX_ORDER + 3
  /\ call'.at = "memset" => StepsLeft' = 1
  /\ call'.at = "sfree" => StepsLeft' = MAX_ORDER + 2
  /\ call'.at = "merge" => StepsLeft' = MAX_ORDER + 1 - findTightOrder(size'[call'.blk])
  /\ call'.at = "grow" => StepsLeft' = Tight' + 1 - findTightOrder(size'[call'.blk])
BY DEF StepsLeft, At

LEMMA StepsHaveBounds ==
  ASSUME IInv
  PROVE  StepsBounded
<1>1. HeapType /\ HeapOK /\ ClientOK /\ call \in Calls /\ firstAlloc \in BOOLEAN
  BY DEF IInv, TypeOK, ClientOK, ClientType, HeapType
<1>2. MAX_ORDER \in Nat /\ Orders = 0 .. MAX_ORDER /\ Tight \in Orders
  BY <1>1, OrdersType, TightFacts DEF Orders
<1>3. CASE call.at \in {"split"}
  <2>1. call.high \in Int /\ Tight <= call.high + 1
    BY <1>1, <1>3 DEF ClientOK, CallOK, SplitOK, At
  <2>2. StepsLeft = MAX_ORDER + 5 + call.high - Tight
    BY <1>3, StepsAt
  <2>3. StepsLeft \in Nat /\ MAX_ORDER + 4 <= StepsLeft
    BY <1>2, <2>1, <2>2
  <2> QED
    BY <1>3, <2>3 DEF StepsBounded, At
<1>4. CASE call.at \in {"merge", "grow"}
  <2>1. call.blk \in Blocks
    BY <1>1, <1>4 DEF ClientOK, CallOK, MergeOK, GrowOK, At
  <2>2. PICK k \in Orders : findTightOrder(size[call.blk]) = k
    BY <1>1, <2>1, BlockFacts DEF HeapOK, Tiling
  <2>3. call.at = "grow" => k <= Tight
    BY <1>1, <2>2 DEF ClientOK, CallOK, GrowOK, At
  <2>4. /\ call.at = "merge" => StepsLeft = MAX_ORDER + 1 - k
        /\ call.at = "grow" => StepsLeft = Tight + 1 - k
    BY <2>2, StepsAt
  <2>5. StepsLeft \in Nat /\ 1 <= StepsLeft /\ StepsLeft <= MAX_ORDER + 1
    BY <1>2, <1>4, <2>3, <2>4
  <2> QED
    BY <1>4, <2>5 DEF StepsBounded, At
<1>5. CASE call.at \notin {"split", "merge", "grow"}
  <2>1. /\ StepsLeft \in Nat
        /\ call.at = "smalloc" => 2 * MAX_ORDER + 5 <= StepsLeft
    BY <1>1, <1>2, <1>5, StepsAt DEF Calls, Places
  <2> QED
    BY <1>5, <2>1 DEF StepsBounded, At
<1> QED
  BY <1>3, <1>4, <1>5

(* What a call that ends has left, and what smalloc leaves its callers.    *)
LEMMA AnswerLeavesNone ==
  ASSUME NEW r, NEW m, Answer(r, m)
  PROVE  StepsLeft' = 0
BY StepsAtNext DEF Answer, NoCall

LEMMA SmallocReturnsLeaves ==
  ASSUME call \in Calls, NEW b, SmallocReturns(b)
  PROVE  StepsLeft' \in 0 .. MAX_ORDER + 3
<1>1. MAX_ORDER \in Nat
  BY OrdersType
<1>2. CASE Answer(b, FALSE)
  <2>1. StepsLeft' = 0
    BY <1>2, StepsAtNext DEF Answer, NoCall
  <2> QED
    BY <1>1, <2>1
<1>3. CASE call' = [call EXCEPT !.at = IF call.op = "scalloc" THEN "memset"
                                                        ELSE "memmove", !.ret = b]
  <2>1. call'.at = "memset" \/ call'.at = "memmove"
    BY <1>3 DEF Calls
  <2> QED
    BY <1>1, <2>1, StepsAtNext
<1> QED
  BY <1>2, <1>3 DEF SmallocReturns

LEMMA SfreeReturnsLeaves ==
  ASSUME SfreeReturns
  PROVE  StepsLeft' = 0
BY AnswerLeavesNone DEF SfreeReturns, Fail

(* A merge takes the block one order up. *)
LEMMA MergeLeavesFewer ==
  ASSUME IInv, MergeStep \/ GrowStep
  PROVE  StepsLeft' < StepsLeft
<1>1. HeapType /\ HeapOK /\ ClientOK /\ call \in Calls
  BY DEF IInv, TypeOK, ClientOK, ClientType
<1>2. PICK b : b = call.blk
  OBVIOUS
<1>3. call.at \in {"merge", "grow"} /\ b \in Blocks /\ Tight \in Orders
  BY <1>1, <1>2, TightFacts DEF MergeStep, GrowStep, ClientOK, CallOK, MergeOK, GrowOK, At
<1>4. PICK k \in Orders : /\ size[b] = Payload(k) /\ findTightOrder(size[b]) = k
                          /\ Ancestor(b, k) = b
                          /\ findBuddyAddress(b) = findBuddyAddressBySize(b, getOrderSize(k))
  BY <1>1, <1>3, BlockFacts DEF HeapOK, Tiling
<1>5. PICK buddy : buddy = findBuddyAddress(b)
  OBVIOUS
<1>6. PICK left : left = Ancestor(b, k + 1)
  OBVIOUS
<1>7. k < MAX_ORDER /\ k + 1 \in Orders /\ mergeBlocks(b, buddy)
  BY <1>2, <1>3, <1>4, <1>5, OrdersType DEF MergeStep, GrowStep, Orders
<1>8. is_free[buddy] /\ size[buddy] = size[b]
  <2>1. CASE MergeStep
    BY <1>2, <1>5, <2>1 DEF MergeStep, CanMerge
  <2>2. CASE GrowStep
    <3>1. canAllocateWithMerges(b, Tight) /\ k < Tight
      BY <1>1, <1>2, <1>4, <2>2 DEF GrowStep, ClientOK, CallOK, GrowOK
    <3>2. k \in findTightOrder(size[b]) .. Tight - 1
      BY <1>3, <1>4, <3>1, OrdersType
    <3> QED
      BY <1>4, <1>5, <3>1, <3>2 DEF canAllocateWithMerges
  <2> QED
    BY <2>1, <2>2
<1>9. size'[left] = Payload(k + 1) /\ call' = [call EXCEPT !.blk = left]
  BY <1>1, <1>3, <1>4, <1>5, <1>6, <1>7, <1>8, MergeKeeps
<1>10. /\ call'.at = call.at /\ call'.blk = left /\ call'.n = call.n
       /\ findTightOrder(size'[left]) = k + 1
  BY <1>1, <1>7, <1>9, TightOrderOfPayload DEF Calls
<1>11. Tight' = Tight
  BY <1>10 DEF Tight
<1>12. CASE call.at = "merge"
  <2>1. StepsLeft = MAX_ORDER + 1 - k /\ StepsLeft' = MAX_ORDER + 1 - (k + 1)
    BY <1>2, <1>4, <1>10, <1>12, StepsAt, StepsAtNext
  <2> QED
    BY <2>1, <1>4, OrdersType
<1>13. CASE call.at = "grow"
  <2>1. StepsLeft = Tight + 1 - k /\ StepsLeft' = Tight + 1 - (k + 1)
    BY <1>2, <1>4, <1>10, <1>11, <1>13, StepsAt, StepsAtNext
  <2> QED
    BY <2>1, <1>3, <1>4, OrdersType
<1> QED
  BY <1>3, <1>12, <1>13

LEMMA StepLeavesFewer ==
  ASSUME IInv, StepsBounded, StepsBounded', Step
  PROVE  StepsLeft' < StepsLeft
<1>1. /\ HeapType /\ HeapOK /\ ClientOK /\ call \in Calls
      /\ MAX_ORDER \in Nat /\ firstAlloc \in BOOLEAN
  BY OrdersType DEF IInv, TypeOK, ClientOK, ClientType, HeapType
<1>2. StepsLeft \in Nat /\ StepsLeft' \in Nat
  BY DEF StepsBounded
<1>3. CASE FirstAllocatorFails \/ FirstAllocator
  <2>1. call.at = "smalloc" /\ StepsLeft = 2 * MAX_ORDER + 6
    BY <1>3, StepsAt DEF FirstAllocatorFails, FirstAllocator, At
  <2>2. StepsLeft' = 0 \/ StepsLeft' = 2 * MAX_ORDER + 5
    BY <1>3, <2>1, AnswerLeavesNone, StepsAtNext
       DEF FirstAllocatorFails, FirstAllocator, Fail, At
  <2> QED
    BY <1>1, <2>1, <2>2
<1>4. CASE SmallocReject \/ SmallocNone \/ SmallocMmap \/ SmallocMmapFails \/ SmallocTight
  <2>1. At("smalloc") /\ 2 * MAX_ORDER + 5 <= StepsLeft
    BY <1>4 DEF SmallocReject, SmallocNone, SmallocMmap, SmallocMmapFails, SmallocTight,
                SmallocSearch, SmallocReady, StepsBounded
  <2>2. Fail \/ \E b : SmallocReturns(b)
    BY <1>4 DEF SmallocReject, SmallocNone, SmallocMmap, SmallocMmapFails, SmallocTight
  <2>3. StepsLeft' = 0 \/ StepsLeft' \in 0 .. MAX_ORDER + 3
    BY <1>1, <2>2, AnswerLeavesNone, SmallocReturnsLeaves DEF Fail
  <2> QED
    BY <1>1, <1>2, <2>1, <2>3
<1>5. CASE SmallocHigher
  <2>1. PICK high : high = LowestStocked(Tight)
    OBVIOUS
  <2>2. Tight \in Orders /\ Tight \in Nat /\ Stocked(Tight) # {}
    BY <1>1, <1>5, TightFacts, OrdersType DEF SmallocHigher
  <2>3. high \in Tight .. MAX_ORDER
    <3>1. Stocked(Tight) \subseteq Nat
      BY <1>1, <2>2 DEF Stocked
    <3>2. Min(Stocked(Tight)) \in Stocked(Tight)
      BY <2>2, <3>1, MinIsLeast
    <3> QED
      BY <2>1, <3>2 DEF LowestStocked, Stocked
  <2>4. /\ At("smalloc") /\ 2 * MAX_ORDER + 5 <= StepsLeft
        /\ call'.at = "split" /\ call'.high = high - 1 /\ call'.n = call.n
    BY <1>1, <1>5, <2>1 DEF SmallocHigher, SmallocSearch, SmallocReady, StepsBounded, Calls
  <2>5. Tight' = Tight
    BY <2>4 DEF Tight
  <2>6. StepsLeft' = MAX_ORDER + 5 + (high - 1) - Tight
    BY <2>4, <2>5, StepsAtNext
  <2> QED
    BY <1>1, <1>2, <2>2, <2>3, <2>4, <2>6
<1>6. CASE SplitStep
  <2>1. /\ call.at = "split" /\ call'.at = "split" /\ call.high \in Int
        /\ call'.high = call.high - 1 /\ call'.n = call.n
    BY <1>1, <1>6 DEF SplitStep, NextLower, At, Calls
  <2>2. Tight' = Tight /\ Tight \in Nat
    BY <1>1, <2>1, TightFacts, OrdersType DEF Tight
  <2>3. /\ StepsLeft = MAX_ORDER + 5 + call.high - Tight
        /\ StepsLeft' = MAX_ORDER + 5 + (call.high - 1) - Tight
    BY <2>1, <2>2, StepsAt, StepsAtNext
  <2> QED
    BY <1>1, <2>1, <2>2, <2>3
<1>7. CASE SplitReturn
  <2>1. MAX_ORDER + 4 <= StepsLeft /\ SmallocReturns(call.blk)
    BY <1>7 DEF SplitReturn, StepsBounded
  <2>2. StepsLeft' \in 0 .. MAX_ORDER + 3
    BY <1>1, <2>1, SmallocReturnsLeaves
  <2> QED
    BY <1>1, <1>2, <2>1, <2>2
<1>8. CASE ScallocMemset \/ ScallocKilled \/ SreallocKilled
  <2>1. StepsLeft = 1 \/ StepsLeft = MAX_ORDER + 3
    BY <1>8, StepsAt DEF ScallocMemset, ScallocKilled, SreallocKilled, At
  <2>2. StepsLeft' = 0
    <3>1. CASE ScallocMemset
      BY <3>1, AnswerLeavesNone DEF ScallocMemset
    <3>2. CASE ScallocKilled \/ SreallocKilled
      <4>1. call'.at = "segv" \/ call'.at = "overrun"
        BY <1>1, <3>2 DEF ScallocKilled, SreallocKilled, WriteKills, Goto, Calls
      <4> QED
        BY <4>1, StepsAtNext
    <3> QED
      BY <1>8, <3>1, <3>2
  <2> QED
    BY <1>1, <2>1, <2>2
<1>9. CASE SfreeNull \/ SfreeSegv \/ SfreeReleased \/ SfreeMunmap \/ SfreeAlone
           \/ SfreeTriesMerge \/ SreallocMemmove
  <2>1. CASE SreallocMemmove
    <3>1. StepsLeft = MAX_ORDER + 3 /\ call'.at = "sfree"
      BY <1>1, <2>1, StepsAt DEF SreallocMemmove, At, Calls
    <3>2. StepsLeft' = MAX_ORDER + 2
      BY <3>1, StepsAtNext
    <3> QED
      BY <1>1, <3>1, <3>2
  <2>2. CASE ~SreallocMemmove
    <3>1. call.at = "sfree"
      BY <1>9, <2>2 DEF SfreeNull, SfreeSegv, SfreeReleased, SfreeMunmap, SfreeAlone,
                        SfreeTriesMerge, SfreeArena, SfreeReadable, At
    <3>2. StepsLeft = MAX_ORDER + 2
      BY <3>1, StepsAt
    <3>3. SfreeReturns \/ call'.at = "segv" \/ call'.at = "merge"
      BY <1>1, <1>9, <2>2 DEF SfreeNull, SfreeSegv, SfreeReleased, SfreeMunmap, SfreeAlone,
                        SfreeTriesMerge, Goto, Calls
    <3>4. StepsLeft' = 0 \/ StepsLeft' <= MAX_ORDER + 1
      BY <3>3, SfreeReturnsLeaves, StepsAtNext DEF StepsBounded, At
    <3> QED
      BY <1>1, <1>2, <3>2, <3>4
  <2> QED
    BY <2>1, <2>2
<1>10. CASE MergeStep \/ GrowStep
  BY <1>10, MergeLeavesFewer
<1>11. CASE MergeStop \/ MergeTop \/ GrowReturn
  <2>1. 1 <= StepsLeft
    BY <1>11 DEF MergeStop, MergeTop, GrowReturn, StepsBounded
  <2>2. StepsLeft' = 0
    BY <1>11, SfreeReturnsLeaves, AnswerLeavesNone DEF MergeStop, Break, MergeTop, GrowReturn
  <2> QED
    BY <1>2, <2>1, <2>2
<1>12. CASE SreallocReject \/ SreallocNull \/ SreallocSame \/ SreallocReuse
            \/ SreallocMoves \/ SreallocMerges
  <2>1. call.at = "srealloc"
    BY <1>12 DEF SreallocReject, SreallocNull, SreallocSame, SreallocReuse, SreallocMoves,
                 SreallocMerges, SreallocGrows, SreallocReady, At
  <2>2. StepsLeft = 2 * MAX_ORDER + 7
    BY <2>1, StepsAt
  <2>3. \/ \E r, m : Answer(r, m)
        \/ call'.at = "smalloc" \/ call'.at = "grow"
    BY <1>1, <1>12 DEF SreallocReject, SreallocNull, SreallocSame, SreallocReuse,
                       SreallocMoves, SreallocMerges, Goto, Fail, Calls
  <2>4. StepsLeft' <= 2 * MAX_ORDER + 6
    <3>1. CASE \E r, m : Answer(r, m)
      BY <1>1, <3>1, AnswerLeavesNone
    <3>2. CASE call'.at = "smalloc"
      BY <1>1, <3>2, StepsAtNext
    <3>3. CASE call'.at = "grow"
      <4>1. StepsLeft' <= MAX_ORDER + 1
        BY <3>3 DEF StepsBounded, At
      <4> QED
        BY <1>1, <1>2, <4>1
    <3> QED
      BY <2>3, <3>1, <3>2, <3>3
  <2> QED
    BY <1>1, <1>2, <2>2, <2>4
<1> QED
  BY <1>3, <1>4, <1>5, <1>6, <1>7, <1>8, <1>9, <1>10, <1>11, <1>12 DEF Step

(* No call of the four functions loops for ever: each step of a handler    *)
(* leaves it fewer to take, whatever the number of orders, so a call is    *)
(* over, or has killed the process, after at most 2 * MAX_ORDER + 7 steps. *)
THEOREM CallsEnd == Safety => CallsShorten
<1>1. IInv => StepsBounded
  BY StepsHaveBounds
<1>2. ASSUME IInv, StepsBounded, StepsBounded', [Next]_vars
      PROVE  [~Idle => 0 <= StepsLeft' /\ StepsLeft' < StepsLeft]_vars
  <2>1. CASE Step
    BY <1>2, <2>1, StepLeavesFewer DEF StepsBounded
  <2>2. CASE Call \/ ClientWrites \/ ForeignSbrk
    BY <2>2 DEF Call, CallWith, ClientWrites, ForeignSbrk, Idle
  <2>3. CASE Halted \/ UNCHANGED vars
    BY <2>3 DEF Halted
  <2> QED
    BY <1>2, <2>1, <2>2, <2>3 DEF Next
<1>3. Safety => [][Next]_vars
  BY PTL DEF Safety
<1> QED
  BY <1>1, <1>2, <1>3, Invariance, PTL DEF CallsShorten
=============================================================================
