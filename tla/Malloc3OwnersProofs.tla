------------------------ MODULE Malloc3OwnersProofs ------------------------
(***************************************************************************)
(* Who owns which block: at every step of every handler each block in use  *)
(* is the client's or is in the handler's hands (OwnersOK), for every      *)
(* value of the constants; hence no block leaks, and none that the client  *)
(* holds is written to.  From both follows that the allocator implements   *)
(* Heap.  First what each kind of step does to the blocks, then one lemma  *)
(* per action, then the theorems.                                          *)
(***************************************************************************)
EXTENDS Malloc3Proofs

LEMMA StateFacts ==
  ASSUME IInv
  PROVE  /\ HeapType /\ HeapOK /\ ClientOK /\ BrkOK /\ CallOK /\ call \in Calls
         /\ Tiling /\ Shaped /\ Apart /\ Listed /\ ArenaOK /\ MappedAreBig
         /\ Blocks \subseteq live /\ Blocks \subseteq Headers
BY DEF IInv, TypeOK, ClientOK, ClientType, BrkOK, HeapOK, Tiling, Blocks, Headers

LEMMA MappedAddresses ==
  \A m \in MMAP_ADDRS : m \in Nat /\ m > BRK_LIMIT /\ m \notin Slots
BY SlotsType, Malloc3Assumption

(* A handler that answers leaves the arguments of the call and its result. *)
LEMMA AnswerMoves ==
  ASSUME call \in Calls, NEW r, NEW m, Answer(r, m)
  PROVE  /\ call'.at = "idle" /\ call'.ret = r
         /\ call'.op = call.op /\ call'.old = call.old /\ call'.n = call.n
BY DEF Answer, NoCall

(* An arena block is smaller than a mapped one. *)
LEMMA BlockIsSmall ==
  ASSUME HeapType, Shaped, NEW b \in Blocks
  PROVE  size[b] \in Nat /\ size[b] <= Payload(MAX_ORDER) /\ size[b] < MAX_ORDER_BLOCK_SIZE
<1>1. PICK k \in Orders : size[b] = Payload(k)
  BY DEF Shaped
<1>2. Payload(k) \in Nat /\ Payload(MAX_ORDER) \in Nat /\ k <= MAX_ORDER
  BY OrdersType, PayloadType DEF Orders
<1>3. Payload(k) <= Payload(MAX_ORDER)
  BY <1>2, OrdersType, PayloadType
<1>4. Payload(MAX_ORDER) < MAX_ORDER_BLOCK_SIZE
  BY <1>2, DivisorType, GeometryAssumption DEF Payload
<1> QED
  BY <1>1, <1>2, <1>3, <1>4, DivisorType

----------------------------------------------------------------------------
(* Kinds of steps *)

(* No block comes, goes or changes. *)
Quiet == /\ live' = live
         /\ \A x \in live : size'[x] = size[x] /\ is_free'[x] = is_free[x]

(* Free block b is put in use. *)
Taking(b) == /\ live' = live /\ size' = size
             /\ is_free' = [is_free EXCEPT ![b] = FALSE]

(* Block b is set free. *)
Freeing(b) == /\ live' = live /\ size' = size
              /\ is_free' = [is_free EXCEPT ![b] = TRUE]

LEMMA QuietUsed ==
  ASSUME Quiet
  PROVE  Used' = Used /\ Blocks' = Blocks /\ Mapped' = Mapped
BY DEF Quiet, Used, Blocks, Mapped

LEMMA TakingUsed ==
  ASSUME HeapType, NEW b \in live, Taking(b)
  PROVE  Used' = Used \cup {b} /\ Blocks' = Blocks /\ Mapped' = Mapped
BY DEF Taking, Used, Blocks, Mapped, HeapType

LEMMA FreeingUsed ==
  ASSUME HeapType, NEW b \in live, Freeing(b)
  PROVE  Used' = Used \ {b} /\ Blocks' = Blocks /\ Mapped' = Mapped
BY DEF Freeing, Used, Blocks, Mapped, HeapType

(* The steps that only change counters, the call, the client or the break. *)
LEMMA UntouchedQuiet ==
  ASSUME Call \/ ForeignSbrk \/ FirstAllocatorFails \/ SmallocReject \/ SmallocNone
         \/ SmallocMmapFails \/ SplitReturn \/ ScallocKilled \/ SfreeNull \/ SfreeSegv
         \/ SfreeReleased \/ SfreeTriesMerge \/ MergeTop \/ SreallocReject
         \/ SreallocNull \/ SreallocSame \/ SreallocMoves \/ SreallocKilled
         \/ Halted \/ UNCHANGED vars
  PROVE  Quiet /\ size' = size /\ is_free' = is_free
<1>1. CASE Call \/ ForeignSbrk
  BY <1>1 DEF Quiet, Call, CallWith, ForeignSbrk, heap, headers
<1>2. CASE FirstAllocatorFails \/ SmallocReject \/ SmallocNone
           \/ SmallocMmapFails \/ SplitReturn \/ ScallocKilled
  BY <1>2 DEF Quiet, FirstAllocatorFails, SmallocReject, SmallocNone, SmallocMmapFails,
              SplitReturn, ScallocKilled, heap, headers
<1>3. CASE SfreeNull \/ SfreeSegv \/ SfreeReleased \/ SfreeTriesMerge \/ MergeTop
  BY <1>3 DEF Quiet, SfreeNull, SfreeSegv, SfreeReleased, SfreeTriesMerge, MergeTop,
              heap, headers
<1>4. CASE SreallocReject \/ SreallocNull \/ SreallocSame \/ SreallocMoves
           \/ SreallocKilled
  BY <1>4 DEF Quiet, SreallocReject, SreallocNull, SreallocSame, SreallocMoves,
              SreallocKilled, heap, headers
<1>5. CASE Halted \/ UNCHANGED vars
  BY <1>5 DEF Quiet, Halted, vars, heap, headers
<1> QED
  BY <1>1, <1>2, <1>3, <1>4, <1>5

(* What is written over old headers changes no block: they lie inside      *)
(* blocks, where no block starts.                                          *)
LEMMA BuriedQuiet ==
  ASSUME HeapType, HeapOK, NEW b \in live, NEW n \in Nat, n <= size[b],
         NEW S, S = Buried(b, n), live' = live,
         \A x \in Headers \ S : size'[x] = size[x] /\ is_free'[x] = is_free[x]
  PROVE  Quiet
<1>1. S \subseteq Slots \ live
  BY BuriedIsDead
<1> QED
  BY <1>1 DEF Quiet, HeapType

LEMMA ClientWritesQuiet ==
  ASSUME IInv, ClientWrites
  PROVE  Quiet
<1>1. HeapType /\ HeapOK
  BY StateFacts
<1>2. PICK b \in held \cap live : \E h \in Buried(b, size[b]), w \in PATTERNS :
        /\ size' = [size EXCEPT ![h] = w.size]
        /\ is_free' = [is_free EXCEPT ![h] = w.is_free]
  BY DEF ClientWrites
<1>3. b \in live /\ size[b] \in Nat /\ size[b] <= size[b] /\ live' = live
  BY <1>1 DEF HeapType, ClientWrites
<1>4. \A x \in Headers \ Buried(b, size[b]) :
        size'[x] = size[x] /\ is_free'[x] = is_free[x]
  BY <1>1, <1>2 DEF HeapType
<1> QED
  BY <1>1, <1>3, <1>4, BuriedQuiet

LEMMA ScallocMemsetQuiet ==
  ASSUME IInv, ScallocMemset
  PROVE  Quiet /\ call.ret \in live
<1>1. HeapType /\ HeapOK /\ call \in Calls /\ CallOK
  BY StateFacts
<1>2. PICK b, n : b = call.ret /\ n = call.n
  OBVIOUS
<1>3. b \in live /\ n \in Nat /\ n <= size[b] /\ live' = live
  BY <1>1, <1>2 DEF ScallocMemset, At, CallOK, RetOK, Calls
<1>4. PICK cleared : cleared = Buried(b, n)
  OBVIOUS
<1>5. \A x \in Headers \ cleared : size'[x] = size[x] /\ is_free'[x] = is_free[x]
  <2>1. \A h : Covered(h, b, n) <=> h \in cleared
    BY <1>4 DEF Buried, Covered
  <2>2. /\ size' = [h \in Headers |-> IF h \in cleared THEN 0 ELSE size[h]]
        /\ is_free' = [h \in Headers |-> h \notin cleared /\ is_free[h]]
    BY <1>2, <2>1 DEF ScallocMemset
  <2> QED
    BY <1>1, <2>2 DEF HeapType
<1> QED
  BY <1>1, <1>2, <1>3, <1>4, <1>5, BuriedQuiet

LEMMA SreallocMemmoveQuiet ==
  ASSUME IInv, SreallocMemmove
  PROVE  /\ Quiet /\ call.ret \in live /\ call.old \in live
         /\ call.op = "srealloc" /\ call.at = "memmove" /\ call.old # NULL
<1>1. HeapType /\ HeapOK /\ call \in Calls /\ CallOK
  BY StateFacts
<1>2. PICK b, r : b = call.old /\ r = call.ret
  OBVIOUS
<1>3. /\ b \in live /\ r \in live /\ size[b] \in Nat /\ size[b] <= size[r]
      /\ live' = live
      /\ call.op = "srealloc" /\ call.at = "memmove" /\ call.old # NULL
  BY <1>1, <1>2 DEF SreallocMemmove, At, CallOK, OpOK, OldOK, RetOK, HeapType
<1>4. PICK copied : copied = Buried(r, size[b])
  OBVIOUS
<1>5. \A x \in Headers \ copied : size'[x] = size[x] /\ is_free'[x] = is_free[x]
  <2>1. \A h : Covered(h, r, size[b]) <=> h \in copied
    BY <1>4 DEF Buried, Covered
  <2>2. /\ size' = [h \in Headers |-> size[IF h \in copied THEN h - r + b ELSE h]]
        /\ is_free' = [h \in Headers |-> is_free[IF h \in copied THEN h - r + b ELSE h]]
    BY <1>2, <2>1 DEF SreallocMemmove
  <2> QED
    BY <1>1, <2>2 DEF HeapType
<1>6. Quiet
  BY <1>1, <1>3, <1>4, <1>5, BuriedQuiet
<1> QED
  BY <1>2, <1>3, <1>6

----------------------------------------------------------------------------
(* How the call ends *)

(* The part of CallInv that says who owns what; it is inductive itself.    *)
OwnInv == OwnersOK /\ TopIsFree /\ OldApart /\ MappingsOK /\ NotInHole(call.n)

LEMMA IdleOwners ==
  ASSUME call'.at = "idle", held' = Used'
  PROVE  OwnersOK' /\ TopIsFree' /\ OldApart'
BY DEF OwnersOK, TopIsFree, OldApart, At, Releases

LEMMA MappingsStay ==
  ASSUME MappingsOK, Mapped' \subseteq Mapped,
         \A a \in Mapped' : size'[a] = size[a] /\ is_free'[a] = is_free[a]
  PROVE  MappingsOK'
BY DEF MappingsOK, Whole

LEMMA QuietMappings ==
  ASSUME MappingsOK, Quiet
  PROVE  MappingsOK'
<1>1. Mapped' = Mapped /\ Mapped \subseteq live
  BY QuietUsed DEF Mapped
<1> QED
  BY <1>1, MappingsStay DEF Quiet

(* A flag of an arena block changes: the mappings stay as they are. *)
LEMMA FlagMappings ==
  ASSUME HeapType, MappingsOK, NEW b \in Blocks, Taking(b) \/ Freeing(b)
  PROVE  MappingsOK'
<1>1. b \notin Mapped
  BY SlotsType DEF Blocks, Mapped
<1>2. Mapped' = Mapped /\ Mapped \subseteq Headers
  BY DEF Taking, Freeing, Mapped, HeapType
<1>3. \A a \in Mapped : size'[a] = size[a] /\ is_free'[a] = is_free[a]
  BY <1>1, <1>2 DEF Taking, Freeing, HeapType
<1> QED
  BY <1>2, <1>3, MappingsStay

(* smalloc gives what it has found to whoever called it. *)
LEMMA SmallocReturnsOwners ==
  ASSUME IInv, call.at \in {"smalloc", "split"},
         NEW b, b = MAP_FAILED \/ b \in Headers, SmallocReturns(b),
         Used' = held \cup ({b} \ {MAP_FAILED}), b \notin held,
         (call.op = "srealloc" /\ call.old # NULL) => call.old # b
  PROVE  OwnersOK' /\ TopIsFree' /\ OldApart'
<1>1. call \in Calls
  BY StateFacts
<1> DEFINE toClient == call.op = "smalloc" \/ (call.op = "srealloc" /\ call.old = NULL)
<1>2. CASE toClient
  <2>1. Answer(b, FALSE) /\ IF b = MAP_FAILED THEN UNCHANGED client ELSE Grant(b, {})
    BY <1>2 DEF SmallocReturns
  <2>2. held' = Used'
    BY <2>1 DEF client, Grant
  <2> QED
    BY <1>1, <2>1, <2>2, AnswerMoves, IdleOwners
<1>3. CASE ~toClient
  <2> DEFINE place == IF call.op = "scalloc" THEN "memset" ELSE "memmove"
  <2>1. call' = [call EXCEPT !.at = place, !.ret = b] /\ UNCHANGED client
    BY <1>3 DEF SmallocReturns
  <2>2. /\ call'.at = place /\ call'.ret = b
        /\ call'.op = call.op /\ call'.old = call.old /\ held' = held
    BY <1>1, <2>1 DEF Calls, client
  <2>3. OwnersOK'
    BY <2>2 DEF OwnersOK, At, Releases
  <2>4. TopIsFree' /\ OldApart'
    BY <2>2 DEF TopIsFree, OldApart, At
  <2> QED
    BY <2>3, <2>4
<1> QED
  BY <1>2, <1>3

LEMMA SmallocReturnsMoves ==
  ASSUME call \in Calls, NEW b, SmallocReturns(b)
  PROVE  /\ call'.op = call.op /\ call'.old = call.old /\ call'.n = call.n
         /\ call'.ret = b
         /\ call'.at \in {"idle", "memset", "memmove"}
         /\ call'.at = "idle" => held' \in {held, held \cup {b}}
         /\ call'.at # "idle" => held' = held
<1>1. CASE call.op = "smalloc" \/ (call.op = "srealloc" /\ call.old = NULL)
  <2>1. /\ Answer(b, FALSE)
        /\ IF b = MAP_FAILED THEN UNCHANGED client ELSE Grant(b, {})
    BY <1>1 DEF SmallocReturns
  <2>2. held' \in {held, held \cup {b}}
    BY <2>1 DEF Grant, client
  <2> QED
    BY <2>1, <2>2, AnswerMoves
<1>2. CASE ~(call.op = "smalloc" \/ (call.op = "srealloc" /\ call.old = NULL))
  BY <1>2 DEF SmallocReturns, Calls, client
<1> QED
  BY <1>1, <1>2

(* sfree is over: the block it was given is in use no more. *)
LEMMA SfreeReturnsOwners ==
  ASSUME IInv, OwnersOK, call.at \in {"sfree", "merge"}, SfreeReturns,
         Used' = Used \ {call.blk}
  PROVE  OwnersOK' /\ TopIsFree' /\ OldApart'
<1>1. call \in Calls
  BY StateFacts
<1>2. Used' = held \cup MovedTo
  BY DEF OwnersOK, Releases
<1>3. CASE call.op = "sfree"
  <2>1. Answer(NULL, FALSE) /\ held' = held
    BY <1>3 DEF SfreeReturns, Fail, client
  <2>2. held' = Used'
    BY <1>2, <1>3, <2>1 DEF MovedTo
  <2> QED
    BY <1>1, <2>1, <2>2, AnswerMoves, IdleOwners
<1>4. CASE call.op # "sfree"
  <2>1. Answer(call.ret, TRUE) /\ held' = held \cup {call.ret}
    BY <1>4 DEF SfreeReturns, Grant
  <2>2. held' = Used'
    BY <1>2, <1>4, <2>1 DEF MovedTo
  <2> QED
    BY <1>1, <2>1, <2>2, AnswerMoves, IdleOwners
<1> QED
  BY <1>3, <1>4

----------------------------------------------------------------------------
(* One lemma per action, or per group of actions that end the same way *)

LEMMA InitOwners ==
  ASSUME Init
  PROVE  OwnInv
<1>1. call.at = "idle" /\ call.n = 0 /\ held = {} /\ live = {}
  BY DEF Init, NoCall
<1>2. NotInHole(0)
  BY OrdersType, PayloadType DEF NotInHole
<1> QED
  BY <1>1, <1>2 DEF OwnInv, OwnersOK, Used, TopIsFree, OldApart, MappingsOK, Mapped,
                    At, Releases

LEMMA StutterOwners ==
  ASSUME OwnInv, UNCHANGED vars
  PROVE  OwnInv'
<1>1. /\ call' = call /\ held' = held /\ live' = live /\ size' = size
      /\ is_free' = is_free
  BY DEF vars, heap, headers, client
<1>2. Used' = Used /\ Mapped' = Mapped
  BY <1>1 DEF Used, Mapped
<1>3. OwnersOK' /\ TopIsFree' /\ OldApart'
  BY <1>1, <1>2 DEF OwnInv, OwnersOK, TopIsFree, OldApart, At, Releases, MovedTo
<1> QED
  BY <1>1, <1>2, <1>3, MappingsStay DEF OwnInv

LEMMA CallOwners ==
  ASSUME IInv, OwnInv, NoHoleRequests, Call
  PROVE  OwnInv'
<1>0. PICK op \in {"smalloc", "scalloc", "srealloc", "sfree"} :
        \E p \in {NULL} \cup granted, n \in SIZES \cup {0}, num \in NUMS \cup {1} :
          CallWith(op, p, num, n)
  BY DEF Call
<1>1. PICK p \in {NULL} \cup granted, n \in SIZES \cup {0}, num \in NUMS \cup {1} :
        CallWith(op, p, num, n)
  BY <1>0
<1>2. Quiet
  BY UntouchedQuiet
<1>3. /\ call'.op = op /\ call'.old = p /\ call'.blk = p
      /\ call'.at = IF op \in {"smalloc", "scalloc"} THEN "smalloc" ELSE op
      /\ call'.n = IF op = "scalloc" THEN TotalSize(num, n) ELSE n
      /\ held' = IF op = "sfree" THEN held \ {p} ELSE held
      /\ call.at = "idle" /\ (op \in {"smalloc", "scalloc"} => p = NULL)
  BY <1>1 DEF CallWith, NoCall, At
<1>4. Used' = held
  BY <1>2, <1>3, QuietUsed DEF OwnInv, OwnersOK
<1>5. OwnersOK'
  BY <1>3, <1>4 DEF OwnersOK, At, Releases, MovedTo
<1>6. TopIsFree' /\ OldApart'
  BY <1>3 DEF TopIsFree, OldApart, At
<1>7. NotInHole(call'.n)
  BY <1>3 DEF NoHoleRequests
<1>8. MappingsOK'
  BY <1>2, QuietMappings DEF OwnInv
<1> QED
  BY <1>5, <1>6, <1>7, <1>8 DEF OwnInv, NotInHole

(* The client writes, other code moves the break: nothing the call knows. *)
LEMMA OutsideOwners ==
  ASSUME IInv, OwnInv, ClientWrites \/ ForeignSbrk
  PROVE  OwnInv'
<1>1. Quiet /\ call' = call /\ held' = held /\ call.at = "idle"
  BY UntouchedQuiet, ClientWritesQuiet DEF ClientWrites, ForeignSbrk, At, client
<1>2. held' = Used'
  BY <1>1, QuietUsed DEF OwnInv, OwnersOK
<1> QED
  BY <1>1, <1>2, IdleOwners, QuietMappings DEF OwnInv, NotInHole

(* What the first allocation makes of the blocks. *)
LEMMA FirstAllocatorBlocks ==
  ASSUME IInv, FirstAllocator
  PROVE  /\ live = {} /\ Mapped' = {} /\ Used' = {}
         /\ \A b \in live' : is_free'[b] /\ size'[b] = Payload(MAX_ORDER)
         /\ call' = call /\ held' = held /\ call.at = "smalloc"
<1>1. HeapType /\ ArenaOK /\ brk \in 1 .. BRK_LIMIT /\ HeapOK
  BY StateFacts DEF BrkOK
<1>2. PICK base : base = brk + Gap
  OBVIOUS
<1>3. brk \in Nat \ {0} /\ BRK_LIMIT \in Nat
  BY <1>1, Malloc3Assumption
<1>4. base \in Nat \ {0} /\ base % PROGRAM_BREAK_DIVISOR = 0
  BY <1>2, <1>3, GapAligns
<1>5. PICK tops : tops = TopBlocks(base)
  OBVIOUS
<1>6. /\ live' = live \cup tops
      /\ size' = [a \in Headers |-> IF a \in tops THEN Payload(MAX_ORDER) ELSE size[a]]
      /\ is_free' = [a \in Headers |-> a \in tops \/ is_free[a]]
      /\ base + PROGRAM_BREAK_DIVISOR <= BRK_LIMIT
  BY <1>2, <1>5 DEF FirstAllocator
<1>7. live = {} /\ call' = call /\ held' = held /\ call.at = "smalloc"
  BY <1>1 DEF FirstAllocator, ArenaOK, client, At
<1>8. \A b \in tops : b <= BRK_LIMIT
  BY <1>3, <1>4, <1>5, <1>6, TopBlocksTile, DivisorType
<1>9. Mapped' = {}
  <2>1. \A b \in tops : b \notin MMAP_ADDRS
    BY <1>3, <1>8, MappedAddresses
  <2> QED
    BY <1>6, <1>7, <2>1 DEF Mapped
<1>10. live' \subseteq Headers
  BY <1>1, FirstAllocatorKeeps DEF HeapType
<1>11. \A b \in live' : is_free'[b] /\ size'[b] = Payload(MAX_ORDER)
  BY <1>6, <1>7, <1>10
<1>12. Used' = {}
  BY <1>11 DEF Used
<1> QED
  BY <1>7, <1>9, <1>11, <1>12

LEMMA FirstAllocationOwners ==
  ASSUME IInv, OwnInv, FirstAllocatorFails \/ FirstAllocator
  PROVE  OwnInv'
<1>1. CASE FirstAllocatorFails
  <2>1. Quiet /\ Answer(NULL, FALSE) /\ held' = held /\ call.at = "smalloc" /\ call \in Calls
    BY <1>1, UntouchedQuiet, StateFacts DEF FirstAllocatorFails, Fail, client, At
  <2>2. held' = Used' /\ call'.at = "idle" /\ call'.n = call.n
    BY <2>1, QuietUsed, AnswerMoves DEF OwnInv, OwnersOK
  <2> QED
    BY <2>1, <2>2, IdleOwners, QuietMappings DEF OwnInv, NotInHole
<1>2. CASE FirstAllocator
  <2>1. /\ live = {} /\ Mapped' = {} /\ Used' = {}
        /\ call' = call /\ held' = held /\ call.at = "smalloc"
    BY <1>2, FirstAllocatorBlocks
  <2>2. Used = {}
    BY <2>1 DEF Used
  <2>3. OwnersOK' /\ TopIsFree'
    BY <2>1, <2>2 DEF OwnInv, OwnersOK, TopIsFree, At, Releases
  <2>4. OldApart'
    <3>1. ~(call.op = "srealloc" /\ call.old # NULL)
      BY <2>1, StateFacts DEF CallOK, OldOK
    <3> QED
      BY <2>1, <3>1 DEF OldApart
  <2>5. MappingsOK' /\ NotInHole(call.n)'
    BY <2>1 DEF OwnInv, MappingsOK, NotInHole
  <2> QED
    BY <2>3, <2>4, <2>5 DEF OwnInv
<1> QED
  BY <1>1, <1>2

LEMMA SmallocRefusesOwners ==
  ASSUME IInv, OwnInv, SmallocReject \/ SmallocNone \/ SmallocMmapFails
  PROVE  OwnInv'
<1>1. Quiet /\ call.at = "smalloc" /\ call \in Calls
  BY UntouchedQuiet, StateFacts
     DEF SmallocReject, SmallocNone, SmallocMmapFails, SmallocSearch, SmallocReady, At
<1>2. Used' = held /\ MappingsOK'
  BY <1>1, QuietUsed, QuietMappings DEF OwnInv, OwnersOK
<1>3. CASE SmallocReject \/ SmallocNone
  <2>1. Answer(NULL, FALSE) /\ held' = held
    BY <1>3 DEF SmallocReject, SmallocNone, Fail, client
  <2> QED
    BY <1>1, <1>2, <2>1, AnswerMoves, IdleOwners DEF OwnInv, NotInHole
<1>4. CASE SmallocMmapFails
  <2>1. SmallocReturns(MAP_FAILED)
    BY <1>4 DEF SmallocMmapFails
  <2>2. MAP_FAILED \notin held /\ (call.old # NULL => call.old # MAP_FAILED)
    BY <1>1, StateFacts, AddressKinds DEF ClientOK, ClientType, Calls
  <2>3. OwnersOK' /\ TopIsFree' /\ OldApart'
    BY <1>1, <1>2, <2>1, <2>2, SmallocReturnsOwners
  <2>4. call'.n = call.n
    BY <1>1, <2>1, SmallocReturnsMoves
  <2> QED
    BY <1>2, <2>3, <2>4 DEF OwnInv, NotInHole
<1> QED
  BY <1>3, <1>4

LEMMA SmallocMmapOwners ==
  ASSUME IInv, OwnInv, SmallocMmap
  PROVE  OwnInv'
<1>1. HeapType /\ call \in Calls /\ call.n \in Nat /\ call.at = "smalloc"
  BY StateFacts, TightFacts DEF SmallocMmap, SmallocReady, At
<1>2. PICK a \in MMAP_ADDRS :
        /\ Unused(a, call.n)
        /\ live' = live \cup {a}
        /\ size' = [size EXCEPT ![a] = call.n]
        /\ is_free' = [is_free EXCEPT ![a] = FALSE]
        /\ SmallocReturns(a)
  BY DEF SmallocMmap
<1>3. a \in Headers /\ a \notin live
  BY <1>2 DEF Headers, Unused
<1>4. /\ ~is_free'[a] /\ size'[a] = call.n
      /\ \A x \in Headers \ {a} : size'[x] = size[x] /\ is_free'[x] = is_free[x]
  BY <1>1, <1>2, <1>3 DEF HeapType
<1>5. Used' = Used \cup {a} /\ Used = held
  BY <1>1, <1>2, <1>3, <1>4 DEF Used, HeapType, OwnInv, OwnersOK
<1>6. a \notin held /\ a # MAP_FAILED
  BY <1>3, <1>5, AddressKinds DEF Used
<1>7. (call.op = "srealloc" /\ call.old # NULL) => call.old # a
  BY <1>1, <1>3, StateFacts DEF CallOK, OldOK
<1>8. OwnersOK' /\ TopIsFree' /\ OldApart'
  BY <1>1, <1>2, <1>3, <1>5, <1>6, <1>7, SmallocReturnsOwners
<1>9. MappingsOK'
  <2>1. Mapped' = Mapped \cup {a} /\ Mapped \subseteq Headers \ {a}
    BY <1>1, <1>2, <1>3 DEF Mapped, HeapType
  <2>2. \A m \in Mapped : ~is_free'[m] /\ size'[m] = size[m]
    BY <1>4, <2>1 DEF OwnInv, MappingsOK
  <2>3. \A m \in Mapped : a + size'[a] + META <= m \/ m + (size'[m] + META) <= a
    BY <1>2, <1>4, <2>2 DEF Unused, Whole
  <2>4. \A x, y \in Mapped : x < y => x + (size'[x] + META) <= y
    BY <2>2 DEF OwnInv, MappingsOK, Whole
  <2>5. /\ a \in Nat /\ META \in Nat \ {0} /\ size'[a] \in Nat
        /\ \A m \in Mapped : m \in Nat /\ size'[m] \in Nat
    <3>1. \A m \in Mapped : size[m] \in Nat /\ m \in MMAP_ADDRS
      BY <2>1, <1>1 DEF HeapType, Mapped
    <3>2. META \in Nat \ {0} /\ a \in Nat /\ \A m \in MMAP_ADDRS : m \in Nat
      BY MappedAddresses, GeometryAssumption
    <3> QED
      BY <1>1, <1>4, <2>2, <3>1, <3>2
  <2>6. \A m \in Mapped : /\ a < m => a + (size'[a] + META) <= m
                          /\ m < a => m + (size'[m] + META) <= a
    BY <2>3, <2>5
  <2>7. \A x, y \in Mapped' : x < y => x + (size'[x] + META) <= y
    BY <2>1, <2>4, <2>5, <2>6
  <2>8. \A x \in Mapped' : ~is_free'[x]
    BY <1>4, <2>1, <2>2
  <2> QED
    BY <2>7, <2>8 DEF MappingsOK, Whole
<1>10. call'.n = call.n
  BY <1>1, <1>2, SmallocReturnsMoves
<1> QED
  BY <1>8, <1>9, <1>10 DEF OwnInv, NotInHole

(* Popping a list takes a free block of its order.                         *)
LEMMA PopTakes ==
  ASSUME IInv, NEW k \in Orders, ~FL!isEmpty(freeBlockListArray[k]),
         NEW b, b = FL!Head(freeBlockListArray[k]), PopHead(b, k),
         UNCHANGED <<size, live>>
  PROVE  /\ b \in Blocks /\ b \in live /\ b \in Headers
         /\ is_free[b] /\ size[b] = Payload(k) /\ Taking(b)
         /\ Used' = Used \cup {b} /\ b \notin Used
<1>1. HeapType /\ HeapOK /\ Blocks \subseteq live
  BY StateFacts
<1>2. b \in FreeBlocks(k) /\ b \in Blocks /\ b \in Headers
  BY <1>1, HeadIsListed
<1>3. Taking(b)
  BY DEF PopHead, Taking
<1> QED
  BY <1>1, <1>2, <1>3, TakingUsed DEF FreeBlocks, Used

(* A request below the mmap threshold and not in the hole fits a block of  *)
(* its tight order, and of any above.                                      *)
LEMMA RequestFits ==
  ASSUME call \in Calls, NotInHole(call.n), call.n < MAX_ORDER_BLOCK_SIZE,
         NEW k \in Orders, Tight <= k
  PROVE  call.n <= Payload(MAX_ORDER) /\ call.n <= Payload(k)
<1>1. call.n \in Nat /\ Tight \in Orders /\ Tight \in Nat /\ k \in Nat
  BY TightFacts, OrdersType
<1>2. call.n <= Payload(MAX_ORDER)
  BY <1>1, DivisorType DEF NotInHole
<1>3. call.n <= Payload(Tight)
  BY <1>2, TightFacts
<1>4. Payload(Tight) \in Nat /\ Payload(k) \in Nat
  BY <1>1, PayloadType
<1>5. Payload(Tight) <= Payload(k)
  BY <1>1, <1>4, PayloadType
<1> QED
  BY <1>1, <1>2, <1>3, <1>4, <1>5

(* So it is not the block srealloc was given: that one, if free, is too    *)
(* small.                                                                  *)
LEMMA PoppedIsNotOld ==
  ASSUME IInv, OwnInv, SmallocSearch, NEW k \in Orders, Tight <= k,
         NEW b \in Blocks, is_free[b], size[b] = Payload(k)
  PROVE  (call.op = "srealloc" /\ call.old # NULL) => call.old # b
<1>1. call \in Calls /\ call.at = "smalloc" /\ call.n < MAX_ORDER_BLOCK_SIZE
  BY StateFacts DEF SmallocSearch, SmallocReady, At
<1>2. call.n \in Nat /\ call.n <= Payload(k) /\ Payload(k) \in Nat
  BY <1>1, TightFacts, RequestFits, PayloadType DEF OwnInv
<1>3. ASSUME call.op = "srealloc", call.old # NULL, call.old = b
      PROVE  FALSE
  <2>1. size[b] < call.n
    BY <1>1, <1>3 DEF OwnInv, OldApart, At
  <2> QED
    BY <1>2, <2>1
<1> QED
  BY <1>3

LEMMA SmallocTightOwners ==
  ASSUME IInv, OwnInv, SmallocTight
  PROVE  OwnInv'
<1>1. HeapType /\ call \in Calls /\ call.at = "smalloc" /\ SmallocSearch
  BY StateFacts DEF SmallocTight, SmallocSearch, SmallocReady, At
<1>2. PICK k \in Orders : k = Tight
  BY <1>1, TightFacts
<1>3. PICK b : b = FL!Head(freeBlockListArray[k])
  OBVIOUS
<1>4. /\ ~FL!isEmpty(freeBlockListArray[k]) /\ PopHead(b, k) /\ SmallocReturns(b)
      /\ UNCHANGED <<size, live>>
  BY <1>2, <1>3 DEF SmallocTight
<1>5. /\ b \in Blocks /\ b \in Headers /\ is_free[b] /\ size[b] = Payload(k)
      /\ Taking(b) /\ Used' = Used \cup {b} /\ b \notin Used
  BY <1>3, <1>4, PopTakes
<1>6. Used = held /\ b # MAP_FAILED
  BY <1>1, <1>5, AddressKinds DEF OwnInv, OwnersOK
<1>7. Tight <= k
  BY <1>2, OrdersType
<1>8. (call.op = "srealloc" /\ call.old # NULL) => call.old # b
  BY <1>1, <1>5, <1>7, PoppedIsNotOld
<1>9. OwnersOK' /\ TopIsFree' /\ OldApart'
  BY <1>1, <1>4, <1>5, <1>6, <1>8, SmallocReturnsOwners
<1>10. MappingsOK' /\ call'.n = call.n
  BY <1>1, <1>4, <1>5, FlagMappings, SmallocReturnsMoves DEF OwnInv
<1> QED
  BY <1>9, <1>10 DEF OwnInv, NotInHole

(* smalloc goes up to the lowest list that has a block. *)
LEMMA HigherFacts ==
  ASSUME IInv, SmallocHigher
  PROVE  \E high \in Orders :
           /\ Tight < high /\ high = LowestStocked(Tight)
           /\ ~FL!isEmpty(freeBlockListArray[high])
           /\ \A j \in Orders : Tight <= j /\ j < high => freeBlockListArray[j].blocks = {}
<1>1. Tight \in Orders /\ Tight \in Nat /\ MAX_ORDER \in Nat
  BY StateFacts, TightFacts, OrdersType
<1>2. PICK t : t = Tight
  OBVIOUS
<1>3. FL!isEmpty(freeBlockListArray[t]) /\ Stocked(t) # {}
  BY <1>2 DEF SmallocHigher
<1>4. Stocked(t) \subseteq Nat
  BY <1>1, <1>2 DEF Stocked
<1>5. PICK high : high = LowestStocked(t)
  OBVIOUS
<1>6. high \in Stocked(t) /\ \A j \in Stocked(t) : high <= j
  BY <1>3, <1>4, <1>5, MinIsLeast DEF LowestStocked
<1>7. high \in t .. MAX_ORDER /\ ~FL!isEmpty(freeBlockListArray[high])
  BY <1>6 DEF Stocked
<1>8. high \in Orders /\ t < high
  BY <1>1, <1>2, <1>3, <1>7 DEF Orders
<1>9. ASSUME NEW j \in Orders, t <= j, j < high
      PROVE  freeBlockListArray[j].blocks = {}
  <2>1. j \in t .. MAX_ORDER /\ ~(high <= j)
    BY <1>1, <1>2, <1>7, <1>9, OrdersType DEF Orders
  <2> QED
    BY <1>6, <2>1 DEF Stocked, FL!isEmpty
<1> QED
  BY <1>2, <1>5, <1>7, <1>8, <1>9

LEMMA SmallocHigherOwners ==
  ASSUME IInv, OwnInv, SmallocHigher
  PROVE  OwnInv'
<1>1. HeapType /\ call \in Calls /\ call.at = "smalloc" /\ SmallocSearch
  BY StateFacts DEF SmallocHigher, SmallocSearch, SmallocReady, At
<1>2. PICK k \in Orders : /\ Tight < k /\ k = LowestStocked(Tight)
                         /\ ~FL!isEmpty(freeBlockListArray[k])
  BY HigherFacts
<1>3. PICK b : b = FL!Head(freeBlockListArray[k])
  OBVIOUS
<1>4. /\ PopHead(b, k) /\ UNCHANGED <<size, live, client>>
      /\ call' = [call EXCEPT !.at = "split", !.blk = b, !.high = k - 1,
                              !.splits = k - Tight]
  BY <1>2, <1>3 DEF SmallocHigher
<1>5. /\ b \in Blocks /\ b \in Headers /\ is_free[b] /\ size[b] = Payload(k)
      /\ Taking(b) /\ Used' = Used \cup {b} /\ b \notin Used
  BY <1>2, <1>3, <1>4, PopTakes
<1>6. Used = held /\ held' = held
  BY <1>1, <1>4 DEF OwnInv, OwnersOK, client
<1>7. Tight <= k
  <2>1. PICK t \in Orders : t = Tight
    BY <1>1, TightFacts
  <2>2. t < k /\ t \in Nat /\ k \in Nat
    BY <1>2, <2>1, OrdersType
  <2> QED
    BY <2>1, <2>2
<1>8. (call.op = "srealloc" /\ call.old # NULL) => call.old # b
  BY <1>1, <1>5, <1>7, PoppedIsNotOld
<1>9. /\ call'.at = "split" /\ call'.blk = b /\ call'.op = call.op
      /\ call'.old = call.old /\ call'.n = call.n
  BY <1>1, <1>4 DEF Calls
<1>10. OwnersOK' /\ TopIsFree' /\ OldApart'
  BY <1>5, <1>6, <1>8, <1>9 DEF OwnersOK, TopIsFree, OldApart, At, Releases
<1>11. MappingsOK'
  BY <1>1, <1>5, FlagMappings DEF OwnInv
<1> QED
  BY <1>9, <1>10, <1>11 DEF OwnInv, NotInHole

(* What one turn of the loop of splitBlock makes of the blocks. *)
LEMMA SplitStepBlocks ==
  ASSUME IInv, SplitStep
  PROVE  \E b, h, right :
           /\ b = call.blk /\ h = call.high /\ right = b + getOrderSize(h)
           /\ h \in Orders /\ h + 1 \in Orders /\ Tight <= h
           /\ b \in Blocks /\ b \in Nat /\ ~is_free[b] /\ size[b] = Payload(h + 1)
           /\ right \in Slots /\ right \notin live /\ right # b
           /\ live' = live \cup {right}
           /\ size' = [size EXCEPT ![b] = Payload(h), ![right] = Payload(h)]
           /\ is_free' = [is_free EXCEPT ![b] = FALSE, ![right] = TRUE]
           /\ call' = [call EXCEPT !.high = h - 1] /\ call.at = "split"
           /\ held' = held
<1>1. HeapType /\ HeapOK /\ call \in Calls /\ CallOK /\ ArenaOK /\ Shaped /\ Apart
  BY StateFacts
<1>2. PICK b, h : b = call.blk /\ h = call.high
  OBVIOUS
<1>3. PICK t \in Orders : t = Tight
  BY <1>1, TightFacts
<1>4. PICK right : right = b + getOrderSize(h)
  OBVIOUS
<1>5. /\ b \in Blocks /\ ~is_free[b] /\ size[b] = Payload(h + 1)
      /\ h \in -1 .. MAX_ORDER - 1 /\ t <= h /\ call.at = "split"
  BY <1>1, <1>2, <1>3 DEF SplitStep, SplitsLeft, CallOK, SplitOK, At
<1>6. h \in Orders /\ h < MAX_ORDER /\ h + 1 \in Orders
  BY <1>3, <1>5, OrdersType DEF Orders
<1>7. /\ b \in ArenaSlots /\ b \in Nat /\ Whole(b) = getOrderSize(h + 1)
      /\ b % getOrderSize(h + 1) = 0
  <2>1. PICK j \in Orders : /\ b \in ArenaSlots /\ b \in Nat /\ size[b] = Payload(j)
                           /\ Whole(b) = getOrderSize(j) /\ b % getOrderSize(j) = 0
    BY <1>1, <1>5, BlockFacts
  <2>2. j = h + 1
    BY <1>5, <1>6, <2>1, PayloadType
  <2> QED
    BY <2>1, <2>2
<1>8. getOrderSize(h) \in Nat \ {0} /\ getOrderSize(h + 1) = 2 * getOrderSize(h)
  BY <1>6, OrderSizeType
<1>9. right \in Nat /\ b < right /\ right < b + Whole(b)
  BY <1>4, <1>7, <1>8
<1>10. right \in Slots
  <2>1. /\ arena <= b /\ b < arena + PROGRAM_BREAK_DIVISOR /\ arena \in Nat
        /\ b % ORDER_SIZE = 0
    BY <1>1, <1>7, ArenaFacts, SlotsType
  <2>2. Ancestor(b, h + 1) = b
    BY <1>6, <1>7, <1>8 DEF Ancestor
  <2>3. b + getOrderSize(h + 1) <= arena + PROGRAM_BREAK_DIVISOR
    BY <1>1, <1>6, <1>7, <2>2, AncestorInArena
  <2>4. getOrderSize(h) % ORDER_SIZE = 0
    BY <1>6, SmallestDivides
  <2>5. right % ORDER_SIZE = 0
    BY <1>4, <1>7, <1>8, <2>1, <2>4, OrdersType, MultipleSum
  <2>6. arena <= right /\ right < arena + PROGRAM_BREAK_DIVISOR
    BY <1>4, <1>7, <1>8, <2>1, <2>3, DivisorType
  <2>7. right \in ArenaSlots
    BY <1>1, <1>7, <1>9, <2>5, <2>6, ArenaFacts
  <2> QED
    BY <2>7 DEF ArenaSlots
<1>11. right \notin live
  <2>1. right \notin Blocks
    <3>1. ASSUME right \in Blocks PROVE b + Whole(b) <= right
      BY <1>1, <1>5, <1>9, <3>1 DEF Apart
    <3>2. Whole(b) \in Nat
      BY <1>7, <1>8
    <3> QED
      BY <1>7, <1>9, <3>1, <3>2
  <2> QED
    BY <1>10, <2>1 DEF Blocks
<1>12. /\ live' = live \cup {right}
       /\ size' = [size EXCEPT ![b] = Payload(h), ![right] = Payload(h)]
       /\ is_free' = [is_free EXCEPT ![b] = FALSE, ![right] = TRUE]
       /\ call' = [call EXCEPT !.high = h - 1] /\ held' = held
  BY <1>1, <1>2, <1>4 DEF SplitStep, NextLower, client, Calls
<1>13. right # b /\ Tight <= h
  BY <1>3, <1>5, <1>7, <1>9
<1> QED
  BY <1>2, <1>4, <1>5, <1>6, <1>7, <1>10, <1>11, <1>12, <1>13

(* A turn of the loop of splitBlock puts nothing in use. *)
LEMMA SplitStepOwners ==
  ASSUME IInv, OwnInv, SplitStep
  PROVE  OwnInv'
<1>1. HeapType /\ call \in Calls /\ HeapOK
  BY StateFacts
<1>2. PICK b, h, right :
        /\ b = call.blk /\ h \in Orders
        /\ b \in Blocks /\ ~is_free[b] /\ right \in Slots /\ right \notin live
        /\ right # b /\ live' = live \cup {right}
        /\ size' = [size EXCEPT ![b] = Payload(h), ![right] = Payload(h)]
        /\ is_free' = [is_free EXCEPT ![b] = FALSE, ![right] = TRUE]
        /\ call' = [call EXCEPT !.high = h - 1] /\ call.at = "split"
        /\ held' = held
  BY SplitStepBlocks
<1>3. /\ call'.at = "split" /\ call'.blk = b /\ call'.op = call.op
      /\ call'.old = call.old /\ call'.n = call.n
  BY <1>1, <1>2 DEF Calls
<1>4. b \in live /\ b \in Headers /\ right \in Headers
  BY <1>2 DEF Blocks, Headers
<1>5. /\ ~is_free'[b] /\ is_free'[right]
      /\ \A x \in Headers \ {b, right} : is_free'[x] = is_free[x] /\ size'[x] = size[x]
  BY <1>1, <1>2, <1>4 DEF HeapType
<1>6. Used' = Used
  <2>1. ASSUME NEW x \in live
        PROVE  is_free'[x] <=> is_free[x]
    <3>1. x = b \/ x \in Headers \ {b, right}
      BY <1>1, <1>2 DEF HeapType
    <3> QED
      BY <1>2, <1>5, <3>1
  <2> QED
    BY <1>2, <1>5, <2>1 DEF Used
<1>7. OwnersOK'
  BY <1>2, <1>3, <1>6 DEF OwnInv, OwnersOK, At, Releases
<1>8. TopIsFree' /\ OldApart'
  BY <1>2, <1>3 DEF OwnInv, OldApart, TopIsFree, At
<1>9. MappingsOK'
  <2>1. right \notin MMAP_ADDRS /\ b \notin MMAP_ADDRS
    BY <1>2, SlotsType DEF Blocks
  <2>2. Mapped' = Mapped /\ Mapped \subseteq Headers \ {b, right}
    BY <1>1, <1>2, <2>1 DEF Mapped, HeapType
  <2> QED
    BY <1>5, <2>2, MappingsStay DEF OwnInv
<1> QED
  BY <1>3, <1>7, <1>8, <1>9 DEF OwnInv, NotInHole

LEMMA SplitReturnOwners ==
  ASSUME IInv, OwnInv, SplitReturn
  PROVE  OwnInv'
<1>1. Quiet /\ call.at = "split" /\ call \in Calls /\ CallOK
  BY UntouchedQuiet, StateFacts DEF SplitReturn, At
<1>2. PICK b : b = call.blk
  OBVIOUS
<1>3. SmallocReturns(b) /\ b \in Blocks /\ b \in Headers
  BY <1>1, <1>2, StateFacts DEF SplitReturn, CallOK, SplitOK, At
<1>4. Used' = held \cup {b} /\ b \notin held
  BY <1>1, <1>2, QuietUsed DEF OwnInv, OwnersOK, At
<1>5. b # MAP_FAILED
  BY <1>3, AddressKinds
<1>6. (call.op = "srealloc" /\ call.old # NULL) => call.old # b
  BY <1>1, <1>2 DEF OwnInv, OldApart, At
<1>7. OwnersOK' /\ TopIsFree' /\ OldApart'
  BY <1>1, <1>3, <1>4, <1>5, <1>6, SmallocReturnsOwners
<1>8. call'.n = call.n
  BY <1>1, <1>3, SmallocReturnsMoves
<1> QED
  BY <1>1, <1>7, <1>8, QuietMappings DEF OwnInv, NotInHole

LEMMA ScallocMemsetOwners ==
  ASSUME IInv, OwnInv, ScallocMemset
  PROVE  OwnInv'
<1>1. Quiet /\ call \in Calls /\ call.at = "memset" /\ call.ret # MAP_FAILED
  BY ScallocMemsetQuiet, StateFacts DEF ScallocMemset, At
<1>2. Answer(call.ret, FALSE) /\ held' = held \cup {call.ret}
  BY DEF ScallocMemset
<1>3. held' = Used'
  BY <1>1, <1>2, QuietUsed DEF OwnInv, OwnersOK
<1> QED
  BY <1>1, <1>2, <1>3, AnswerMoves, IdleOwners, QuietMappings DEF OwnInv, NotInHole

(* In a process that has died nobody owns anything any more. *)
LEMMA DeadOwners ==
  ASSUME IInv, OwnInv, ScallocKilled \/ SreallocKilled \/ SfreeSegv
  PROVE  OwnInv'
<1>1. Quiet /\ call \in Calls
  BY UntouchedQuiet, StateFacts
<1>2. PICK place \in {"segv", "overrun"} : Goto(place)
  BY DEF ScallocKilled, SreallocKilled, SfreeSegv, WriteKills
<1>3. call'.at = place /\ call'.n = call.n
  BY <1>1, <1>2, GotoMoves DEF Places
<1>4. OwnersOK' /\ TopIsFree' /\ OldApart'
  BY <1>3 DEF OwnersOK, TopIsFree, OldApart, At, Releases
<1> QED
  BY <1>1, <1>3, <1>4, QuietMappings DEF OwnInv, NotInHole

(* sfree is over; the block it was given was not in use, or is no more. *)
LEMMA ReleaseEndsOwners ==
  ASSUME IInv, OwnInv, call.at \in {"sfree", "merge"}, SfreeReturns,
         Used' = Used \ {call.blk}, MappingsOK'
  PROVE  OwnInv'
<1>1. OwnersOK' /\ TopIsFree' /\ OldApart'
  BY SfreeReturnsOwners DEF OwnInv
<1>2. call'.n = call.n
  BY StateFacts, AnswerMoves DEF SfreeReturns, Fail
<1> QED
  BY <1>1, <1>2 DEF OwnInv, NotInHole

LEMMA SfreeIgnoresOwners ==
  ASSUME IInv, OwnInv, SfreeNull \/ SfreeReleased
  PROVE  OwnInv'
<1>1. Quiet /\ call.at = "sfree" /\ SfreeReturns
  BY UntouchedQuiet DEF SfreeNull, SfreeReleased, SfreeReadable, At
<1>2. call.blk \notin Used
  <2>1. NULL \notin live
    BY StateFacts, AddressKinds DEF HeapType
  <2> QED
    BY <2>1 DEF SfreeNull, SfreeReleased, Used
<1> QED
  BY <1>1, <1>2, QuietUsed, QuietMappings, ReleaseEndsOwners DEF OwnInv

LEMMA SfreeTriesMergeOwners ==
  ASSUME IInv, OwnInv, SfreeTriesMerge
  PROVE  OwnInv'
<1>1. Quiet /\ size' = size /\ call.at = "sfree" /\ call \in Calls /\ HeapOK /\ HeapType
  BY UntouchedQuiet, StateFacts DEF SfreeTriesMerge, SfreeArena, SfreeReadable, At
<1>2. Goto("merge") /\ held' = held
  BY DEF SfreeTriesMerge, client
<1>3. /\ call'.at = "merge" /\ call'.blk = call.blk /\ call'.n = call.n
      /\ call'.op = call.op /\ call'.ret = call.ret
  BY <1>1, <1>2, GotoMoves DEF Places
<1>4. OwnersOK'
  BY <1>1, <1>2, <1>3, QuietUsed DEF OwnInv, OwnersOK, At, Releases, MovedTo
<1>5. TopIsFree'
  <2>1. findTightOrder(size[call.blk]) # MAX_ORDER
    BY DEF SfreeTriesMerge
  <2>2. size[call.blk] # Payload(MAX_ORDER)
    BY <2>1, OrdersType, TightOrderOfPayload
  <2> QED
    BY <1>1, <1>3, <2>2 DEF TopIsFree
<1>6. OldApart'
  BY <1>3 DEF OldApart, At
<1> QED
  BY <1>1, <1>3, <1>4, <1>5, <1>6, QuietMappings DEF OwnInv, NotInHole

(* What sfree finds in use is a block. *)
LEMMA SfreeMunmapOwners ==
  ASSUME IInv, OwnInv, SfreeMunmap
  PROVE  OwnInv'
<1>1. HeapType /\ HeapOK /\ ClientOK
  BY StateFacts
<1>2. PICK b : b = call.blk
  OBVIOUS
<1>3. /\ SfreeReadable /\ ~is_free[b] /\ SfreeReturns /\ live' = live \ {b}
      /\ size' = [size EXCEPT ![b] = 0] /\ is_free' = is_free
      /\ call.at = "sfree"
  BY <1>2 DEF SfreeMunmap, SfreeReadable, At
<1>4. Used' = Used \ {call.blk}
  BY <1>2, <1>3 DEF Used
<1>5. Mapped' = Mapped \ {b} /\ Mapped \subseteq Headers
  BY <1>1, <1>3 DEF Mapped, HeapType
<1>6. \A x \in Mapped' : size'[x] = size[x] /\ is_free'[x] = is_free[x]
  BY <1>1, <1>3, <1>5 DEF HeapType
<1>7. MappingsOK'
  BY <1>5, <1>6, MappingsStay DEF OwnInv
<1> QED
  BY <1>3, <1>4, <1>7, ReleaseEndsOwners

LEMMA SfreeListsOwners ==
  ASSUME IInv, OwnInv, SfreeAlone \/ MergeStop
  PROVE  OwnInv'
<1>1. HeapType /\ HeapOK /\ ClientOK /\ CallOK /\ Blocks \subseteq live
  BY StateFacts
<1>2. PICK b : b = call.blk
  OBVIOUS
<1>3. /\ call.at \in {"sfree", "merge"} /\ SfreeReturns
      /\ is_free' = [is_free EXCEPT ![b] = TRUE] /\ size' = size /\ live' = live
  BY <1>2 DEF SfreeAlone, SfreeArena, SfreeReadable, MergeStop, Break, MarkFree, At
<1>4. b \in Blocks
  <2>1. CASE SfreeAlone
    <3>1. b \in live /\ size[b] < MAX_ORDER_BLOCK_SIZE
      BY <1>1, <1>2, <2>1, UsedIsLive DEF SfreeAlone, SfreeArena
    <3> QED
      BY <1>1, <3>1, SmallIsArena
  <2>2. CASE MergeStop
    BY <1>1, <1>2, <2>2 DEF MergeStop, CallOK, MergeOK
  <2> QED
    BY <2>1, <2>2
<1>5. Freeing(b) /\ b \in live
  BY <1>1, <1>3, <1>4 DEF Freeing
<1> QED
  BY <1>1, <1>2, <1>3, <1>4, <1>5, FreeingUsed, FlagMappings, ReleaseEndsOwners DEF OwnInv

LEMMA MergeTopOwners ==
  ASSUME IInv, OwnInv, MergeTop
  PROVE  OwnInv'
<1>1. HeapType /\ HeapOK /\ CallOK /\ ArenaOK /\ Shaped
  BY StateFacts
<1>2. Quiet /\ call.at = "merge" /\ SfreeReturns
  BY UntouchedQuiet DEF MergeTop, At
<1>3. PICK b : b = call.blk
  OBVIOUS
<1>4. b \in Blocks /\ findTightOrder(size[b]) = MAX_ORDER
  BY <1>1, <1>3 DEF MergeTop, CallOK, MergeOK
<1>5. size[b] = Payload(MAX_ORDER)
  BY <1>1, <1>4, BlockFacts
<1>6. b \notin Used
  BY <1>2, <1>3, <1>5 DEF OwnInv, TopIsFree, At, Used
<1> QED
  BY <1>2, <1>3, <1>6, QuietUsed, QuietMappings, ReleaseEndsOwners DEF OwnInv

(* Block b and its buddy, a free block of its size, become the block left. *)
Merging(b, buddy, left) ==
  /\ b = call.blk /\ b \in Blocks /\ buddy \in Blocks /\ buddy # b
  /\ left \in {b, buddy} /\ is_free[buddy]
  /\ \E k \in Orders : /\ size[b] = Payload(k) /\ k < MAX_ORDER
                       /\ findTightOrder(size[b]) = k
                       /\ k + 1 \in Orders /\ left = Ancestor(b, k + 1)
                       /\ size'[left] = Payload(k + 1)
                       /\ size[buddy] = size[b]
                       /\ buddy = findBuddyAddress(b)
                       /\ freeBlockListArray' =
                            [[freeBlockListArray EXCEPT ![k] = BothGone(b, buddy, k)]
                               EXCEPT ![k + 1] = FL!_addToList(@, left, Payload(k + 1))]
  /\ left \in Blocks' /\ is_free'[left]
  /\ live' = live \ ({b, buddy} \ {left})
  /\ call' = [call EXCEPT !.blk = left] /\ held' = held
  /\ CountBlocks(-1) /\ UNCHANGED <<mmapedList, firstAlloc>>
  /\ \A x \in live' : x # left => is_free'[x] = is_free[x] /\ size'[x] = size[x]
  /\ \A x \in Headers : x # left => size'[x] = size[x]

(* mergeBlocks, in sfree's loop or srealloc's. *)
LEMMA MergeBlocks ==
  ASSUME IInv, MergeStep \/ GrowStep
  PROVE  \E b, buddy, left : Merging(b, buddy, left)
<1>1. HeapType /\ HeapOK /\ call \in Calls /\ CallOK
  BY StateFacts
<1>2. PICK b : b = call.blk
  OBVIOUS
<1>3. PICK t \in Orders : t = Tight
  BY <1>1, TightFacts
<1>4. b \in Blocks /\ (GrowStep => canAllocateWithMerges(b, t))
  BY <1>1, <1>2, <1>3
     DEF MergeStep, GrowStep, CallOK, MergeOK, GrowOK, At
<1>5. PICK k \in Orders : /\ size[b] = Payload(k) /\ findTightOrder(size[b]) = k
                          /\ Ancestor(b, k) = b /\ b \in Nat
                          /\ findBuddyAddress(b) = findBuddyAddressBySize(b, getOrderSize(k))
  BY <1>1, <1>4, BlockFacts DEF HeapOK, Tiling
<1>6. PICK buddy : buddy = findBuddyAddress(b)
  OBVIOUS
<1>7. PICK left : left = Ancestor(b, k + 1)
  OBVIOUS
<1>8. k < MAX_ORDER /\ k + 1 \in Orders /\ mergeBlocks(b, buddy)
      /\ is_free[buddy] /\ size[buddy] = size[b]
  <2>1. CASE MergeStep
    BY <1>2, <1>5, <1>6, <2>1, OrdersType DEF MergeStep, CanMerge, Orders
  <2>2. CASE GrowStep
    <3>1. k < t /\ k < MAX_ORDER /\ k + 1 \in Orders /\ mergeBlocks(b, buddy)
      BY <1>2, <1>3, <1>5, <1>6, <2>2, OrdersType DEF GrowStep, Orders
    <3>2. k \in findTightOrder(size[b]) .. t - 1
      BY <1>5, <3>1, OrdersType
    <3> QED
      BY <1>4, <1>5, <1>6, <2>2, <3>1, <3>2 DEF canAllocateWithMerges
  <2> QED
    BY <2>1, <2>2
<1>9. /\ left \in Blocks' /\ is_free'[left] /\ size'[left] = Payload(k + 1)
      /\ call' = [call EXCEPT !.blk = left] /\ held' = held
      /\ \A x \in Blocks' : x # left => /\ x \in Blocks
                                        /\ is_free'[x] = is_free[x]
                                        /\ size'[x] = size[x]
  BY <1>1, <1>4, <1>5, <1>6, <1>7, <1>8, MergeKeeps
<1>10. PICK right :
         /\ right = (IF b = left THEN buddy ELSE b) /\ {b, buddy} = {left, right}
         /\ left # right /\ left \in Blocks /\ right \in Blocks
         /\ freeBlockListArray' =
              [[freeBlockListArray EXCEPT ![k] = BothGone(b, buddy, k)]
                 EXCEPT ![k + 1] = FL!_addToList(@, left, Payload(k + 1))]
         /\ size' = [size EXCEPT ![left] = Payload(k + 1)]
         /\ is_free' = [is_free EXCEPT ![b] = TRUE, ![left] = TRUE]
         /\ live' = live \ {right}
         /\ CountBlocks(-1)
         /\ UNCHANGED <<mmapedList, firstAlloc, arena, brk, held, granted>>
  BY <1>1, <1>4, <1>5, <1>6, <1>7, <1>8, MergeEffect
<1>11. /\ buddy \in Blocks /\ buddy # b /\ left \in {b, buddy}
       /\ live' = live \ ({b, buddy} \ {left})
  BY <1>10
<1>12. /\ \A x \in live' : x # left => is_free'[x] = is_free[x] /\ size'[x] = size[x]
       /\ \A x \in Headers : x # left => size'[x] = size[x]
  BY <1>1, <1>10 DEF HeapType
<1>13. \E j \in Orders : /\ size[b] = Payload(j) /\ j < MAX_ORDER
                         /\ findTightOrder(size[b]) = j
                         /\ j + 1 \in Orders /\ left = Ancestor(b, j + 1)
                         /\ size'[left] = Payload(j + 1)
                         /\ size[buddy] = size[b]
                         /\ buddy = findBuddyAddress(b)
                         /\ freeBlockListArray' =
                              [[freeBlockListArray EXCEPT ![j] = BothGone(b, buddy, j)]
                                 EXCEPT ![j + 1] = FL!_addToList(@, left, Payload(j + 1))]
  BY <1>5, <1>6, <1>7, <1>8, <1>9, <1>10
<1>14. Merging(b, buddy, left)
  <2>1. CountBlocks(-1) /\ UNCHANGED <<mmapedList, firstAlloc>>
    BY <1>10
  <2> QED
    BY <1>2, <1>4, <1>8, <1>9, <1>11, <1>12, <1>13, <2>1, Zenon DEF Merging
<1> QED
  BY <1>14

LEMMA MergeUsed ==
  ASSUME IInv, MergeStep \/ GrowStep
  PROVE  /\ Used' = Used \ {call.blk} /\ call' = [call EXCEPT !.blk = call'.blk]
         /\ Mapped' = Mapped /\ held' = held /\ call'.blk \notin Used'
         /\ \A a \in Mapped : size'[a] = size[a] /\ is_free'[a] = is_free[a]
         /\ call'.blk \notin Used \ {call.blk}
<1>1. HeapType /\ call \in Calls
  BY StateFacts
<1>2. PICK b, buddy, left :
           /\ b = call.blk /\ b \in Blocks /\ buddy \in Blocks /\ buddy # b
           /\ left \in {b, buddy} /\ is_free[buddy]
           /\ left \in Blocks' /\ is_free'[left]
           /\ live' = live \ ({b, buddy} \ {left})
           /\ call' = [call EXCEPT !.blk = left] /\ held' = held
           /\ \A x \in live' : x # left => is_free'[x] = is_free[x] /\ size'[x] = size[x]
  BY MergeBlocks DEF Merging
<1>3. call'.blk = left
  BY <1>1, <1>2 DEF Calls
<1>4. Used' = Used \ {b}
  BY <1>2 DEF Used
<1>5. left \notin Used'
  BY <1>2 DEF Used
<1>6. b \notin MMAP_ADDRS /\ buddy \notin MMAP_ADDRS
  BY <1>2, SlotsType DEF Blocks
<1>7. Mapped' = Mapped /\ \A a \in Mapped : a \in live' /\ a # left
  BY <1>2, <1>6 DEF Mapped
<1> QED
  BY <1>2, <1>3, <1>4, <1>5, <1>7

LEMMA MergingOwners ==
  ASSUME IInv, OwnInv, MergeStep \/ GrowStep
  PROVE  OwnInv'
<1>1. HeapType /\ call \in Calls
  BY StateFacts
<1>2. /\ Used' = Used \ {call.blk} /\ call' = [call EXCEPT !.blk = call'.blk]
      /\ Mapped' = Mapped /\ held' = held /\ call'.blk \notin Used'
      /\ \A a \in Mapped : size'[a] = size[a] /\ is_free'[a] = is_free[a]
  BY MergeUsed
<1>3. /\ call'.at = call.at /\ call'.op = call.op /\ call'.old = call.old
      /\ call'.n = call.n /\ call'.ret = call.ret
  BY <1>1, <1>2 DEF Calls
<1>4. OwnersOK'
  <2>1. CASE MergeStep
    <3>1. call.at = "merge" /\ Used' = held \cup MovedTo /\ MovedTo \cap held = {}
      BY <1>2, <2>1 DEF MergeStep, OwnInv, OwnersOK, Releases, At
    <3>2. MovedTo' = MovedTo
      BY <1>3 DEF MovedTo
    <3> QED
      BY <1>2, <1>3, <3>1, <3>2 DEF OwnersOK, Releases, At
  <2>2. CASE GrowStep
    <3>1. call.at = "grow" /\ Used = held \ {call.old}
      BY <2>2 DEF GrowStep, OwnInv, OwnersOK, At
    <3>2. call.blk \notin Used
      BY <3>1, StateFacts DEF CallOK, GrowOK, At, Used
    <3> QED
      BY <1>2, <1>3, <3>1, <3>2 DEF OwnersOK, Releases, At
  <2> QED
    BY <2>1, <2>2
<1>5. TopIsFree'
  <2>1. PICK left : left \in Blocks' /\ is_free'[left] /\ call' = [call EXCEPT !.blk = left]
    BY MergeBlocks DEF Merging
  <2>2. call'.blk = left
    BY <1>1, <2>1 DEF Calls
  <2> QED
    BY <2>1, <2>2 DEF TopIsFree
<1>6. OldApart'
  <2>1. call'.at \in {"merge", "grow"}
    BY <1>3 DEF MergeStep, GrowStep, At
  <2> QED
    BY <2>1 DEF OldApart, At
<1>7. MappingsOK'
  BY <1>2, MappingsStay DEF OwnInv
<1> QED
  BY <1>3, <1>4, <1>5, <1>6, <1>7 DEF OwnInv, NotInHole

LEMMA SreallocAnswersOwners ==
  ASSUME IInv, OwnInv, SreallocReject \/ SreallocSame
  PROVE  OwnInv'
<1>1. HeapType /\ HeapOK /\ ClientOK /\ CallOK /\ call \in Calls
  BY StateFacts
<1>2. Quiet /\ call.at = "srealloc"
  BY UntouchedQuiet DEF SreallocReject, SreallocSame, SreallocReady, At
<1>3. CASE SreallocReject
  <2>1. Answer(NULL, FALSE) /\ held' = held
    BY <1>3 DEF SreallocReject, Fail, client
  <2>2. held' = Used'
    BY <1>2, <2>1, QuietUsed DEF OwnInv, OwnersOK
  <2> QED
    BY <1>1, <1>2, <2>1, <2>2, AnswerMoves, IdleOwners, QuietMappings DEF OwnInv, NotInHole
<1>4. CASE SreallocSame
  <2>1. PICK b : b = call.old
    OBVIOUS
  <2>2. Answer(b, FALSE) /\ held' = held \cup {b} /\ size[b] = call.n /\ Big
    BY <1>4, <2>1 DEF SreallocSame, Grant
  <2>3. b \in live /\ b \in Headers
    BY <1>1, <1>4, <2>1, OldIsLive DEF SreallocSame
  <2>4. b \in Used
    <3>1. size[b] \in Nat /\ size[b] > Payload(MAX_ORDER)
      BY <1>1, <2>1, <2>2, <2>3 DEF Big, HeapType
    <3>2. size[b] >= MAX_ORDER_BLOCK_SIZE
      BY <2>2, <3>1, OrdersType, PayloadType, DivisorType DEF OwnInv, NotInHole
    <3>3. b \in Mapped
      <4>1. b \in Blocks => size[b] < MAX_ORDER_BLOCK_SIZE
        BY <1>1, BlockIsSmall DEF HeapOK, Tiling
      <4> QED
        BY <2>3, <3>1, <3>2, <4>1, DivisorType DEF Headers, Blocks, Mapped
    <3> QED
      BY <2>3, <3>3 DEF OwnInv, MappingsOK, Used
  <2>5. held' = Used'
    BY <1>2, <2>2, <2>4, QuietUsed DEF OwnInv, OwnersOK
  <2> QED
    BY <1>1, <1>2, <2>2, <2>5, AnswerMoves, IdleOwners, QuietMappings DEF OwnInv, NotInHole
<1> QED
  BY <1>3, <1>4

(* srealloc goes on in smalloc.  A released block that it was given is too *)
(* small for the request, or smalloc might find that very block again.     *)
LEMMA SreallocMovesOwners ==
  ASSUME IInv, OwnInv, SreallocNull \/ SreallocMoves
  PROVE  OwnInv'
<1>1. HeapType /\ HeapOK /\ ClientOK /\ CallOK /\ call \in Calls
  BY StateFacts
<1>2. Quiet /\ size' = size /\ is_free' = is_free /\ call.at = "srealloc"
  BY UntouchedQuiet
     DEF SreallocNull, SreallocMoves, SreallocGrows, SreallocReady, At
<1>3. Goto("smalloc") /\ held' = held
  BY DEF SreallocNull, SreallocMoves, client
<1>4. /\ call'.at = "smalloc" /\ call'.op = call.op /\ call'.old = call.old
      /\ call'.n = call.n
  BY <1>1, <1>3, GotoMoves DEF Places
<1>5. OwnersOK'
  BY <1>2, <1>3, <1>4, QuietUsed DEF OwnInv, OwnersOK, At, Releases
<1>6. TopIsFree'
  BY <1>4 DEF TopIsFree, At
<1>7. OldApart'
  <2>1. CASE call.old = NULL
    BY <1>4, <2>1 DEF OldApart
  <2>2. CASE call.old # NULL /\ is_free[call.old]
    <3>1. PICK b : b = call.old
      OBVIOUS
    <3>2. SreallocReady /\ SreallocMoves /\ size[b] # call.n
          /\ (Big \/ call.n > size[b])
      BY <1>1, <2>2, <3>1, OldIsLive
         DEF SreallocNull, SreallocMoves, SreallocGrows, HeapType, Calls
    <3>3. b \in live /\ b \in Headers /\ size[b] \in Nat /\ call.n \in Nat
      BY <1>1, <3>1, <3>2, OldIsLive, TightFacts DEF HeapType
    <3>4. b \in Blocks
      BY <2>2, <3>1, <3>3 DEF OwnInv, MappingsOK, Mapped, Blocks, Headers
    <3>5. size[b] <= Payload(MAX_ORDER)
      BY <1>1, <3>4, BlockIsSmall DEF HeapOK, Tiling
    <3>6. size[b] < call.n
      BY <3>1, <3>2, <3>3, <3>5, OrdersType, PayloadType DEF Big
    <3> QED
      BY <1>2, <1>4, <3>1, <3>6 DEF OldApart, At
  <2>3. CASE call.old # NULL /\ ~is_free[call.old]
    BY <1>2, <1>4, <2>3 DEF OldApart, At
  <2> QED
    BY <2>1, <2>2, <2>3
<1> QED
  BY <1>2, <1>4, <1>5, <1>6, <1>7, QuietMappings DEF OwnInv, NotInHole

LEMMA SreallocReuseOwners ==
  ASSUME IInv, OwnInv, SreallocReuse
  PROVE  OwnInv'
<1>1. HeapType /\ HeapOK /\ ClientOK /\ call \in Calls /\ Blocks \subseteq live
  BY StateFacts
<1>2. PICK b : b = call.old
  OBVIOUS
<1>3. /\ is_free' = [is_free EXCEPT ![b] = FALSE] /\ Answer(b, FALSE)
      /\ held' = held \cup {b} /\ size' = size /\ live' = live
      /\ call.at = "srealloc"
  BY <1>2 DEF SreallocReuse, TakeBack, Grant, SreallocReady, At
<1>4. b \in Blocks
  BY <1>1, <1>2, OldIsLive DEF SreallocReuse
<1>5. Taking(b) /\ b \in live
  BY <1>1, <1>3, <1>4 DEF Taking
<1>6. held' = Used'
  BY <1>1, <1>3, <1>5, TakingUsed DEF OwnInv, OwnersOK
<1>7. MappingsOK'
  BY <1>1, <1>4, <1>5, FlagMappings DEF OwnInv
<1> QED
  BY <1>1, <1>3, <1>6, <1>7, AnswerMoves, IdleOwners DEF OwnInv, NotInHole

LEMMA SreallocMergesOwners ==
  ASSUME IInv, OwnInv, SreallocMerges
  PROVE  OwnInv'
<1>1. HeapType /\ HeapOK /\ ClientOK /\ call \in Calls /\ Blocks \subseteq live
  BY StateFacts
<1>2. PICK b : b = call.old
  OBVIOUS
<1>3. /\ IF is_free[b] THEN is_free' = is_free
                       ELSE is_free' = [is_free EXCEPT ![b] = TRUE]
      /\ Goto("grow") /\ held' = held /\ size' = size /\ live' = live
      /\ call.at = "srealloc" /\ SreallocReady /\ ~Big
  BY <1>2 DEF SreallocMerges, SreallocGrows, MarkFree, SreallocReady, At, client
<1>4. b \in Blocks /\ b \in live
  BY <1>1, <1>2, <1>3, OldIsLive
<1>5. Used' = Used \ {b} /\ MappingsOK'
  <2>1. CASE is_free[b]
    <3>1. Quiet
      BY <1>3, <2>1 DEF Quiet
    <3> QED
      BY <2>1, <3>1, QuietUsed, QuietMappings DEF OwnInv, Used
  <2>2. CASE ~is_free[b]
    <3>1. Freeing(b)
      BY <1>3, <2>2 DEF Freeing
    <3> QED
      BY <1>1, <1>4, <3>1, FreeingUsed, FlagMappings DEF OwnInv
  <2> QED
    BY <2>1, <2>2
<1>6. call'.at = "grow" /\ call'.old = b /\ call'.n = call.n
  BY <1>1, <1>2, <1>3, GotoMoves DEF Places
<1>7. OwnersOK'
  BY <1>3, <1>5, <1>6 DEF OwnInv, OwnersOK, At, Releases
<1> QED
  BY <1>5, <1>6, <1>7 DEF OwnInv, NotInHole, TopIsFree, OldApart, At

LEMMA GrowReturnOwners ==
  ASSUME IInv, OwnInv, GrowReturn
  PROVE  OwnInv'
<1>1. HeapType /\ HeapOK /\ CallOK /\ call \in Calls /\ Blocks \subseteq live
  BY StateFacts
<1>2. PICK b : b = call.blk
  OBVIOUS
<1>3. /\ is_free' = [is_free EXCEPT ![b] = FALSE] /\ Answer(b, FALSE)
      /\ held' = (held \ {call.old}) \cup {b} /\ size' = size /\ live' = live
      /\ call.at = "grow"
  BY <1>2 DEF GrowReturn, TakeBack, Grant, At
<1>4. b \in Blocks /\ b \in live
  BY <1>1, <1>2, <1>3 DEF CallOK, GrowOK, At
<1>5. Taking(b)
  BY <1>3 DEF Taking
<1>6. held' = Used'
  BY <1>1, <1>3, <1>4, <1>5, TakingUsed DEF OwnInv, OwnersOK, At
<1>7. MappingsOK'
  BY <1>1, <1>4, <1>5, FlagMappings DEF OwnInv
<1> QED
  BY <1>1, <1>3, <1>6, <1>7, AnswerMoves, IdleOwners DEF OwnInv, NotInHole

LEMMA SreallocMemmoveOwners ==
  ASSUME IInv, OwnInv, SreallocMemmove
  PROVE  OwnInv'
<1>1. HeapType /\ call \in Calls
  BY StateFacts
<1>2. /\ Quiet /\ call.op = "srealloc" /\ call.at = "memmove" /\ call.old # NULL
  BY SreallocMemmoveQuiet
<1>3. PICK b, r : b = call.old /\ r = call.ret
  OBVIOUS
<1>4. /\ call' = [call EXCEPT !.at = "sfree", !.blk = b] /\ held' = held \ {b}
      /\ r # MAP_FAILED
  BY <1>3 DEF SreallocMemmove
<1>5. /\ call'.at = "sfree" /\ call'.blk = b /\ call'.op = "srealloc"
      /\ call'.ret = r /\ call'.n = call.n
  BY <1>1, <1>2, <1>3, <1>4 DEF Calls
<1>6. Used' = held \cup {r} /\ r \notin held /\ b # r
  BY <1>2, <1>3, <1>4, QuietUsed DEF OwnInv, OwnersOK, OldApart, At
<1>7. MovedTo' = {r}
  BY <1>5 DEF MovedTo
<1>8. OwnersOK'
  BY <1>4, <1>5, <1>6, <1>7 DEF OwnersOK, At, Releases
<1> QED
  BY <1>2, <1>5, <1>8, QuietMappings DEF OwnInv, NotInHole, TopIsFree, OldApart, At

LEMMA OwnersNext ==
  ASSUME IInv, OwnInv, NoHoleRequests, [Next]_vars
  PROVE  OwnInv'
<1>1. CASE Call
  BY <1>1, CallOwners
<1>2. CASE ClientWrites \/ ForeignSbrk
  BY <1>2, OutsideOwners
<1>3. CASE Step
  <2>1. CASE FirstAllocatorFails \/ FirstAllocator
    BY <2>1, FirstAllocationOwners
  <2>2. CASE SmallocReject \/ SmallocNone \/ SmallocMmapFails
    BY <2>2, SmallocRefusesOwners
  <2>3. CASE SmallocMmap
    BY <2>3, SmallocMmapOwners
  <2>4. CASE SmallocTight
    BY <2>4, SmallocTightOwners
  <2>5. CASE SmallocHigher
    BY <2>5, SmallocHigherOwners
  <2>6. CASE SplitStep
    BY <2>6, SplitStepOwners
  <2>7. CASE SplitReturn
    BY <2>7, SplitReturnOwners
  <2>8. CASE ScallocMemset
    BY <2>8, ScallocMemsetOwners
  <2>9. CASE ScallocKilled \/ SreallocKilled \/ SfreeSegv
    BY <2>9, DeadOwners
  <2>10. CASE SfreeNull \/ SfreeReleased
    BY <2>10, SfreeIgnoresOwners
  <2>11. CASE SfreeTriesMerge
    BY <2>11, SfreeTriesMergeOwners
  <2>12. CASE SfreeMunmap
    BY <2>12, SfreeMunmapOwners
  <2>13. CASE SfreeAlone \/ MergeStop
    BY <2>13, SfreeListsOwners
  <2>14. CASE MergeTop
    BY <2>14, MergeTopOwners
  <2>15. CASE MergeStep \/ GrowStep
    BY <2>15, MergingOwners
  <2>16. CASE SreallocReject \/ SreallocSame
    BY <2>16, SreallocAnswersOwners
  <2>17. CASE SreallocNull \/ SreallocMoves
    BY <2>17, SreallocMovesOwners
  <2>18. CASE SreallocReuse
    BY <2>18, SreallocReuseOwners
  <2>19. CASE SreallocMerges
    BY <2>19, SreallocMergesOwners
  <2>20. CASE GrowReturn
    BY <2>20, GrowReturnOwners
  <2>21. CASE SreallocMemmove
    BY <2>21, SreallocMemmoveOwners
  <2> QED
    BY <1>3, <2>1, <2>2, <2>3, <2>4, <2>5, <2>6, <2>7, <2>8, <2>9, <2>10, <2>11,
       <2>12, <2>13, <2>14, <2>15, <2>16, <2>17, <2>18, <2>19, <2>20, <2>21 DEF Step
<1>4. CASE Halted \/ UNCHANGED vars
  BY <1>4, StutterOwners DEF Halted
<1> QED
  BY <1>1, <1>2, <1>3, <1>4 DEF Next

----------------------------------------------------------------------------

(* At every step each block in use has one owner, if no request falls into *)
(* the gap between the two size tests of smalloc and srealloc.             *)
THEOREM EachBlockHasOneOwner ==
  ASSUME NoHoleRequests
  PROVE  Safety => []OwnInv
<1>1. Init => OwnInv
  BY InitOwners
<1>2. IInv /\ OwnInv /\ [Next]_vars => OwnInv'
  BY OwnersNext, NoHoleRequests
<1> QED
  BY <1>1, <1>2, Invariance, PTL DEF Safety

(* Between calls the blocks in use are those the client holds: a failing   *)
(* or moving srealloc leaks none, and no block of the client's is on a     *)
(* list from which smalloc could hand it out again.                        *)
THEOREM NoLeakNoTheft ==
  ASSUME NoHoleRequests
  PROVE  Safety => []HeldAreUsed
<1>1. OwnInv => HeldAreUsed
  BY DEF OwnInv, OwnersOK, HeldAreUsed, Idle, At
<1> QED
  BY <1>1, EachBlockHasOneOwner, NoHoleRequests, PTL

(* sfree of a pointer already released finds a header that says free,      *)
(* whatever merges and writes have passed over it since.                   *)
THEOREM DoubleFreeSeesFree ==
  ASSUME NoHoleRequests
  PROVE  Safety => []ReleasedLooksFree
<1>1. IInv /\ OwnInv => ReleasedLooksFree
  <2> SUFFICES ASSUME IInv, OwnInv, Idle, NEW p \in (granted \cap Slots) \ held
               PROVE  is_free[p]
    BY DEF ReleasedLooksFree
  <2>1. held = Used
    BY DEF OwnInv, OwnersOK, Idle, At
  <2>2. Known(p) /\ p \notin MMAP_ADDRS
    BY SlotsType DEF IInv, GrantedKnown
  <2> QED
    BY <2>1, <2>2 DEF Known, Used
<1> QED
  BY <1>1, EachBlockHasOneOwner, Invariance, NoHoleRequests, PTL

----------------------------------------------------------------------------
(* What a step leaves alone                                                *)

(* What is in use stays so, and keeps its size, unless it is given to      *)
(* sfree or srealloc, or is the block that splitBlock is cutting up.       *)
Stays(p) == p \in Used' /\ size'[p] = size[p]

LEMMA QuietStays ==
  ASSUME Quiet, NEW p \in Used
  PROVE  Stays(p)
BY QuietUsed DEF Quiet, Used, Stays

LEMMA TakingStays ==
  ASSUME HeapType, NEW b \in live, Taking(b), NEW p \in Used
  PROVE  Stays(p)
BY TakingUsed DEF Stays, Taking

LEMMA FreeingStays ==
  ASSUME HeapType, NEW b \in live, Freeing(b), NEW p \in Used, p # b
  PROVE  Stays(p)
BY FreeingUsed DEF Stays, Freeing

LEMMA SmallocTakes ==
  ASSUME IInv, SmallocTight \/ SmallocHigher
  PROVE  \E b, k : /\ k \in Orders /\ b \in Blocks /\ b \in live /\ b \in Headers
                   /\ is_free[b] /\ size[b] = Payload(k)
                   /\ Taking(b) /\ Used' = Used \cup {b} /\ b \notin Used
                   /\ b = FL!Head(freeBlockListArray[k]) /\ PopHead(b, k)
                   /\ ~FL!isEmpty(freeBlockListArray[k])
                   /\ (SmallocTight => k = Tight /\ SmallocReturns(b))
                   /\ (SmallocHigher => Tight < k /\ k = LowestStocked(Tight))
<1>1. HeapType /\ call \in Calls
  BY StateFacts
<1>2. PICK k \in Orders :
        /\ ~FL!isEmpty(freeBlockListArray[k])
        /\ PopHead(FL!Head(freeBlockListArray[k]), k)
        /\ (SmallocTight => k = Tight /\ SmallocReturns(FL!Head(freeBlockListArray[k])))
        /\ (SmallocHigher => Tight < k /\ k = LowestStocked(Tight))
  <2>1. CASE SmallocTight
    <3>1. PICK k \in Orders : k = Tight
      BY <1>1, TightFacts
    <3>2. ~SmallocHigher
      BY <2>1 DEF SmallocTight, SmallocHigher
    <3> QED
      BY <2>1, <3>1, <3>2 DEF SmallocTight
  <2>2. CASE SmallocHigher
    <3>1. ~SmallocTight
      BY <2>2 DEF SmallocTight, SmallocHigher
    <3> QED
      BY <2>2, <3>1, HigherFacts DEF SmallocHigher
  <2> QED
    BY <2>1, <2>2
<1>3. PICK b : b = FL!Head(freeBlockListArray[k])
  OBVIOUS
<1>4. UNCHANGED <<size, live>>
  BY DEF SmallocTight, SmallocHigher
<1>5. /\ b \in Blocks /\ b \in live /\ b \in Headers
      /\ is_free[b] /\ size[b] = Payload(k) /\ Taking(b)
      /\ Used' = Used \cup {b} /\ b \notin Used
  BY <1>2, <1>3, <1>4, PopTakes
<1> QED
  BY <1>2, <1>3, <1>5, Zenon

LEMMA UsedStay ==
  ASSUME IInv, OwnInv, [Next]_vars, NEW p \in Used
  PROVE  \/ Stays(p)
         \/ call.at \in {"sfree", "merge"} /\ p = call.blk
         \/ call.at = "srealloc" /\ p = call.old
         \/ call.at = "split" /\ p = call.blk
<1>1. /\ HeapType /\ HeapOK /\ ClientOK /\ CallOK /\ call \in Calls
      /\ p \in live /\ p \in Headers /\ ~is_free[p] /\ Blocks \subseteq live
  BY StateFacts DEF Used, HeapType
<1>2. CASE Call \/ ForeignSbrk \/ ClientWrites \/ Halted \/ UNCHANGED vars
  BY <1>2, UntouchedQuiet, ClientWritesQuiet, QuietStays
<1>3. CASE FirstAllocatorFails \/ SmallocReject \/ SmallocNone \/ SmallocMmapFails
           \/ SplitReturn \/ ScallocKilled \/ SfreeNull \/ SfreeSegv
           \/ SfreeReleased \/ SfreeTriesMerge \/ MergeTop \/ SreallocReject
           \/ SreallocNull \/ SreallocSame \/ SreallocMoves \/ SreallocKilled
  BY <1>3, UntouchedQuiet, QuietStays
<1>4. CASE ScallocMemset \/ SreallocMemmove
  BY <1>4, ScallocMemsetQuiet, SreallocMemmoveQuiet, QuietStays
<1>5. CASE FirstAllocator
  BY <1>1, <1>5, FirstAllocatorBlocks
<1>6. CASE SmallocMmap
  <2>1. PICK a \in MMAP_ADDRS : /\ Unused(a, call.n)
                                /\ live' = live \cup {a}
                                /\ size' = [size EXCEPT ![a] = call.n]
                                /\ is_free' = [is_free EXCEPT ![a] = FALSE]
    BY <1>6 DEF SmallocMmap
  <2>2. a # p
    BY <1>1, <2>1 DEF Unused
  <2> QED
    BY <1>1, <2>1, <2>2 DEF Stays, Used, HeapType
<1>7. CASE SmallocTight \/ SmallocHigher
  BY <1>1, <1>7, SmallocTakes, TakingStays
<1>8. CASE SplitStep
  <2>1. PICK b, right, bytes :
          /\ b = call.blk /\ right \notin live /\ call.at = "split"
          /\ live' = live \cup {right}
          /\ size' = [size EXCEPT ![b] = bytes, ![right] = bytes]
          /\ is_free' = [is_free EXCEPT ![b] = FALSE, ![right] = TRUE]
    BY <1>8, SplitStepBlocks
  <2> QED
    BY <1>1, <2>1 DEF Stays, Used, HeapType
<1>9. CASE SfreeMunmap
  <2>1. /\ call.at = "sfree" /\ live' = live \ {call.blk}
        /\ size' = [size EXCEPT ![call.blk] = 0] /\ is_free' = is_free
    BY <1>9 DEF SfreeMunmap, SfreeReadable, At
  <2> QED
    BY <1>1, <2>1 DEF Stays, Used, HeapType
<1>10. CASE SfreeAlone \/ MergeStop
  <2>1. /\ call.at \in {"sfree", "merge"} /\ live' = live /\ size' = size
        /\ is_free' = [is_free EXCEPT ![call.blk] = TRUE]
    BY <1>10 DEF SfreeAlone, SfreeArena, SfreeReadable, MergeStop, MarkFree, At
  <2> QED
    BY <1>1, <2>1 DEF Stays, Used, HeapType
<1>11. CASE MergeStep \/ GrowStep
  <2>1. PICK b, buddy, left : Merging(b, buddy, left)
    BY <1>11, MergeBlocks
  <2>2. p # buddy /\ (p # b => p \in live' /\ p # left)
    BY <1>1, <2>1 DEF Merging
  <2>3. GrowStep => p # b
    BY <1>1, <2>1 DEF GrowStep, CallOK, GrowOK, At, Merging
  <2>4. p # b => Stays(p)
    BY <1>1, <2>1, <2>2 DEF Merging, Stays, Used
  <2> QED
    BY <1>11, <2>1, <2>3, <2>4 DEF MergeStep, At, Merging
<1>12. CASE SreallocReuse \/ GrowReturn
  <2>1. PICK b \in live : Taking(b)
    <3>1. CASE SreallocReuse
      BY <1>1, <3>1, OldIsLive DEF SreallocReuse, TakeBack, Taking, SreallocReady
    <3>2. CASE GrowReturn
      BY <1>1, <3>2 DEF GrowReturn, TakeBack, Taking, CallOK, GrowOK, At
    <3> QED
      BY <1>12, <3>1, <3>2
  <2> QED
    BY <1>1, <2>1, TakingStays
<1>13. CASE SreallocMerges
  <2>1. /\ call.at = "srealloc" /\ live' = live /\ size' = size
        /\ is_free' = is_free \/ is_free' = [is_free EXCEPT ![call.old] = TRUE]
    BY <1>13 DEF SreallocMerges, SreallocGrows, SreallocReady, At, MarkFree
  <2> QED
    BY <1>1, <2>1 DEF Stays, Used, HeapType
<1> QED
  BY <1>2, <1>3, <1>4, <1>5, <1>6, <1>7, <1>8, <1>9, <1>10, <1>11, <1>12, <1>13
     DEF Next, Step

----------------------------------------------------------------------------
(* The regions of the client                                               *)

(* A process that has died does nothing. *)
LEMMA DeadStays ==
  ASSUME Dead, [Next]_vars
  PROVE  UNCHANGED vars
<1>1. call.at \in {"segv", "overrun"}
  BY DEF Dead, At
<1>2. ~(Call \/ ClientWrites \/ ForeignSbrk)
  BY <1>1 DEF Call, CallWith, ClientWrites, ForeignSbrk, At
<1>3. ~(FirstAllocatorFails \/ FirstAllocator \/ SmallocReject \/ SmallocMmap
        \/ SmallocMmapFails \/ SmallocTight \/ SmallocHigher \/ SmallocNone)
  BY <1>1 DEF FirstAllocatorFails, FirstAllocator, SmallocReject, SmallocMmap,
              SmallocMmapFails, SmallocTight, SmallocHigher, SmallocNone, SmallocSearch,
              SmallocReady, At
<1>4. ~(SplitStep \/ SplitReturn \/ ScallocMemset \/ ScallocKilled)
  BY <1>1 DEF SplitStep, SplitReturn, ScallocMemset, ScallocKilled, At
<1>5. ~(SfreeNull \/ SfreeSegv \/ SfreeReleased \/ SfreeMunmap \/ SfreeAlone
        \/ SfreeTriesMerge \/ MergeStep \/ MergeStop \/ MergeTop)
  BY <1>1 DEF SfreeNull, SfreeSegv, SfreeReleased, SfreeMunmap, SfreeAlone,
              SfreeTriesMerge, SfreeArena, SfreeReadable, MergeStep, MergeStop, MergeTop, At
<1>6. ~(SreallocReject \/ SreallocNull \/ SreallocSame \/ SreallocReuse \/ SreallocMoves
        \/ SreallocMerges \/ GrowStep \/ GrowReturn \/ SreallocMemmove \/ SreallocKilled)
  BY <1>1 DEF SreallocReject, SreallocNull, SreallocSame, SreallocReuse, SreallocMoves,
              SreallocMerges, SreallocGrows, SreallocReady, GrowStep, GrowReturn,
              SreallocMemmove, SreallocKilled, At
<1> QED
  BY <1>2, <1>3, <1>4, <1>5, <1>6 DEF Next, Step, Halted

(* What the client holds stays in use, at its size, while srealloc does    *)
(* not work on it.                                                         *)
LEMMA HeldStays ==
  ASSUME IInv, OwnInv, [Next]_vars, ~Dead, NEW p \in held,
         At("grow") => p # call.old
  PROVE  Stays(p) \/ (At("srealloc") /\ p = call.old)
<1>1. call.at \in Places
  BY StateFacts DEF Calls
<1>2. p \in Used
  BY <1>1 DEF OwnInv, OwnersOK, Releases, Dead, At, Places
<1>3. call.at \in {"sfree", "merge"} => p # call.blk
  BY DEF OwnInv, OwnersOK, Releases
<1>4. call.at = "split" => p # call.blk
  BY DEF OwnInv, OwnersOK, At
<1> QED
  BY <1>2, <1>3, <1>4, UsedStay DEF At

(* srealloc, before it grows the block, leaves its size. *)
LEMMA HeldSize ==
  ASSUME IInv, OwnInv, [Next]_vars, ~At("grow"), NEW p \in held
  PROVE  size'[p] = size[p]
<1>1. CASE Dead
  BY <1>1, DeadStays DEF vars, heap, headers
<1>2. CASE ~Dead /\ At("srealloc")
  <2>1. SreallocReject \/ SreallocNull \/ SreallocSame \/ SreallocReuse \/ SreallocMoves
        \/ SreallocMerges => size' = size
    BY DEF SreallocReject, SreallocNull, SreallocSame, SreallocReuse, SreallocMoves,
           SreallocMerges, heap, headers
  <2>2. UNCHANGED vars \/ Halted => size' = size
    BY DEF vars, heap, headers, Halted
  <2>3. ~(Call \/ ClientWrites \/ ForeignSbrk)
    BY <1>2 DEF Call, CallWith, ClientWrites, ForeignSbrk, At
  <2>4. ~(FirstAllocatorFails \/ FirstAllocator \/ SmallocReject \/ SmallocMmap
          \/ SmallocMmapFails \/ SmallocTight \/ SmallocHigher \/ SmallocNone
          \/ SplitStep \/ SplitReturn \/ ScallocMemset \/ ScallocKilled)
    BY <1>2 DEF FirstAllocatorFails, FirstAllocator, SmallocReject, SmallocMmap,
                SmallocMmapFails, SmallocTight, SmallocHigher, SmallocNone, SmallocSearch,
                SmallocReady, SplitStep, SplitReturn, ScallocMemset, ScallocKilled, At
  <2>5. ~(SfreeNull \/ SfreeSegv \/ SfreeReleased \/ SfreeMunmap \/ SfreeAlone
          \/ SfreeTriesMerge \/ MergeStep \/ MergeStop \/ MergeTop
          \/ GrowStep \/ GrowReturn \/ SreallocMemmove \/ SreallocKilled)
    BY <1>2 DEF SfreeNull, SfreeSegv, SfreeReleased, SfreeMunmap, SfreeAlone,
                SfreeTriesMerge, SfreeArena, SfreeReadable, MergeStep, MergeStop, MergeTop,
                GrowStep, GrowReturn, SreallocMemmove, SreallocKilled, At
  <2>6. size' = size
    BY <2>1, <2>2, <2>3, <2>4, <2>5 DEF Next, Step
  <2> QED
    BY <2>6
<1>3. CASE ~Dead /\ ~At("srealloc")
  BY <1>3, HeldStays DEF Stays
<1> QED
  BY <1>1, <1>2, <1>3

(* How the client's pointers change. *)
LEMMA HeldChanges ==
  ASSUME IInv, [Next]_vars
  PROVE  \/ held' = held
         \/ \E b : held' = held \ {b} /\ b = call'.old /\ call'.at = "sfree"
         \/ held' = held \ {call.old} /\ call.at = "memmove"
         \/ \E b : held' = held \cup {b} /\ call'.at = "idle"
         \/ GrowReturn
<1>1. call \in Calls
  BY StateFacts
<1>2. CASE Call
  <2>1. PICK op \in {"smalloc", "scalloc", "srealloc", "sfree"} :
          \E p \in {NULL} \cup granted, n \in SIZES \cup {0}, num \in NUMS \cup {1} :
            CallWith(op, p, num, n)
    BY <1>2 DEF Call
  <2> QED
    BY <2>1 DEF CallWith, NoCall
<1>3. CASE ClientWrites \/ ForeignSbrk \/ Halted \/ UNCHANGED vars
  BY <1>3 DEF ClientWrites, ForeignSbrk, Halted, vars, client
<1>4. CASE FirstAllocatorFails \/ FirstAllocator \/ SmallocReject \/ SmallocNone
           \/ SmallocHigher \/ SplitStep
  BY <1>4 DEF FirstAllocatorFails, FirstAllocator, SmallocReject, SmallocNone,
              SmallocHigher, SplitStep, Fail, client
<1>5. CASE SmallocMmap \/ SmallocMmapFails \/ SmallocTight \/ SplitReturn
  <2>1. PICK b : SmallocReturns(b)
    BY <1>5 DEF SmallocMmap, SmallocMmapFails, SmallocTight, SplitReturn
  <2> QED
    BY <1>1, <2>1, SmallocReturnsMoves
<1>6. CASE ScallocMemset \/ SreallocSame \/ SreallocReuse
  <2>1. PICK b : Answer(b, FALSE) /\ held' = held \cup {b}
    BY <1>6 DEF ScallocMemset, SreallocSame, SreallocReuse, Grant
  <2> QED
    BY <1>1, <2>1, AnswerMoves
<1>7. CASE ScallocKilled \/ SreallocKilled \/ SfreeSegv \/ SfreeTriesMerge
           \/ SreallocReject \/ SreallocNull \/ SreallocMoves \/ SreallocMerges
           \/ MergeStep \/ GrowStep
  BY <1>7 DEF ScallocKilled, SreallocKilled, SfreeSegv, SfreeTriesMerge, SreallocReject,
              SreallocNull, SreallocMoves, SreallocMerges, MergeStep, GrowStep,
              mergeBlocks, Fail, client
<1>8. CASE SfreeNull \/ SfreeReleased \/ SfreeMunmap \/ SfreeAlone \/ MergeStop \/ MergeTop
  <2>1. SfreeReturns
    BY <1>8 DEF SfreeNull, SfreeReleased, SfreeMunmap, SfreeAlone, MergeStop, Break, MergeTop
  <2>2. CASE call.op = "sfree"
    BY <2>1, <2>2 DEF SfreeReturns, Fail, client
  <2>3. CASE call.op # "sfree"
    BY <1>1, <2>1, <2>3, AnswerMoves DEF SfreeReturns, Grant
  <2> QED
    BY <2>2, <2>3
<1>9. CASE SreallocMemmove
  BY <1>9 DEF SreallocMemmove, At
<1> QED
  BY <1>2, <1>3, <1>4, <1>5, <1>6, <1>7, <1>8, <1>9 DEF Next, Step

(* Whatever other blocks are split, merged or moved, a block of the        *)
(* client's keeps its place, its size and its flag.                        *)
LEMMA HeldUntouchedStep ==
  ASSUME IInv, OwnInv, IInv', [Next]_vars, vars' # vars, NEW p \in held
  PROVE  \/ p = call.old /\ (At("srealloc") \/ At("grow") \/ At("memmove"))
         \/ p = call'.old /\ call'.at = "sfree"
         \/ /\ p \in held' /\ p \in live'
            /\ size'[p] = size[p] /\ is_free'[p] = is_free[p]
<1> SUFFICES ASSUME ~(p = call.old /\ (At("srealloc") \/ At("grow") \/ At("memmove"))),
                    ~(p = call'.old /\ call'.at = "sfree")
             PROVE  /\ p \in held' /\ p \in live'
                    /\ size'[p] = size[p] /\ is_free'[p] = is_free[p]
  OBVIOUS
<1>1. ~Dead
  BY DeadStays
<1>2. Stays(p)
  BY <1>1, HeldStays DEF At
<1>3. p \in held'
  <2>1. GrowReturn => held' = (held \ {call.old}) \cup {call.blk}
    BY DEF GrowReturn, Grant
  <2>2. GrowReturn => At("grow")
    BY DEF GrowReturn
  <2>3. CASE GrowReturn
    BY <2>1, <2>2, <2>3
  <2>4. CASE ~GrowReturn
    BY <2>4, HeldChanges DEF At
  <2> QED
    BY <2>3, <2>4
<1>4. is_free[p] = FALSE /\ is_free'[p] = FALSE
  <2>1. p \in Headers /\ p \in Used /\ p \in Used'
    <3>1. p \in Used
      <4>1. call.at \in Places
        BY StateFacts DEF Calls
      <4> QED
        BY <1>1, <4>1 DEF OwnInv, OwnersOK, Releases, Dead, At, Places
    <3> QED
      BY <1>2, <3>1, StateFacts DEF Stays, Used, HeapType
  <2>2. is_free \in [Headers -> BOOLEAN] /\ is_free' \in [Headers -> BOOLEAN]
    BY DEF IInv, TypeOK, HeapType
  <2> QED
    BY <2>1, <2>2 DEF Used
<1> QED
  BY <1>2, <1>3, <1>4 DEF Stays, Used

THEOREM HeldBlocksUntouched ==
  ASSUME NoHoleRequests
  PROVE  Safety => HeldUntouched
<1> DEFINE Kept == \A p \in held :
              \/ p = call.old /\ (At("srealloc") \/ At("grow") \/ At("memmove"))
              \/ p = call'.old /\ call'.at = "sfree"
              \/ /\ p \in held' /\ p \in live'
                 /\ size'[p] = size[p] /\ is_free'[p] = is_free[p]
<1>1. IInv /\ OwnInv /\ IInv' /\ [Next]_vars => [Kept]_vars
  BY HeldUntouchedStep
<1>2. Safety => [](IInv /\ OwnInv)
  BY EachBlockHasOneOwner, Invariance, NoHoleRequests, PTL
<1>3. HeldUntouched <=> [][Kept]_vars
  BY DEF HeldUntouched
<1> HIDE DEF Kept
<1> QED
  BY <1>1, <1>2, <1>3, PTL DEF Safety
----------------------------------------------------------------------------
(* The allocator implements what Heap promises                             *)

(* The bytes of any two blocks are disjoint, in the arena and out of it.   *)
LiveApart == \A x, y \in live : x < y => x + Whole(x) <= y

LEMMA BlocksShareNothing ==
  ASSUME IInv, MappingsOK
  PROVE  LiveApart
<1> SUFFICES ASSUME NEW x \in live, NEW y \in live, x < y
             PROVE  x + Whole(x) <= y
  BY DEF LiveApart
<1>1. HeapType /\ HeapOK /\ Apart /\ Shaped
  BY StateFacts
<1>2. live \subseteq Blocks \cup Mapped
  BY <1>1 DEF HeapType, Headers, Blocks, Mapped
<1>3. CASE x \in Blocks /\ y \in Blocks
  BY <1>1, <1>3 DEF Apart
<1>4. CASE x \in Mapped /\ y \in Mapped
  BY <1>4 DEF MappingsOK
<1>5. CASE x \in Blocks /\ y \in Mapped
  <2>1. y \in Nat /\ y > BRK_LIMIT /\ BRK_LIMIT \in Nat
    BY <1>5, MappedAddresses, Malloc3Assumption DEF Mapped
  <2>2. PICK k \in Orders : /\ x \in ArenaSlots /\ x \in Nat /\ Whole(x) = getOrderSize(k)
                            /\ Ancestor(x, k) = x
    BY <1>1, <1>5, BlockFacts DEF HeapOK
  <2>3. x + Whole(x) <= BRK_LIMIT
    <3>1. /\ arena \in Nat /\ arena + PROGRAM_BREAK_DIVISOR <= BRK_LIMIT
          /\ x + Whole(x) <= arena + PROGRAM_BREAK_DIVISOR
      BY <1>1, <2>2, ArenaFacts, AncestorInArena DEF HeapOK, ArenaOK
    <3>2. Whole(x) \in Nat /\ PROGRAM_BREAK_DIVISOR \in Nat
      BY <2>2, OrderSizeType, DivisorType
    <3> QED
      BY <2>1, <2>2, <3>1, <3>2
  <2>4. Whole(x) \in Nat
    BY <2>2, OrderSizeType
  <2> QED
    BY <2>1, <2>2, <2>3, <2>4
<1>6. CASE x \in Mapped /\ y \in Blocks
  <2>1. x \in Nat /\ x > BRK_LIMIT /\ BRK_LIMIT \in Nat
    BY <1>6, MappedAddresses, Malloc3Assumption DEF Mapped
  <2>2. y \in Nat /\ y <= BRK_LIMIT
    BY <1>6, SlotsType, Malloc3Assumption DEF Blocks, Slots
  <2> QED
    BY <2>1, <2>2
<1> QED
  BY <1>2, <1>3, <1>4, <1>5, <1>6

(* The mapping to module Heap. *)
Owned == [p \in held |-> Whole(p)]

LEMMA OwnedSame ==
  ASSUME held' = held, \A p \in held : size'[p] = size[p]
  PROVE  Owned' = Owned
BY DEF Owned, Whole

LEMMA OwnedLess ==
  ASSUME NEW p, held' = held \ {p}, \A q \in held : size'[q] = size[q]
  PROVE  Owned' = Owned \/ (Regions!TakeBack(p) /\ p \in held)
<1>1. CASE p \in held
  <2>1. Owned' = [q \in held \ {p} |-> Owned[q]]
    BY DEF Owned, Whole
  <2> QED
    BY <1>1, <2>1 DEF Regions!TakeBack, Regions!Restrict, Owned
<1>2. CASE p \notin held
  BY <1>2, OwnedSame
<1> QED
  BY <1>1, <1>2

(* A live block is at least a header long and shares no byte with others.  *)
LEMMA LiveRegion ==
  ASSUME HeapType', LiveApart', NEW q \in live', NEW others, others \subseteq live',
         q \notin others, \A x \in others : size'[x] = size[x]
  PROVE  /\ Whole(q)' > 0
         /\ \A x \in others : Regions!Apart(q, Whole(q)', x, Whole(x))
<1>1. META \in Nat \ {0} /\ \A x \in Headers : x \in Nat
  BY SlotsType, MappedAddresses, GeometryAssumption DEF Headers
<1>2. \A x \in live' : x \in Nat /\ size'[x] \in Nat
  BY <1>1 DEF HeapType
<1>3. \A x \in others : Whole(x)' = Whole(x)
  BY DEF Whole
<1>4. \A x \in others : q + Whole(q)' <= x \/ x + Whole(x)' <= q
  BY <1>2 DEF LiveApart
<1>5. Whole(q)' > 0
  BY <1>1, <1>2 DEF Whole
<1> QED
  BY <1>3, <1>4, <1>5 DEF Regions!Apart

LEMMA OwnedMore ==
  ASSUME HeapType', LiveApart', NEW b, held' = held \cup {b}, held' \subseteq live',
         \A p \in held : size'[p] = size[p]
  PROVE  Owned' = Owned \/ Regions!Give(b, Owned'[b])
<1>1. CASE b \in held
  BY <1>1, OwnedSame
<1>2. CASE b \notin held
  <2>1. DOMAIN Owned = held /\ Owned'[b] = Whole(b)' /\ \A q \in held : Owned[q] = Whole(q)
    BY DEF Owned
  <2>2. Owned' = [q \in held \cup {b} |-> IF q = b THEN Whole(b)' ELSE Owned[q]]
    BY <1>2 DEF Owned, Whole
  <2>3. /\ Whole(b)' > 0
        /\ \A x \in held : Regions!Apart(b, Whole(b)', x, Whole(x))
    BY <1>2, LiveRegion
  <2> QED
    BY <1>2, <2>1, <2>2, <2>3 DEF Regions!Give, Regions!Fresh, Owned
<1> QED
  BY <1>1, <1>2

(* srealloc has found q, or made it by merging, in place of p. *)
LEMMA OwnedReplaced ==
  ASSUME HeapType', LiveApart', NEW p \in held, NEW q \in live',
         held' = (held \ {p}) \cup {q}, q \notin held \ {p}, held \ {p} \subseteq live',
         \A x \in held \ {p} : size'[x] = size[x]
  PROVE  Regions!Replace(p, q, Owned'[q])
<1>1. /\ DOMAIN Owned = held /\ Owned'[q] = Whole(q)'
      /\ \A x \in held \ {p} : Owned[x] = Whole(x)
  BY DEF Owned
<1>2. Owned' = [r \in (held \ {p}) \cup {q} |-> IF r = q THEN Whole(q)' ELSE Owned[r]]
  BY DEF Owned, Whole
<1>3. /\ Whole(q)' > 0
      /\ \A x \in held \ {p} : Regions!Apart(q, Whole(q)', x, Whole(x))
  BY LiveRegion
<1> QED
  BY <1>1, <1>2, <1>3 DEF Regions!Replace, Regions!Fresh, Owned

(* The steps of Heap, with the pointers that the step names. *)
LEMMA HeapSteps ==
  /\ \A p \in held : Regions!TakeBack(p) => Regions!Next
  /\ \A q \in held' : Regions!Give(q, Owned'[q]) => Regions!Next
  /\ \A p \in held, q \in held' : Regions!Replace(p, q, Owned'[q]) => Regions!Next
<1>1. DOMAIN [p \in held |-> Whole(p)] = held /\ DOMAIN [p \in held |-> Whole(p)]' = held'
  OBVIOUS
<1>2. ASSUME NEW p \in held, Regions!TakeBack(p) PROVE Regions!Next
  BY <1>1, <1>2 DEF Regions!Next
<1>3. ASSUME NEW q \in held', Regions!Give(q, Owned'[q]) PROVE Regions!Next
  <2>1. Regions!Give(q, [p \in held |-> Whole(p)]'[q])
    BY <1>3 DEF Owned
  <2> QED
    BY <1>1, <2>1, Zenon DEF Regions!Next
<1>4. ASSUME NEW p \in held, NEW q \in held', Regions!Replace(p, q, Owned'[q])
      PROVE  Regions!Next
  <2>1. Regions!Replace(p, q, [r \in held |-> Whole(r)]'[q])
    BY <1>4 DEF Owned
  <2> QED
    BY <1>1, <2>1, Zenon DEF Regions!Next
<1> QED
  BY <1>2, <1>3, <1>4, Zenon

(* Every step of the allocator is one of Heap on the client's regions, or  *)
(* leaves them alone.                                                      *)
LEMMA StepImplementsHeap ==
  ASSUME IInv, OwnInv, [Next]_vars, IInv', OwnInv', LiveApart'
  PROVE  Owned' = Owned \/ Regions!Next
<1>1. HeapType' /\ call \in Calls /\ HeapType
  <2>1. HeapType'
    BY DEF IInv, TypeOK
  <2> QED
    BY <2>1, StateFacts
<1>2. CASE ~At("grow")
  <2>1. \A p \in held : size'[p] = size[p]
    BY <1>2, HeldSize
  <2>2. CASE held' = held
    BY <2>1, <2>2, OwnedSame
  <2>3. ASSUME NEW b, held' = held \ {b} PROVE Owned' = Owned \/ Regions!Next
    BY <2>1, <2>3, OwnedLess, HeapSteps
  <2>4. ASSUME NEW b, held' = held \cup {b}, call'.at = "idle"
        PROVE  Owned' = Owned \/ Regions!Next
    <3>1. held' \subseteq live' /\ b \in held'
      BY <2>4 DEF OwnInv, OwnersOK, Used
    <3> QED
      BY <1>1, <2>1, <2>4, <3>1, OwnedMore, HeapSteps
  <2> QED
    BY <1>2, <2>2, <2>3, <2>4, HeldChanges DEF GrowReturn
<1>3. CASE At("grow")
  <2>1. Used = held \ {call.old} /\ \A p \in held \ {call.old} : Stays(p)
    <3>1. Used = held \ {call.old}
      BY <1>3 DEF OwnInv, OwnersOK
    <3>2. ~Dead /\ ~At("srealloc")
      BY <1>3 DEF Dead, At
    <3> QED
      BY <3>1, <3>2, HeldStays
  <2>2. /\ \A p \in held \ {call.old} : size'[p] = size[p]
        /\ held \ {call.old} \subseteq live'
    BY <2>1 DEF Stays, Used
  <2>3. CASE GrowStep
    <3>1. PICK b, buddy, left : Merging(b, buddy, left)
      BY <2>3, MergeBlocks
    <3>2. held' = held /\ left \in live' /\ \A x \in Headers : x # left => size'[x] = size[x]
      BY <3>1 DEF Merging, Blocks
    <3>3. CASE call.old \in held /\ left = call.old
      BY <1>1, <2>2, <3>2, <3>3, OwnedReplaced, HeapSteps
    <3>4. CASE ~(call.old \in held /\ left = call.old)
      <4>1. held \subseteq Headers
        BY DEF IInv, TypeOK
      <4>2. \A p \in held : size'[p] = size[p]
        BY <2>2, <3>2, <3>4, <4>1
      <4> QED
        BY <3>2, <4>2, OwnedSame
    <3> QED
      BY <3>3, <3>4
  <2>4. CASE GrowReturn
    <3>1. PICK b : b = call.blk
      OBVIOUS
    <3>2. held' = (held \ {call.old}) \cup {b} /\ size' = size
      BY <2>4, <3>1 DEF GrowReturn, Grant
    <3>3. is_free[b] /\ b \in live' /\ b \notin held \ {call.old}
      BY <1>3, <2>1, <2>4, <3>1
         DEF GrowReturn, IInv, CallOK, GrowOK, Blocks, Used
    <3>4. CASE call.old \in held
      BY <1>1, <2>2, <3>2, <3>3, <3>4, OwnedReplaced, HeapSteps
    <3>5. CASE call.old \notin held
      <4>1. held' = held \cup {b} /\ held' \subseteq live' /\ b \in held'
        BY <2>2, <3>2, <3>3, <3>5
      <4> QED
        BY <1>1, <3>2, <4>1, OwnedMore, HeapSteps
    <3> QED
      BY <3>4, <3>5
  <2>5. CASE ~GrowStep /\ ~GrowReturn
    <3>1. UNCHANGED vars
      <4>1. ~(Call \/ ClientWrites \/ ForeignSbrk)
        BY <1>3 DEF Call, CallWith, ClientWrites, ForeignSbrk, At
      <4>2. ~(FirstAllocatorFails \/ FirstAllocator \/ SmallocReject \/ SmallocMmap
              \/ SmallocMmapFails \/ SmallocTight \/ SmallocHigher \/ SmallocNone
              \/ SplitStep \/ SplitReturn \/ ScallocMemset \/ ScallocKilled)
        BY <1>3 DEF FirstAllocatorFails, FirstAllocator, SmallocReject, SmallocMmap,
                    SmallocMmapFails, SmallocTight, SmallocHigher, SmallocNone,
                    SmallocSearch, SmallocReady, SplitStep, SplitReturn, ScallocMemset,
                    ScallocKilled, At
      <4>3. ~(SfreeNull \/ SfreeSegv \/ SfreeReleased \/ SfreeMunmap \/ SfreeAlone
              \/ SfreeTriesMerge \/ MergeStep \/ MergeStop \/ MergeTop)
        BY <1>3 DEF SfreeNull, SfreeSegv, SfreeReleased, SfreeMunmap, SfreeAlone,
                    SfreeTriesMerge, SfreeArena, SfreeReadable, MergeStep, MergeStop,
                    MergeTop, At
      <4>4. ~(SreallocReject \/ SreallocNull \/ SreallocSame \/ SreallocReuse
              \/ SreallocMoves \/ SreallocMerges \/ SreallocMemmove \/ SreallocKilled)
        BY <1>3 DEF SreallocReject, SreallocNull, SreallocSame, SreallocReuse,
                    SreallocMoves, SreallocMerges, SreallocGrows, SreallocReady,
                    SreallocMemmove, SreallocKilled, At
      <4> QED
        BY <2>5, <4>1, <4>2, <4>3, <4>4 DEF Next, Step, Halted
    <3> QED
      BY <3>1 DEF vars, client, heap, headers, Owned, Whole
  <2> QED
    BY <2>3, <2>4, <2>5
<1> QED
  BY <1>2, <1>3

(* The regions the client owns never share a byte and change one at a      *)
(* time, as it asks.                                                       *)
THEOREM BuddiesImplementHeap ==
  ASSUME NoHoleRequests
  PROVE  Safety => ImplementsHeap
<1>1. Init => Regions!Init
  BY DEF Init, Regions!Init
<1>2. /\ IInv /\ OwnInv /\ LiveApart /\ [Next]_vars
      /\ IInv' /\ OwnInv' /\ LiveApart'
      => [Regions!Next]_Owned
  BY StepImplementsHeap
<1>3. IInv /\ OwnInv => LiveApart
  BY BlocksShareNothing DEF OwnInv
<1>4. Safety => [](IInv /\ OwnInv)
  BY Invariance, EachBlockHasOneOwner, NoHoleRequests, PTL
<1>5. ImplementsHeap <=> Regions!Init /\ [][Regions!Next]_Owned
  BY DEF ImplementsHeap, Regions!Spec, Owned
<1> QED
  BY <1>1, <1>2, <1>3, <1>4, <1>5, PTL DEF Safety
=============================================================================
