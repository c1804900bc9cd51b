----------------------- MODULE Malloc3PromisesProofs -----------------------
(***************************************************************************)
(* What a call promises its caller, for every value of the constants: the  *)
(* rest of CallInv, and what follows from it of the blocks that are        *)
(* granted, of a refusal, of buddies left unmerged; then CountInv, and     *)
(* what the getters answer.                                                *)
(***************************************************************************)
EXTENDS Malloc3OwnersProofs

----------------------------------------------------------------------------
(* The result of a call *)

LEMMA InitResult ==
  ASSUME Init
  PROVE  ResultOK
<1>1. call.at = "idle" /\ call.n = 0 /\ call.ret = NULL /\ call.op = "none"
  BY DEF Init, NoCall
<1>2. NotInHole(0)
  BY OrdersType, PayloadType DEF NotInHole
<1> QED
  BY <1>1, <1>2, AddressKinds DEF ResultOK, At

(* The request is what it was; how far the handler is decides what is to   *)
(* be known of the result.                                                 *)
LEMMA NoResult ==
  ASSUME OwnInv', call'.ret \in {NULL, MAP_FAILED},
         call'.at \in {"split", "grow"} => call'.n <= Payload(MAX_ORDER),
         call'.ret = MAP_FAILED => call'.at \in {"idle", "memset", "memmove"}
                                   /\ call'.op # "sfree"
  PROVE  ResultOK'
<1>1. call'.ret \notin Headers
  BY AddressKinds
<1> QED
  BY <1>1 DEF ResultOK, OwnInv, At, NotInHole

LEMMA NewResult ==
  ASSUME OwnInv', call'.ret \in Used', call'.n <= size'[call'.ret],
         call'.ret \in Slots => size'[call'.ret] = Payload(Tight)',
         call'.at \in {"idle", "memset", "memmove"}, call'.op # "sfree"
  PROVE  ResultOK'
BY DEF ResultOK, OwnInv, At, NotInHole

(* srealloc may answer a block larger than the tightest order.             *)
LEMMA OldResult ==
  ASSUME OwnInv', call'.ret \in Used', call'.n <= size'[call'.ret],
         call'.at = "idle", call'.op = "srealloc"
  PROVE  ResultOK'
BY DEF ResultOK, OwnInv, At, NotInHole

(* What was found before is still what it was. *)
LEMMA SameResult ==
  ASSUME IInv, OwnInv, ResultOK, [Next]_vars, OwnInv',
         call'.ret = call.ret, call'.n = call.n, call'.op = call.op,
         call'.at \in {"smalloc", "split", "srealloc", "grow"} => call.ret = NULL,
         call'.at \in {"split", "grow"} => call.n <= Payload(MAX_ORDER)
  PROVE  ResultOK'
<1>1. Tight' = Tight
  BY DEF Tight
<1>2. CASE call.ret \in Headers
  <2>1. PICK p : p = call.ret
    OBVIOUS
  <2>2. /\ p \in Used /\ call.n <= size[p] /\ call.op # "sfree" /\ p # NULL
        /\ call.op \in {"smalloc", "scalloc"} /\ p \in Slots => size[p] = Payload(Tight)
    BY <1>2, <2>1, AddressKinds DEF ResultOK
  <2>3. Stays(p)
    <3>1. call.at \in {"sfree", "merge"} => p # call.blk
      BY <2>1, <2>2 DEF OwnInv, OwnersOK, Releases, MovedTo
    <3>2. call.at \notin {"split", "srealloc"}
      BY <2>1, <2>2 DEF ResultOK
    <3> QED
      BY <2>2, <3>1, <3>2, UsedStay
  <2>4. /\ p \in Used' /\ call'.n <= size'[p]
        /\ call'.op \in {"smalloc", "scalloc"} /\ p \in Slots => size'[p] = Payload(Tight)'
    BY <1>1, <2>2, <2>3 DEF Stays
  <2> QED
    BY <2>1, <2>2, <2>4 DEF ResultOK, OwnInv, At, NotInHole
<1>3. CASE call.ret \notin Headers
  BY <1>3 DEF ResultOK, OwnInv, At, NotInHole
<1> QED
  BY <1>2, <1>3

(* smalloc gives what it has found to whoever called it. *)
LEMMA SmallocReturnsResult ==
  ASSUME IInv, call.at \in {"smalloc", "split"}, OwnInv', NEW b, SmallocReturns(b),
         \/ b = MAP_FAILED
         \/ /\ b \in Used' /\ call.n <= size'[b]
            /\ b \in Slots => size'[b] = Payload(Tight)
  PROVE  ResultOK'
<1>1. call \in Calls /\ call.op \in {"smalloc", "scalloc", "srealloc"}
  BY StateFacts DEF CallOK, OpOK
<1>2. /\ call'.op = call.op /\ call'.n = call.n /\ call'.ret = b
      /\ call'.at \in {"idle", "memset", "memmove"} /\ Tight' = Tight
  BY <1>1, SmallocReturnsMoves DEF Tight
<1>3. CASE b = MAP_FAILED
  BY <1>1, <1>2, <1>3, NoResult
<1>4. CASE b # MAP_FAILED
  BY <1>1, <1>2, <1>4, NewResult
<1> QED
  BY <1>3, <1>4

LEMMA SmallocResult ==
  ASSUME IInv, OwnInv, ResultOK, OwnInv',
         SmallocMmap \/ SmallocMmapFails \/ SmallocTight \/ SplitReturn
  PROVE  ResultOK'
<1>1. /\ HeapType /\ call \in Calls /\ CallOK /\ call.n \in Nat
      /\ call.at \in {"smalloc", "split"}
  BY StateFacts, TightFacts
     DEF SmallocMmap, SmallocMmapFails, SmallocTight, SmallocSearch, SmallocReady,
         SplitReturn, At
<1>2. CASE SmallocMmapFails
  BY <1>1, <1>2, SmallocReturnsResult DEF SmallocMmapFails
<1>3. CASE SmallocMmap
  <2>1. PICK a \in MMAP_ADDRS :
          /\ live' = live \cup {a}
          /\ size' = [size EXCEPT ![a] = call.n]
          /\ is_free' = [is_free EXCEPT ![a] = FALSE]
          /\ SmallocReturns(a)
    BY <1>3 DEF SmallocMmap
  <2>2. a \in Headers /\ a \notin Slots
    BY <2>1, MappedAddresses DEF Headers
  <2>3. a \in Used' /\ size'[a] = call.n
    BY <1>1, <2>1, <2>2 DEF Used, HeapType
  <2> QED
    BY <1>1, <2>1, <2>2, <2>3, SmallocReturnsResult
<1>4. CASE SmallocTight
  <2>1. PICK b, k : /\ k \in Orders /\ b \in live /\ size[b] = Payload(k)
                    /\ Taking(b) /\ Used' = Used \cup {b}
                    /\ k = Tight /\ SmallocReturns(b)
    BY <1>4, SmallocTakes
  <2>2. call.n < MAX_ORDER_BLOCK_SIZE /\ Tight <= k
    BY <1>4, <2>1, OrdersType DEF SmallocTight, SmallocSearch
  <2>3. call.n <= Payload(k)
    BY <1>1, <2>1, <2>2, RequestFits DEF OwnInv
  <2>4. b \in Used' /\ size'[b] = Payload(Tight) /\ call.n <= size'[b]
    BY <2>1, <2>3 DEF Taking
  <2> QED
    BY <1>1, <2>1, <2>4, SmallocReturnsResult
<1>5. CASE SplitReturn
  <2>1. PICK b, h, t : b = call.blk /\ h = call.high /\ t = Tight
    OBVIOUS
  <2>2. /\ Quiet /\ size' = size /\ call.at = "split" /\ SmallocReturns(b)
        /\ ~(h >= t)
    BY <1>5, <2>1, UntouchedQuiet DEF SplitReturn, SplitsLeft, At
  <2>3. b \in Blocks /\ ~is_free[b] /\ h \in Int /\ t <= h + 1 /\ size[b] = Payload(h + 1)
    BY <1>1, <2>1, <2>2 DEF CallOK, SplitOK, At
  <2>4. t \in Orders /\ t \in Nat
    BY <1>1, <2>1, TightFacts, OrdersType
  <2>5. h + 1 = t
    BY <2>2, <2>3, <2>4
  <2>6. call.n <= Payload(t)
    BY <1>1, <2>1, <2>2, TightFacts DEF ResultOK, At
  <2>7. b \in Used'
    BY <2>2, <2>3, QuietUsed DEF Used, Blocks
  <2> QED
    BY <1>1, <2>1, <2>2, <2>3, <2>5, <2>6, <2>7, SmallocReturnsResult
<1> QED
  BY <1>2, <1>3, <1>4, <1>5

LEMMA SreallocResult ==
  ASSUME IInv, OwnInv, ResultOK, OwnInv', SreallocSame \/ SreallocReuse \/ GrowReturn
  PROVE  ResultOK'
<1>1. HeapType /\ HeapOK /\ ClientOK /\ CallOK /\ call \in Calls /\ call.n \in Nat
  BY StateFacts, TightFacts
<1>2. PICK b : b = IF GrowReturn THEN call.blk ELSE call.old
  OBVIOUS
<1>3. call.at = IF GrowReturn THEN "grow" ELSE "srealloc"
  BY DEF SreallocSame, SreallocReuse, GrowReturn, SreallocReady, At
<1>4. Answer(b, FALSE) /\ call.op = "srealloc" /\ size' = size
  <2>1. CASE GrowReturn
    BY <1>1, <1>2, <1>3, <2>1 DEF GrowReturn, CallOK, OpOK
  <2>2. CASE ~GrowReturn
    BY <1>1, <1>2, <1>3, <2>2
       DEF SreallocSame, SreallocReuse, CallOK, OpOK, heap, headers
  <2> QED
    BY <2>1, <2>2
<1>5. /\ call'.at = "idle" /\ call'.ret = b /\ call'.op = "srealloc" /\ call'.n = call.n
  BY <1>1, <1>4, AnswerMoves
<1>6. b \in held'
  BY <1>2, <1>3, <1>4 DEF SreallocSame, SreallocReuse, GrowReturn, Grant, At
<1>7. b \in Used'
  BY <1>5, <1>6 DEF OwnInv, OwnersOK
<1>8. call.n <= size[b]
  <2>1. CASE GrowReturn
    <3>1. PICK t \in Orders : t = Tight
      BY <1>1, TightFacts
    <3>2. /\ b \in Blocks /\ findTightOrder(size[b]) <= t /\ findTightOrder(size[b]) >= t
      BY <1>1, <1>2, <2>1, <3>1 DEF GrowReturn, CallOK, GrowOK, At
    <3>3. PICK j \in Orders : size[b] = Payload(j) /\ findTightOrder(size[b]) = j
      BY <1>1, <3>2, BlockFacts DEF HeapOK, Tiling
    <3>4. j = t
      <4>1. j \in Nat /\ t \in Nat
        BY OrdersType
      <4> QED
        BY <3>2, <3>3, <4>1
    <3>5. call.n <= Payload(MAX_ORDER)
      BY <1>3, <2>1 DEF ResultOK, At
    <3> QED
      BY <1>1, <3>1, <3>3, <3>4, <3>5, TightFacts
  <2>2. CASE SreallocSame \/ SreallocReuse
    <3>1. ~GrowReturn
      BY <2>2 DEF SreallocSame, SreallocReuse, GrowReturn, SreallocReady, At
    <3>2. b = call.old
      BY <1>2, <3>1
    <3>3. call.n = size[b] \/ call.n <= size[b]
      BY <2>2, <3>2 DEF SreallocSame, SreallocReuse
    <3> QED
      BY <1>1, <3>3
  <2> QED
    BY <2>1, <2>2
<1> QED
  BY <1>4, <1>5, <1>7, <1>8, OldResult

LEMMA ResultNext ==
  ASSUME IInv, OwnInv, ResultOK, [Next]_vars, OwnInv'
  PROVE  ResultOK'
<1>1. HeapType /\ HeapOK /\ ClientOK /\ CallOK /\ call \in Calls
  BY StateFacts
<1>2. CASE Call
  <2>1. PICK op \in {"smalloc", "scalloc", "srealloc", "sfree"} :
          \E p \in {NULL} \cup granted, n \in SIZES \cup {0}, num \in NUMS \cup {1} :
            CallWith(op, p, num, n)
    BY <1>2 DEF Call
  <2>2. call'.ret = NULL /\ call'.at \in {"smalloc", "srealloc", "sfree"}
    BY <2>1 DEF CallWith, NoCall
  <2> QED
    BY <2>2, AddressKinds, NoResult
<1>3. CASE SmallocMmap \/ SmallocMmapFails \/ SmallocTight \/ SplitReturn
  BY <1>3, SmallocResult
<1>4. CASE SreallocSame \/ SreallocReuse \/ GrowReturn
  BY <1>4, SreallocResult
<1>5. CASE Fail
  <2>1. call'.at = "idle" /\ call'.ret = NULL
    BY <1>1, <1>5, AnswerMoves DEF Fail
  <2> QED
    BY <2>1, AddressKinds, NoResult
<1>6. CASE ClientWrites \/ ForeignSbrk \/ FirstAllocator \/ Halted \/ UNCHANGED vars
  <2>1. call' = call
    BY <1>6 DEF ClientWrites, ForeignSbrk, FirstAllocator, Halted, vars
  <2> QED
    BY <2>1, SameResult DEF ResultOK, At
<1>7. CASE SmallocHigher
  <2>1. /\ call'.at = "split" /\ call'.ret = call.ret /\ call'.n = call.n
        /\ call'.op = call.op
    BY <1>1, <1>7 DEF SmallocHigher, Calls
  <2>2. call.at = "smalloc" /\ call.n < MAX_ORDER_BLOCK_SIZE
    BY <1>7 DEF SmallocHigher, SmallocSearch, SmallocReady, At
  <2>3. PICK t \in Orders : t = Tight
    BY <1>1, TightFacts
  <2>4. call.n <= Payload(MAX_ORDER)
    BY <1>1, <2>2, <2>3, RequestFits, OrdersType DEF OwnInv
  <2> QED
    BY <2>1, <2>2, <2>4, SameResult DEF ResultOK
<1>8. CASE SplitStep \/ MergeStep \/ GrowStep
  <2>1. /\ call.at \in {"split", "merge", "grow"} /\ call'.at = call.at
        /\ call'.ret = call.ret /\ call'.n = call.n /\ call'.op = call.op
    BY <1>1, <1>8 DEF SplitStep, MergeStep, GrowStep, mergeBlocks, Calls, At
  <2> QED
    BY <2>1, SameResult DEF ResultOK, At
<1>9. CASE SfreeTriesMerge \/ ScallocKilled \/ SreallocKilled \/ SfreeSegv
  <2>1. PICK place \in {"merge", "segv", "overrun"} : Goto(place)
    BY <1>9 DEF SfreeTriesMerge, ScallocKilled, SreallocKilled, WriteKills, SfreeSegv
  <2>2. /\ call'.at = place /\ call'.ret = call.ret /\ call'.n = call.n
        /\ call'.op = call.op
    BY <1>1, <2>1, GotoMoves DEF Places
  <2> QED
    BY <2>1, <2>2, SameResult
<1>10. CASE SreallocNull \/ SreallocMoves
  <2>1. Goto("smalloc") /\ call.at = "srealloc"
    BY <1>10 DEF SreallocNull, SreallocMoves, SreallocGrows, SreallocReady, At
  <2>2. /\ call'.at = "smalloc" /\ call'.ret = call.ret /\ call'.n = call.n
        /\ call'.op = call.op
    BY <1>1, <2>1, GotoMoves DEF Places
  <2> QED
    BY <2>1, <2>2, SameResult DEF ResultOK
<1>11. CASE SreallocMerges
  <2>1. Goto("grow") /\ call.at = "srealloc" /\ ~(call.n > Payload(MAX_ORDER))
    BY <1>11 DEF SreallocMerges, SreallocGrows, SreallocReady, At, Big
  <2>2. /\ call'.at = "grow" /\ call'.ret = call.ret /\ call'.n = call.n
        /\ call'.op = call.op
    BY <1>1, <2>1, GotoMoves DEF Places
  <2>3. call.n <= Payload(MAX_ORDER)
    BY <1>1, <2>1, TightFacts, OrdersType, PayloadType
  <2> QED
    BY <2>1, <2>2, <2>3, SameResult DEF ResultOK
<1>12. CASE SreallocMemmove
  <2>1. /\ call'.at = "sfree" /\ call'.ret = call.ret /\ call'.n = call.n
        /\ call'.op = call.op
    BY <1>1, <1>12 DEF SreallocMemmove, Calls
  <2> QED
    BY <2>1, SameResult
<1>13. CASE ScallocMemset \/ (SfreeReturns /\ call.op # "sfree")
  <2>1. PICK m : Answer(call.ret, m)
    BY <1>13 DEF ScallocMemset, SfreeReturns
  <2>2. /\ call'.at = "idle" /\ call'.ret = call.ret /\ call'.n = call.n
        /\ call'.op = call.op
    BY <1>1, <2>1, AnswerMoves
  <2> QED
    BY <2>2, SameResult
<1>14. CASE FirstAllocatorFails \/ SmallocReject \/ SmallocNone \/ SreallocReject
  BY <1>5, <1>14 DEF FirstAllocatorFails, SmallocReject, SmallocNone, SreallocReject
<1>15. CASE SfreeNull \/ SfreeReleased \/ SfreeMunmap \/ SfreeAlone \/ MergeStop \/ MergeTop
  <2>1. SfreeReturns
    BY <1>15 DEF SfreeNull, SfreeReleased, SfreeMunmap, SfreeAlone, MergeStop, Break, MergeTop
  <2> QED
    BY <1>5, <1>13, <2>1 DEF SfreeReturns
<1> QED
  BY <1>2, <1>3, <1>4, <1>6, <1>7, <1>8, <1>9, <1>10, <1>11, <1>12, <1>13, <1>14, <1>15
     DEF Next, Step

(* One turn of the induction, for whatever rests on OwnInv and ResultOK.   *)
LEMMA ResultInvariant ==
  ASSUME NoHoleRequests
  PROVE  Safety => [](IInv /\ OwnInv /\ ResultOK)
<1>1. Init => IInv /\ OwnInv /\ ResultOK
  BY InitKeeps, InitOwners, InitResult
<1>2. IInv /\ OwnInv /\ ResultOK /\ [Next]_vars => IInv' /\ OwnInv' /\ ResultOK'
  BY NextKeeps, OwnersNext, ResultNext, NoHoleRequests
<1> QED
  BY <1>1, <1>2, PTL DEF Safety

(* A block that a call answers has room for the bytes asked for.           *)
THEOREM GrantsFit ==
  ASSUME NoHoleRequests
  PROVE  Safety => []GrantFits
<1>1. ResultOK => GrantFits
  BY DEF ResultOK, GrantFits
<1> QED
  BY <1>1, ResultInvariant, NoHoleRequests, PTL

(* The arena block that smalloc or scalloc answers is of the tightest      *)
(* order that holds the request, whether it was listed or split off.       *)
THEOREM GrantsAreTight ==
  ASSUME NoHoleRequests
  PROVE  Safety => []TightFit
<1>1. IInv /\ ResultOK => TightFit
  <2> SUFFICES ASSUME IInv, ResultOK, call.op \in {"smalloc", "scalloc"}, call.ret \in Slots,
                      NEW k \in Orders, call.n <= Payload(k)
               PROVE  size[call.ret] <= Payload(k)
    BY DEF TightFit
  <2>1. size[call.ret] = Payload(Tight)
    BY DEF ResultOK, Headers
  <2>2. PICK t \in Orders : t = Tight
    BY StateFacts, TightFacts
  <2>3. call.n \in Nat /\ t \in Nat /\ k \in Nat /\ Payload(k) \in Nat /\ Payload(t) \in Nat
    BY StateFacts, TightFacts, OrdersType, PayloadType
  <2>4. ~(k < t)
    BY <2>2, <2>3, TightOrder DEF Tight
  <2>5. Payload(t) <= Payload(k)
    BY <2>3, <2>4, PayloadType
  <2> QED
    BY <2>1, <2>2, <2>5
<1> QED
  BY <1>1, ResultInvariant, NoHoleRequests, PTL

----------------------------------------------------------------------------
(* The lists that splitBlock meets, and those behind a refusal             *)

(* Only two steps end in the loop of splitBlock. *)
LEMMA SplitComesFrom ==
  ASSUME IInv, [Next]_vars, call'.at = "split"
  PROVE  SmallocHigher \/ SplitStep \/ (call' = call /\ freeBlockListArray' = freeBlockListArray)
<1>1. call \in Calls
  BY StateFacts
<1>2. \A r, m : ~Answer(r, m)
  BY <1>1, AnswerMoves
<1>3. \A place \in Places \ {"split"} : ~Goto(place)
  BY <1>1, GotoMoves
<1>4. ~Fail
  BY <1>2 DEF Fail
<1>5. ~SfreeReturns
  BY <1>2, <1>4 DEF SfreeReturns
<1>6. \A b : ~SmallocReturns(b)
  BY <1>1, SmallocReturnsMoves
<1>7. ~Call
  <2> SUFFICES ASSUME Call PROVE FALSE
    OBVIOUS
  <2>1. PICK op \in {"smalloc", "scalloc", "srealloc", "sfree"} :
          \E p \in {NULL} \cup granted, n \in SIZES \cup {0}, num \in NUMS \cup {1} :
            CallWith(op, p, num, n)
    BY DEF Call
  <2> QED
    BY <2>1 DEF CallWith, NoCall
<1>8. ClientWrites \/ ForeignSbrk \/ Halted \/ UNCHANGED vars
      => call' = call /\ freeBlockListArray' = freeBlockListArray
  BY DEF ClientWrites, ForeignSbrk, Halted, vars, heap
<1>9. ~(FirstAllocatorFails \/ SmallocReject \/ SmallocNone \/ SreallocReject)
  BY <1>4 DEF FirstAllocatorFails, SmallocReject, SmallocNone, SreallocReject
<1>10. ~(SmallocMmap \/ SmallocMmapFails \/ SmallocTight \/ SplitReturn)
  BY <1>6 DEF SmallocMmap, SmallocMmapFails, SmallocTight, SplitReturn
<1>11. ~(ScallocMemset \/ SreallocSame \/ SreallocReuse \/ GrowReturn)
  BY <1>2 DEF ScallocMemset, SreallocSame, SreallocReuse, GrowReturn
<1>12. ~(SfreeNull \/ SfreeReleased \/ SfreeMunmap \/ SfreeAlone \/ MergeStop \/ MergeTop)
  BY <1>5 DEF SfreeNull, SfreeReleased, SfreeMunmap, SfreeAlone, MergeStop, Break, MergeTop
<1>13. ~(SfreeSegv \/ SfreeTriesMerge \/ SreallocNull \/ SreallocMoves \/ SreallocMerges
         \/ ScallocKilled \/ SreallocKilled)
  BY <1>3 DEF SfreeSegv, SfreeTriesMerge, SreallocNull, SreallocMoves, SreallocMerges,
              ScallocKilled, SreallocKilled, WriteKills, Places
<1>14. ~(MergeStep \/ GrowStep \/ SreallocMemmove \/ FirstAllocator)
  BY <1>1 DEF MergeStep, GrowStep, mergeBlocks, SreallocMemmove, FirstAllocator, Calls, At
<1> QED
  BY <1>7, <1>8, <1>9, <1>10, <1>11, <1>12, <1>13, <1>14 DEF Next, Step

LEMMA HalvesNext ==
  ASSUME IInv, HalvesMeetEmptyLists, [Next]_vars
  PROVE  HalvesMeetEmptyLists'
<1> SUFFICES ASSUME call'.at = "split",
                    NEW j \in Tight' .. call'.high
             PROVE  freeBlockListArray'[j].blocks = {}
  BY DEF HalvesMeetEmptyLists, At
<1>1. HeapType /\ call \in Calls /\ CallOK
  BY StateFacts
<1>2. PICK t \in Orders : t = Tight /\ t \in Nat
  BY <1>1, TightFacts, OrdersType
<1>3. CASE SmallocHigher
  <2>1. PICK k \in Orders :
          /\ Tight < k /\ k = LowestStocked(Tight)
          /\ \A i \in Orders : Tight <= i /\ i < k => freeBlockListArray[i].blocks = {}
    BY <1>3, HigherFacts
  <2>2. PICK list :
          /\ freeBlockListArray' = [freeBlockListArray EXCEPT ![k] = list]
          /\ call' = [call EXCEPT !.at = "split", !.blk = FL!Head(freeBlockListArray[k]),
                                  !.high = k - 1, !.splits = k - Tight]
    BY <1>3, <2>1 DEF SmallocHigher, PopHead
  <2>3. call'.n = call.n /\ call'.high = k - 1
    BY <1>1, <2>2 DEF Calls
  <2>4. Tight' = t
    BY <1>2, <2>3 DEF Tight
  <2>5. j \in Orders /\ t <= j /\ j < k
    BY <1>2, <2>1, <2>3, <2>4, OrdersType DEF Orders
  <2> QED
    BY <1>1, <1>2, <2>1, <2>2, <2>5 DEF HeapType
<1>4. CASE SplitStep
  <2>1. PICK h, list :
          /\ h = call.high /\ call.at = "split"
          /\ freeBlockListArray' = [freeBlockListArray EXCEPT ![h] = list]
          /\ call' = [call EXCEPT !.high = h - 1]
    BY <1>1, <1>4 DEF SplitStep, NextLower, At, Calls
  <2>2. call'.n = call.n /\ call'.high = h - 1 /\ h \in Int /\ h < MAX_ORDER
    BY <1>1, <2>1, OrdersType DEF Calls, CallOK, SplitOK, At
  <2>3. Tight' = t
    BY <1>2, <2>2 DEF Tight
  <2>4. j \in t .. h /\ j # h /\ j \in Orders
    BY <1>2, <2>2, <2>3, OrdersType DEF Orders
  <2>5. freeBlockListArray[j].blocks = {}
    BY <1>2, <2>1, <2>4 DEF HalvesMeetEmptyLists, At
  <2> QED
    BY <1>1, <2>1, <2>4, <2>5 DEF HeapType
<1>5. CASE call' = call /\ freeBlockListArray' = freeBlockListArray
  BY <1>5 DEF HalvesMeetEmptyLists, At, Tight
<1> QED
  BY <1>3, <1>4, <1>5, SplitComesFrom

(* The new halves are the first members of their lists, so the link fields *)
(* that splitBlock leaves unset are never those of a linked block.         *)
THEOREM SplitMeetsEmptyLists == Safety => []HalvesMeetEmptyLists
<1>1. Init => HalvesMeetEmptyLists
  BY DEF Init, NoCall, HalvesMeetEmptyLists, At
<1>2. IInv /\ HalvesMeetEmptyLists /\ [Next]_vars => HalvesMeetEmptyLists'
  BY HalvesNext
<1> QED
  BY <1>1, <1>2, Invariance, PTL DEF Safety

(* The step that ends a call with NULL for one of the three functions that *)
(* allocate. *)
Refused == call.at = "idle" /\ call.op \in {"smalloc", "scalloc", "srealloc"} /\ call.ret = NULL

LEMMA RefusalComesFrom ==
  ASSUME IInv, OwnInv, [Next]_vars, Refused'
  PROVE  \/ FirstAllocatorFails \/ SmallocReject \/ SmallocNone \/ SreallocReject
         \/ Refused /\ call' = call
            /\ freeBlockListArray' = freeBlockListArray /\ arena' = arena
<1>1. HeapType /\ HeapOK /\ ClientOK /\ call \in Calls /\ CallOK /\ NULL \notin live
  BY StateFacts, AddressKinds DEF HeapType
<1>2. \A b, m : Answer(b, m) => b = NULL
  BY <1>1, AnswerMoves DEF Refused
<1>3. \A b : SmallocReturns(b) => b = NULL
  BY <1>1, SmallocReturnsMoves DEF Refused
<1>4. \A place \in Places \ {"idle"} : ~Goto(place)
  BY <1>1, GotoMoves DEF Refused
<1>5. ~(SmallocMmap \/ SmallocMmapFails \/ SmallocTight \/ SplitReturn)
  <2>1. ~SmallocReturns(MAP_FAILED) /\ \A a \in Headers : ~SmallocReturns(a)
    BY <1>3, AddressKinds
  <2>2. ~SmallocTight
    BY <2>1, SmallocTakes
  <2>3. ~SplitReturn
    BY <1>1, <2>1 DEF SplitReturn, CallOK, SplitOK, At, Blocks, Headers
  <2> QED
    BY <2>1, <2>2, <2>3 DEF SmallocMmap, SmallocMmapFails, Headers
<1>6. ~(ScallocMemset \/ SreallocSame \/ SreallocReuse \/ GrowReturn)
  <2>1. ~ScallocMemset
    BY <1>1, <1>2 DEF ScallocMemset, CallOK, RetOK, At
  <2>2. ~(SreallocSame \/ SreallocReuse)
    BY <1>2 DEF SreallocSame, SreallocReuse, SreallocReady
  <2>3. ~GrowReturn
    BY <1>1, <1>2 DEF GrowReturn, CallOK, GrowOK, At, Blocks
  <2> QED
    BY <2>1, <2>2, <2>3
<1>7. ASSUME call.at \in {"sfree", "merge"}, SfreeReturns
      PROVE  FALSE
  <2>1. CASE call.op = "sfree"
    BY <1>1, <1>7, <2>1, AnswerMoves DEF SfreeReturns, Fail, Refused
  <2>2. CASE call.op # "sfree"
    <3>1. Known(call.ret) /\ call.ret = NULL
      BY <1>1, <1>2, <1>7, <2>2 DEF SfreeReturns, CallOK, RetOK
    <3> QED
      BY <1>1, <3>1, KnownIsHeader, AddressKinds
  <2> QED
    BY <2>1, <2>2
<1>8. ~(SfreeNull \/ SfreeReleased \/ SfreeMunmap \/ SfreeAlone \/ MergeStop \/ MergeTop)
  BY <1>7 DEF SfreeNull, SfreeReleased, SfreeMunmap, SfreeAlone, SfreeArena, SfreeReadable,
              MergeStop, Break, MergeTop, At
<1>9. ~(SfreeSegv \/ SfreeTriesMerge \/ SreallocNull \/ SreallocMoves \/ SreallocMerges
        \/ ScallocKilled \/ SreallocKilled)
  BY <1>4 DEF SfreeSegv, SfreeTriesMerge, SreallocNull, SreallocMoves, SreallocMerges,
              ScallocKilled, SreallocKilled, WriteKills, Places
<1>10. ~(MergeStep \/ GrowStep \/ SreallocMemmove \/ FirstAllocator \/ SplitStep
         \/ SmallocHigher)
  BY <1>1 DEF MergeStep, GrowStep, mergeBlocks, SreallocMemmove, FirstAllocator, SplitStep,
              SmallocHigher, Refused, Calls, At
<1>11. ~Call
  <2> SUFFICES ASSUME Call PROVE FALSE
    OBVIOUS
  <2>1. PICK op \in {"smalloc", "scalloc", "srealloc", "sfree"} :
          \E p \in {NULL} \cup granted, n \in SIZES \cup {0}, num \in NUMS \cup {1} :
            CallWith(op, p, num, n)
    BY DEF Call
  <2> QED
    BY <2>1 DEF CallWith, NoCall, Refused
<1>12. ClientWrites \/ ForeignSbrk \/ Halted \/ UNCHANGED vars
       => /\ Refused /\ call' = call
          /\ freeBlockListArray' = freeBlockListArray /\ arena' = arena
  BY DEF ClientWrites, ForeignSbrk, Halted, vars, heap, os, Refused
<1> QED
  BY <1>5, <1>6, <1>8, <1>9, <1>10, <1>11, <1>12 DEF Next, Step

LEMMA RefusedNext ==
  ASSUME IInv, OwnInv, RefusedOK, [Next]_vars
  PROVE  RefusedOK'
<1> SUFFICES ASSUME Refused', arena' # NULL, Valid(call.n)', call'.n <= Payload(MAX_ORDER)
             PROVE  Stocked(Tight)' = {}
  BY DEF RefusedOK, Refused, Idle, At
<1>1. call \in Calls /\ ArenaOK
  BY StateFacts
<1>2. CASE FirstAllocatorFails
  BY <1>1, <1>2 DEF FirstAllocatorFails, ArenaOK
<1>3. CASE SmallocReject \/ SreallocReject
  <2>1. call'.n = call.n /\ ~Valid(call.n)
    BY <1>1, <1>3, AnswerMoves DEF SmallocReject, SreallocReject, Fail
  <2> QED
    BY <2>1 DEF Valid
<1>4. CASE SmallocNone
  <2>1. call'.n = call.n /\ freeBlockListArray' = freeBlockListArray /\ Stocked(Tight) = {}
    BY <1>1, <1>4, AnswerMoves DEF SmallocNone, Fail, heap
  <2> QED
    BY <2>1 DEF Stocked, Tight
<1>5. CASE Refused /\ call' = call
           /\ freeBlockListArray' = freeBlockListArray /\ arena' = arena
  BY <1>5 DEF RefusedOK, Refused, Idle, At, Valid, Stocked, Tight
<1> QED
  BY <1>2, <1>3, <1>4, <1>5, RefusalComesFrom

----------------------------------------------------------------------------
(* Free buddies are merged *)

(* The buddy of a block's buddy is the block. *)
LEMMA BuddyOfBuddy ==
  ASSUME HeapType, HeapOK, NEW x \in Blocks, NEW k \in Orders, k < MAX_ORDER,
         size[x] = Payload(k), NEW y, y = findBuddyAddress(x), size[y] = size[x]
  PROVE  y \in Blocks /\ x = findBuddyAddress(y) /\ x # y
<1>1. PICK s : s = getOrderSize(k)
  OBVIOUS
<1>2. /\ x \in Nat /\ x % s = 0 /\ s \in Nat \ {0} /\ Payload(k) + META = s
      /\ y \in Blocks
  <2>1. PICK j \in Orders : /\ x \in Nat /\ size[x] = Payload(j) /\ x % getOrderSize(j) = 0
    BY BlockFacts DEF HeapOK, Tiling
  <2>2. j = k
    BY <2>1, PayloadType
  <2>3. s \in Nat \ {0} /\ Payload(k) + META = s
    BY <1>1, OrderSizeType, OrdersType DEF Payload
  <2> QED
    BY <1>1, <2>1, <2>2, <2>3, BuddyFacts
<1>3. y = findBuddyAddressBySize(x, s) /\ findBuddyAddress(y) = findBuddyAddressBySize(y, s)
  BY <1>2 DEF findBuddyAddress
<1> QED
  BY <1>2, <1>3, ToggleBack

(* A free block whose buddy is free too, of its size, and no merge on the  *)
(* way.                                                                    *)
Unmerged(b) ==
  /\ b \in Blocks \ AtMerge /\ is_free[b] /\ size[b] < Payload(MAX_ORDER)
  /\ findBuddyAddress(b) \notin AtMerge
  /\ is_free[findBuddyAddress(b)] /\ size[findBuddyAddress(b)] = size[b]

LEMMA BuddyOfUnmerged ==
  ASSUME HeapType, HeapOK, NEW x \in Blocks, NEW y, y = findBuddyAddress(x),
         size[x] < Payload(MAX_ORDER), size[y] = size[x]
  PROVE  y \in Blocks /\ x = findBuddyAddress(y) /\ x # y
<1>1. PICK k \in Orders : size[x] = Payload(k)
  BY DEF HeapOK, Tiling, Shaped
<1>2. k < MAX_ORDER
  BY <1>1, OrdersType, PayloadType
<1> QED
  BY <1>1, <1>2, BuddyOfBuddy

(* A pair that was not there before: one of the two has changed.           *)
LEMMA PairWasThere ==
  ASSUME MergedOK, NEW x, Unmerged(x)',
         NEW y, y = findBuddyAddress(x)', x \in Blocks,
         size'[x] = size[x], size'[y] = size[y],
         is_free[x], is_free[y], x \notin AtMerge
  PROVE  y \in AtMerge
<1>1. /\ size'[x] < Payload(MAX_ORDER) /\ size'[y] = size'[x]
  BY DEF Unmerged
<1>2. y = findBuddyAddress(x)
  BY DEF findBuddyAddress
<1> QED
  BY <1>1, <1>2 DEF MergedOK

(* The step sets one block free, and the test of sfree has found its buddy *)
(* in use, or of another size.                                             *)
LEMMA FreedHasNoFreeBuddy ==
  ASSUME IInv, MergedOK, NEW b \in Blocks, Freeing(b), AtMerge' = {},
         AtMerge \subseteq {b},
         size[b] < Payload(MAX_ORDER)
           => ~(is_free[findBuddyAddress(b)] /\ size[findBuddyAddress(b)] = size[b])
  PROVE  MergedOK'
<1> SUFFICES ASSUME NEW x, Unmerged(x)'
             PROVE  FALSE
  BY DEF MergedOK, Unmerged
<1>1. HeapType /\ HeapOK /\ b \in live /\ b \in Headers
  BY StateFacts DEF Blocks
<1>2. /\ size' = size /\ Blocks' = Blocks
      /\ \A z \in Headers \ {b} : is_free'[z] = is_free[z]
  BY <1>1, FreeingUsed DEF Freeing, HeapType
<1>3. PICK y : y = findBuddyAddress(x)'
  OBVIOUS
<1>4. y = findBuddyAddress(x)
  BY <1>2, <1>3 DEF findBuddyAddress
<1>5. /\ x \in Blocks /\ size[x] < Payload(MAX_ORDER) /\ size[y] = size[x]
      /\ is_free'[x] /\ is_free'[y]
  BY <1>2, <1>3 DEF Unmerged
<1>6. y \in Blocks /\ x = findBuddyAddress(y) /\ x # y
  BY <1>1, <1>4, <1>5, BuddyOfUnmerged
<1>7. x \in Headers /\ y \in Headers
  BY <1>5, <1>6 DEF Blocks, Headers
<1>8. x # b
  <2>1. ASSUME x = b PROVE is_free[y] /\ y = findBuddyAddress(b)
    BY <1>2, <1>4, <1>5, <1>6, <1>7, <2>1
  <2> QED
    BY <1>5, <2>1
<1>9. y # b
  <2>1. ASSUME y = b PROVE is_free[x] /\ x = findBuddyAddress(b)
    BY <1>2, <1>4, <1>5, <1>6, <1>7, <2>1
  <2> QED
    BY <1>5, <2>1
<1>10. is_free[x] /\ is_free[y] /\ x \notin AtMerge /\ y \notin AtMerge
  BY <1>2, <1>5, <1>7, <1>8, <1>9
<1> QED
  BY <1>2, <1>3, <1>5, <1>10, PairWasThere

(* No block is set free, and none with a free buddy comes out of the       *)
(* merges.                                                                 *)
LEMMA NoneFreed ==
  ASSUME IInv, MergedOK, Blocks' = Blocks,
         \A z \in Blocks : size'[z] = size[z] /\ (is_free'[z] => is_free[z]),
         \A z \in AtMerge : \/ z \in AtMerge' \/ ~is_free'[z]
                            \/ ~(size[z] < Payload(MAX_ORDER))
  PROVE  MergedOK'
<1> SUFFICES ASSUME NEW x, Unmerged(x)'
             PROVE  FALSE
  BY DEF MergedOK, Unmerged
<1>1. HeapType /\ HeapOK
  BY StateFacts
<1>2. PICK y : y = findBuddyAddress(x)'
  OBVIOUS
<1>3. x \in Blocks /\ y = findBuddyAddress(x)
  BY <1>2 DEF Unmerged, findBuddyAddress
<1>4. y \in Blocks
  <2>1. PICK k \in Orders : size[x] = Payload(k)
    BY <1>1, <1>3 DEF HeapOK, Tiling, Shaped
  <2>2. k < MAX_ORDER
    BY <1>3, <2>1, OrdersType, PayloadType DEF Unmerged
  <2> QED
    BY <1>1, <1>3, <2>1, <2>2, BuddyFacts
<1>5. /\ size'[x] = size[x] /\ size'[y] = size[y] /\ is_free[x] /\ is_free[y]
      /\ size[y] = size[x] /\ size[x] < Payload(MAX_ORDER)
      /\ is_free'[x] /\ is_free'[y] /\ x \notin AtMerge' /\ y \notin AtMerge'
  BY <1>2, <1>3, <1>4 DEF Unmerged
<1>6. x \notin AtMerge /\ y \notin AtMerge
  BY <1>5
<1> QED
  BY <1>2, <1>3, <1>5, <1>6, PairWasThere

(* mergeBlocks: the two halves of a region have no other buddies, so the   *)
(* pair it swallows leaves no partner behind.                              *)
LEMMA MergingMerged ==
  ASSUME IInv, MergedOK, MergeStep \/ GrowStep
  PROVE  MergedOK'
<1> SUFFICES ASSUME NEW x, Unmerged(x)'
             PROVE  FALSE
  BY DEF MergedOK, Unmerged
<1>1. HeapType /\ HeapOK /\ call \in Calls /\ Blocks \subseteq Headers
  BY StateFacts
<1>2. PICK b, buddy, left : Merging(b, buddy, left)
  BY MergeBlocks
<1>3. AtMerge = {b} /\ AtMerge' = {left}
  <2>1. b \in Headers /\ left \in Headers /\ b = call.blk
    BY <1>1, <1>2 DEF Merging
  <2>2. call.at \in {"merge", "grow"} /\ call'.at = call.at /\ call'.blk = left
    BY <1>1, <1>2 DEF Merging, Calls, MergeStep, GrowStep, At
  <2> QED
    BY <2>1, <2>2 DEF AtMerge, At
<1>4. PICK y : y = findBuddyAddress(x)'
  OBVIOUS
<1>5. /\ x \in Blocks' /\ x # left /\ y # left /\ is_free'[x] /\ is_free'[y]
      /\ size'[x] < Payload(MAX_ORDER) /\ size'[y] = size'[x]
  BY <1>3, <1>4 DEF Unmerged
<1>6. /\ x \in Blocks /\ x \in live' /\ x \notin {b, buddy}
      /\ size'[x] = size[x] /\ is_free[x] /\ y = findBuddyAddress(x)
  <2>1. x \in live' /\ x \in Blocks /\ x \notin {b, buddy}
    BY <1>2, <1>5 DEF Merging, Blocks
  <2>2. size'[x] = size[x] /\ is_free[x]
    BY <1>2, <1>5, <2>1 DEF Merging
  <2> QED
    BY <1>4, <2>1, <2>2 DEF findBuddyAddress
<1>7. y \in Blocks
  <2>1. PICK k \in Orders : size[x] = Payload(k)
    BY <1>1, <1>6 DEF HeapOK, Tiling, Shaped
  <2>2. k < MAX_ORDER
    BY <1>5, <1>6, <2>1, OrdersType, PayloadType
  <2> QED
    BY <1>1, <1>6, <2>1, <2>2, BuddyFacts
<1>8. size'[y] = size[y] /\ size[y] = size[x]
  BY <1>1, <1>2, <1>5, <1>6, <1>7 DEF Merging
<1>9. x = findBuddyAddress(y)
  BY <1>1, <1>5, <1>6, <1>8, BuddyOfUnmerged
<1>10. buddy = findBuddyAddress(b) /\ b = findBuddyAddress(buddy)
  <2>1. /\ b \in Blocks /\ buddy = findBuddyAddress(b) /\ size[buddy] = size[b]
        /\ size[b] < Payload(MAX_ORDER)
    <3>1. PICK k \in Orders : /\ size[b] = Payload(k) /\ k < MAX_ORDER
                              /\ size[buddy] = size[b] /\ buddy = findBuddyAddress(b)
      BY <1>2 DEF Merging
    <3> QED
      BY <1>2, <3>1, OrdersType, PayloadType DEF Merging
  <2> QED
    BY <1>1, <2>1, BuddyOfUnmerged
<1>11. y \notin {b, buddy}
  BY <1>6, <1>9, <1>10
<1>12. y \in live' /\ is_free[y]
  BY <1>2, <1>5, <1>7, <1>11 DEF Merging, Blocks
<1>13. y \in AtMerge
  <2>1. x \notin AtMerge
    BY <1>3, <1>6
  <2> QED
    BY <1>4, <1>6, <1>8, <1>12, <2>1, PairWasThere
<1> QED
  BY <1>3, <1>11, <1>13

(* splitBlock: the buddy of the half it lists is the half it goes on with. *)
LEMMA SplitMerged ==
  ASSUME IInv, MergedOK, SplitStep
  PROVE  MergedOK'
<1> SUFFICES ASSUME NEW x, Unmerged(x)'
             PROVE  FALSE
  BY DEF MergedOK, Unmerged
<1>1. HeapType /\ HeapOK /\ call \in Calls /\ Blocks \subseteq Headers /\ Blocks \subseteq live
  BY StateFacts
<1>2. PICK b, h, right :
        /\ right = b + getOrderSize(h)
        /\ h \in Orders /\ h + 1 \in Orders
        /\ b \in Blocks /\ b \in Nat /\ ~is_free[b] /\ size[b] = Payload(h + 1)
        /\ right \in Slots /\ right \notin live /\ right # b
        /\ live' = live \cup {right}
        /\ size' = [size EXCEPT ![b] = Payload(h), ![right] = Payload(h)]
        /\ is_free' = [is_free EXCEPT ![b] = FALSE, ![right] = TRUE]
        /\ call.at = "split"
  BY SplitStepBlocks
<1>3. AtMerge = {}
  BY <1>2 DEF AtMerge, At
<1>4. PICK y : y = findBuddyAddress(x)'
  OBVIOUS
<1>5. /\ x \in Blocks' /\ is_free'[x] /\ is_free'[y]
      /\ size'[x] < Payload(MAX_ORDER) /\ size'[y] = size'[x]
  BY <1>4 DEF Unmerged
<1>6. ~is_free'[b] /\ size'[right] = Payload(h) /\ x # b /\ y # b
  <2>1. b \in Headers /\ right \in Headers
    BY <1>1, <1>2 DEF Headers
  <2> QED
    BY <1>1, <1>2, <1>5, <2>1 DEF HeapType
<1>7. CASE x = right
  <2>1. PICK s : s = getOrderSize(h)
    OBVIOUS
  <2>2. /\ s \in Nat \ {0} /\ Payload(h) + META = s
        /\ getOrderSize(h + 1) = 2 * s
    <3>1. h < MAX_ORDER
      BY <1>2, OrdersType DEF Orders
    <3>2. s \in Nat \ {0} /\ getOrderSize(h + 1) = 2 * s
      BY <1>2, <2>1, <3>1, OrderSizeType
    <3> QED
      BY <2>1, <3>2, OrdersType DEF Payload
  <2>3. b % (2 * s) = 0
    <3>1. PICK j \in Orders : size[b] = Payload(j) /\ b % getOrderSize(j) = 0
      BY <1>1, <1>2 DEF HeapOK, Tiling, Shaped
    <3>2. j = h + 1
      BY <1>2, <3>1, PayloadType
    <3> QED
      BY <2>2, <3>1, <3>2
  <2>4. y = b
    <3>1. y = findBuddyAddressBySize(right, s)
      BY <1>4, <1>6, <1>7, <2>2 DEF findBuddyAddress
    <3> QED
      BY <1>2, <2>1, <2>2, <2>3, <3>1, RightHalf
  <2> QED
    BY <1>6, <2>4
<1>8. CASE x # right
  <2>1. x \in Blocks /\ x \in Headers
    BY <1>1, <1>2, <1>5, <1>8 DEF Blocks
  <2>2. size'[x] = size[x] /\ is_free[x] /\ y = findBuddyAddress(x)
    <3>1. size'[x] = size[x] /\ is_free[x]
      BY <1>1, <1>2, <1>5, <1>6, <1>8, <2>1 DEF HeapType
    <3> QED
      BY <1>4, <3>1 DEF findBuddyAddress
  <2>3. y \in Blocks
    <3>1. PICK k \in Orders : size[x] = Payload(k)
      BY <1>1, <2>1 DEF HeapOK, Tiling, Shaped
    <3>2. k < MAX_ORDER
      BY <1>5, <2>2, <3>1, OrdersType, PayloadType
    <3> QED
      BY <1>1, <2>1, <2>2, <3>1, <3>2, BuddyFacts
  <2>4. y # right /\ y \in Headers
    BY <1>1, <1>2, <2>3
  <2>5. size'[y] = size[y] /\ is_free[y]
    BY <1>1, <1>2, <1>5, <1>6, <2>4 DEF HeapType
  <2>6. y \in AtMerge
    BY <1>3, <1>4, <2>1, <2>2, <2>5, PairWasThere
  <2> QED
    BY <1>3, <2>6
<1> QED
  BY <1>7, <1>8

(* The steps that leave the merges, or never were in them. *)
LEMMA OutsideMerges ==
  ASSUME IInv, call.at \notin {"merge", "grow"}
  PROVE  AtMerge = {}
BY DEF AtMerge, At

LEMMA QuietMerged ==
  ASSUME IInv, MergedOK, Quiet,
         \A z \in AtMerge : z \in AtMerge' \/ ~(size[z] < Payload(MAX_ORDER))
  PROVE  MergedOK'
<1>1. Blocks' = Blocks /\ Blocks \subseteq live
  BY QuietUsed DEF Blocks
<1>2. \A z \in Blocks : size'[z] = size[z] /\ (is_free'[z] => is_free[z])
  BY <1>1 DEF Quiet
<1> QED
  BY <1>1, <1>2, NoneFreed

LEMMA TakingMerged ==
  ASSUME IInv, MergedOK, NEW b \in Blocks, Taking(b), AtMerge \subseteq {b}
  PROVE  MergedOK'
<1>1. HeapType /\ b \in live /\ Blocks \subseteq Headers /\ b \in Headers
  BY StateFacts
<1>2. Blocks' = Blocks
  BY <1>1, TakingUsed
<1>3. /\ ~is_free'[b]
      /\ \A z \in Blocks : size'[z] = size[z] /\ (is_free'[z] => is_free[z])
  BY <1>1 DEF Taking, HeapType
<1> QED
  BY <1>2, <1>3, NoneFreed

LEMMA MergedNext ==
  ASSUME IInv, OwnInv, MergedOK, [Next]_vars
  PROVE  MergedOK'
<1>1. /\ HeapType /\ HeapOK /\ ClientOK /\ CallOK /\ call \in Calls
      /\ Shaped /\ Blocks \subseteq Headers /\ Blocks \subseteq live
  BY StateFacts
<1>2. CASE Halted \/ UNCHANGED vars
  BY <1>2, UntouchedQuiet, QuietMerged DEF Halted, vars, AtMerge, At
<1>3. CASE Call \/ ForeignSbrk \/ ClientWrites \/ FirstAllocatorFails \/ SmallocReject
           \/ SmallocNone \/ SmallocMmapFails \/ SplitReturn \/ ScallocKilled \/ SfreeNull
           \/ SfreeSegv \/ SfreeReleased \/ SfreeTriesMerge \/ SreallocReject
           \/ SreallocNull \/ SreallocSame \/ SreallocMoves \/ SreallocKilled
           \/ ScallocMemset \/ SreallocMemmove
  <2>1. Quiet
    BY <1>1, <1>3, UntouchedQuiet, ClientWritesQuiet, ScallocMemsetQuiet, SreallocMemmoveQuiet
  <2>2. call.at \notin {"merge", "grow"}
    <3>1. CASE Call \/ ForeignSbrk \/ ClientWrites \/ FirstAllocatorFails \/ SmallocReject
               \/ SmallocNone \/ SmallocMmapFails \/ SplitReturn
      BY <3>1 DEF Call, CallWith, ForeignSbrk, ClientWrites, FirstAllocatorFails,
                  SmallocReject, SmallocNone, SmallocSearch, SmallocReady,
                  SmallocMmapFails, SplitReturn, At
    <3>2. CASE ScallocKilled \/ SfreeNull \/ SfreeSegv \/ SfreeReleased \/ SfreeTriesMerge
      BY <3>2 DEF ScallocKilled, SfreeNull, SfreeSegv, SfreeReleased, SfreeTriesMerge,
                  SfreeArena, SfreeReadable, At
    <3>3. CASE SreallocReject \/ SreallocNull \/ SreallocSame \/ SreallocMoves
               \/ SreallocKilled \/ ScallocMemset \/ SreallocMemmove
      BY <3>3 DEF SreallocReject, SreallocNull, SreallocSame, SreallocMoves,
                  SreallocGrows, SreallocReady, SreallocKilled, ScallocMemset,
                  SreallocMemmove, At
    <3> QED
      BY <1>3, <3>1, <3>2, <3>3
  <2> QED
    BY <2>1, <2>2, OutsideMerges, QuietMerged
<1>4. CASE MergeTop
  <2>1. Quiet
    BY <1>4, UntouchedQuiet
  <2>2. call.blk \in Blocks /\ findTightOrder(size[call.blk]) = MAX_ORDER
    BY <1>1, <1>4 DEF MergeTop, CallOK, MergeOK
  <2>3. PICK k \in Orders : size[call.blk] = Payload(k) /\ findTightOrder(size[call.blk]) = k
    BY <1>1, <2>2, BlockFacts DEF HeapOK
  <2>4. ~(size[call.blk] < Payload(MAX_ORDER))
    BY <2>2, <2>3, PayloadType
  <2> QED
    BY <2>1, <2>4, QuietMerged DEF AtMerge
<1>5. CASE FirstAllocator
  <2>1. \A x \in Blocks' : size'[x] = Payload(MAX_ORDER)
    BY <1>5, FirstAllocatorBlocks DEF Blocks
  <2>2. \A x \in Blocks' : ~(size'[x] < Payload(MAX_ORDER))
    BY <2>1, OrdersType, PayloadType
  <2> QED
    BY <2>2 DEF MergedOK
<1>6. CASE SmallocMmap
  <2>1. PICK a \in MMAP_ADDRS : /\ live' = live \cup {a}
                                /\ size' = [size EXCEPT ![a] = call.n]
                                /\ is_free' = [is_free EXCEPT ![a] = FALSE]
    BY <1>6 DEF SmallocMmap
  <2>2. Blocks' = Blocks /\ a \notin Blocks
    BY <2>1, MappedAddresses DEF Blocks
  <2>3. \A z \in Blocks : size'[z] = size[z] /\ (is_free'[z] => is_free[z])
    BY <1>1, <2>1, <2>2 DEF HeapType
  <2>4. AtMerge = {}
    BY <1>6, OutsideMerges DEF SmallocMmap, SmallocReady, At
  <2> QED
    BY <2>2, <2>3, <2>4, NoneFreed
<1>7. CASE SfreeMunmap
  <2>1. PICK b : b = call.blk
    OBVIOUS
  <2>2. /\ call.at = "sfree" /\ live' = live \ {b} /\ ~(size[b] < MAX_ORDER_BLOCK_SIZE)
        /\ size' = [size EXCEPT ![b] = 0] /\ is_free' = is_free
    <3>1. size[b] \in Nat /\ MAX_ORDER_BLOCK_SIZE \in Nat
      <4>1. b \in Headers
        BY <1>1, <1>7, <2>1, KnownIsHeader
           DEF SfreeMunmap, SfreeReadable, CallOK, SfreeOK
      <4> QED
        BY <1>1, <4>1, DivisorType DEF HeapType
    <3> QED
      BY <1>7, <2>1, <3>1 DEF SfreeMunmap, SfreeReadable, At
  <2>3. b \notin Blocks
    BY <1>1, <2>2, BlockIsSmall
  <2>4. Blocks' = Blocks /\ \A z \in Blocks : size'[z] = size[z] /\ is_free'[z] = is_free[z]
    BY <1>1, <2>2, <2>3 DEF Blocks, HeapType
  <2>5. AtMerge = {}
    BY <2>2, OutsideMerges
  <2> QED
    BY <2>4, <2>5, NoneFreed
<1>8. CASE SmallocTight \/ SmallocHigher
  <2>1. PICK b : b \in Blocks /\ Taking(b)
    BY <1>8, SmallocTakes
  <2>2. AtMerge = {}
    BY <1>8, OutsideMerges DEF SmallocTight, SmallocHigher, SmallocSearch, SmallocReady, At
  <2> QED
    BY <2>1, <2>2, TakingMerged
<1>9. CASE SplitStep
  BY <1>9, SplitMerged
<1>10. CASE MergeStep \/ GrowStep
  BY <1>10, MergingMerged
<1>11. CASE SfreeAlone \/ MergeStop
  <2>1. PICK b : b = call.blk
    OBVIOUS
  <2>2. /\ call.at \in {"sfree", "merge"} /\ Freeing(b) /\ SfreeReturns
    BY <1>11, <2>1
       DEF SfreeAlone, SfreeArena, SfreeReadable, MergeStop, MarkFree, Break, Freeing, At
  <2>3. b \in Blocks
    <3>1. CASE SfreeAlone
      BY <1>1, <2>1, <3>1, SmallIsArena, KnownIsHeader, UsedIsLive
         DEF SfreeAlone, SfreeArena, SfreeReadable, CallOK, SfreeOK
    <3>2. CASE MergeStop
      BY <1>1, <2>1, <3>2 DEF MergeStop, CallOK, MergeOK
    <3> QED
      BY <1>11, <3>1, <3>2
  <2>4. PICK k \in Orders : size[b] = Payload(k) /\ findTightOrder(size[b]) = k
    BY <1>1, <2>3, BlockFacts DEF HeapOK
  <2>5. size[b] < Payload(MAX_ORDER)
          => ~(is_free[findBuddyAddress(b)] /\ size[findBuddyAddress(b)] = size[b])
    <3>1. size[b] < Payload(MAX_ORDER) => k # MAX_ORDER
      BY <2>4, OrdersType, PayloadType
    <3> QED
      BY <1>11, <2>1, <2>4, <3>1 DEF SfreeAlone, MergeStop, CanMerge
  <2>6. call'.at = "idle"
    BY <1>1, <2>2, AnswerMoves DEF SfreeReturns, Fail
  <2>7. AtMerge' = {} /\ AtMerge \subseteq {b}
    BY <2>1, <2>6 DEF AtMerge, At
  <2> QED
    BY <2>2, <2>3, <2>5, <2>7, FreedHasNoFreeBuddy
<1>12. CASE SreallocReuse
  <2>1. call.old \in Blocks /\ Taking(call.old)
    BY <1>1, <1>12, OldIsLive
       DEF SreallocReuse, TakeBack, Taking, SreallocReady
  <2>2. AtMerge = {}
    BY <1>12, OutsideMerges DEF SreallocReuse, SreallocReady, At
  <2> QED
    BY <2>1, <2>2, TakingMerged
<1>13. CASE GrowReturn
  <2>1. call.blk \in Blocks /\ Taking(call.blk)
    BY <1>1, <1>13 DEF GrowReturn, TakeBack, Taking, CallOK, GrowOK
  <2> QED
    BY <2>1, TakingMerged DEF AtMerge
<1>14. CASE SreallocMerges
  <2>1. PICK b : b = call.old
    OBVIOUS
  <2>2. b \in Headers /\ call.blk = b /\ call.at = "srealloc"
    BY <1>1, <1>14, <2>1, OldIsLive
       DEF SreallocMerges, SreallocGrows, SreallocReady, CallOK, OldOK, HeapType, At
  <2>3. AtMerge = {} /\ AtMerge' = {b}
    <3>1. call'.at = "grow" /\ call'.blk = call.blk
      BY <1>1, <1>14 DEF SreallocMerges, Goto, Calls
    <3> QED
      BY <2>2, <3>1, OutsideMerges DEF AtMerge, At
  <2>4. /\ size' = size /\ Blocks' = Blocks
        /\ \A z \in Headers \ {b} : is_free'[z] = is_free[z]
    BY <1>1, <1>14, <2>1 DEF SreallocMerges, MarkFree, Blocks, HeapType
  <2> SUFFICES ASSUME NEW x, Unmerged(x)'
               PROVE  FALSE
    BY DEF MergedOK, Unmerged
  <2>5. PICK y : y = findBuddyAddress(x)'
    OBVIOUS
  <2>6. /\ x \in Blocks /\ x # b /\ y # b /\ y = findBuddyAddress(x) /\ x \in Headers
        /\ size'[x] = size[x] /\ size'[y] = size[y] /\ is_free'[x] /\ is_free'[y]
        /\ size[x] < Payload(MAX_ORDER)
    BY <1>1, <2>3, <2>4, <2>5 DEF Unmerged, findBuddyAddress
  <2>7. y \in Headers
    <3>1. PICK k \in Orders : size[x] = Payload(k)
      BY <1>1, <2>6 DEF Shaped
    <3>2. k < MAX_ORDER
      BY <2>6, <3>1, OrdersType, PayloadType
    <3> QED
      BY <1>1, <2>6, <3>1, <3>2, BuddyFacts
  <2>8. is_free[x] /\ is_free[y]
    BY <2>4, <2>6, <2>7
  <2>9. y \in AtMerge
    BY <2>3, <2>5, <2>6, <2>8, PairWasThere
  <2> QED
    BY <2>3, <2>9
<1> QED
  BY <1>2, <1>3, <1>4, <1>5, <1>6, <1>7, <1>8, <1>9, <1>10, <1>11, <1>12, <1>13, <1>14
     DEF Next, Step

(* The whole of what the runs check as the invariant behind the promises.  *)
THEOREM CallsKeepPromises ==
  ASSUME NoHoleRequests
  PROVE  Safety => []CallInv
<1>1. Init => /\ IInv /\ OwnInv /\ ResultOK
              /\ HalvesMeetEmptyLists /\ RefusedOK /\ MergedOK
  <2> SUFFICES ASSUME Init PROVE HalvesMeetEmptyLists /\ RefusedOK /\ MergedOK
    BY InitKeeps, InitOwners, InitResult
  <2> QED
    BY DEF Init, NoCall, HalvesMeetEmptyLists, RefusedOK, MergedOK, Blocks, At, Idle
<1>2. /\ IInv /\ OwnInv /\ ResultOK /\ HalvesMeetEmptyLists /\ RefusedOK /\ MergedOK
      /\ [Next]_vars
      => /\ IInv' /\ OwnInv' /\ ResultOK'
         /\ HalvesMeetEmptyLists' /\ RefusedOK' /\ MergedOK'
  BY NextKeeps, OwnersNext, ResultNext, HalvesNext, RefusedNext, MergedNext, NoHoleRequests
<1>3. OwnInv /\ ResultOK /\ HalvesMeetEmptyLists /\ RefusedOK /\ MergedOK => CallInv
  BY DEF OwnInv, CallInv
<1> QED
  BY <1>1, <1>2, <1>3, PTL DEF Safety

(* Between calls a free block and its buddy, free and of its size, are one *)
(* block.                                                                  *)
THEOREM FreeBuddiesMerged ==
  ASSUME NoHoleRequests
  PROVE  Safety => []NoFreeBuddies
<1>1. CallInv => NoFreeBuddies
  BY DEF CallInv, MergedOK, AtMerge, NoFreeBuddies, Idle, At
<1> QED
  BY <1>1, CallsKeepPromises, NoHoleRequests, PTL

(* Where all that lies in an aligned region is free and smaller than the   *)
(* region, two buddies of one size are free: the smallest block there and  *)
(* its buddy.                                                              *)
LEMMA FreeRegionHasBuddies ==
  ASSUME HeapType, HeapOK, NEW t \in Orders, NEW a \in ArenaSlots, a % getOrderSize(t) = 0,
         \A b \in Blocks : b < a + getOrderSize(t) /\ a < b + Whole(b)
            => is_free[b] /\ \A k \in Orders : size[b] = Payload(k) => k < t
  PROVE  \E b \in Blocks : /\ size[b] < Payload(MAX_ORDER)
                           /\ findBuddyAddress(b) \in Blocks
                           /\ is_free[b] /\ is_free[findBuddyAddress(b)]
                           /\ size[findBuddyAddress(b)] = size[b]
<1>1. PICK S : S = getOrderSize(t)
  OBVIOUS
<1>2. a \in Nat /\ S \in Nat \ {0} /\ a % S = 0 /\ t \in Nat /\ Orders \subseteq Nat
  BY <1>1, ArenaFacts, OrderSizeType, OrdersType DEF HeapOK
<1> DEFINE Here(b) == b \in Blocks /\ b < a + S /\ a < b + Whole(b)
           D == {j \in Orders : \E b \in Blocks : a <= b /\ Here(b) /\ size[b] = Payload(j)}
<1>3. \A b \in Blocks : Here(b) => is_free[b] /\ \A k \in Orders : size[b] = Payload(k) => k < t
  BY <1>1
<1>4. D # {}
  <2>1. PICK c \in Blocks : c <= a /\ a < c + Whole(c)
    BY DEF HeapOK, Tiling, Filled, Covers
  <2>2. PICK j \in Orders : /\ c \in Nat /\ size[c] = Payload(j)
                            /\ Whole(c) = getOrderSize(j) /\ c % getOrderSize(j) = 0
    BY BlockFacts DEF HeapOK, Tiling
  <2>3. Here(c)
    BY <1>2, <2>1, <2>2
  <2>4. j < t
    BY <1>3, <2>2, <2>3
  <2>5. a % getOrderSize(j) = 0
    <3>1. j <= t /\ a <= a /\ a < a + getOrderSize(t) /\ a % getOrderSize(t) = 0
      BY <1>1, <1>2, <2>4
    <3> QED
      BY <1>2, <3>1, Nested
  <2>6. Ancestor(a, j) = c
    BY <1>2, <2>1, <2>2, AncestorUnique
  <2>7. Ancestor(a, j) = a
    <3>1. getOrderSize(j) \in Nat \ {0}
      BY OrderSizeType
    <3> QED
      BY <1>2, <2>5, <3>1, AncestorUnique
  <2> QED
    BY <1>2, <2>2, <2>3, <2>6, <2>7
<1>5. PICK j \in D : \A i \in D : j <= i
  <2>1. D \subseteq Nat
    BY <1>2
  <2> HIDE DEF D
  <2> QED
    BY <1>4, <2>1, LeastNat
<1>6. PICK b \in Blocks : a <= b /\ Here(b) /\ size[b] = Payload(j)
  OBVIOUS
<1>7. j \in Orders /\ j < t /\ is_free[b]
  BY <1>3, <1>6
<1>8. j < MAX_ORDER /\ j + 1 \in Orders /\ j + 1 <= t /\ j \in Nat
  BY <1>2, <1>7, OrdersType DEF Orders
<1>9. PICK s : s = getOrderSize(j)
  OBVIOUS
<1>10. /\ b \in Nat /\ Ancestor(b, j) = b /\ findTightOrder(size[b]) = j
       /\ findBuddyAddress(b) = findBuddyAddressBySize(b, s) /\ Whole(b) = s
       /\ s \in Nat \ {0} /\ getOrderSize(j + 1) = 2 * s
  <2>1. PICK i \in Orders : /\ b \in Nat /\ size[b] = Payload(i) /\ findTightOrder(size[b]) = i
                            /\ Ancestor(b, i) = b /\ Whole(b) = getOrderSize(i)
                            /\ findBuddyAddress(b)
                                 = findBuddyAddressBySize(b, getOrderSize(i))
    BY BlockFacts DEF HeapOK, Tiling
  <2>2. i = j
    BY <1>6, <1>7, <2>1, PayloadType
  <2>3. s \in Nat \ {0} /\ getOrderSize(j + 1) = 2 * s
    BY <1>7, <1>8, <1>9, OrderSizeType
  <2> QED
    BY <1>9, <2>1, <2>2, <2>3
<1>11. PICK y : y = findBuddyAddress(b)
  OBVIOUS
<1>12. PICK left : left = Ancestor(b, j + 1)
  OBVIOUS
<1>13. /\ y \in Blocks /\ y \in Nat
       /\ (y = b + s /\ left = b) \/ (b = y + s /\ left = y)
  BY <1>6, <1>7, <1>8, <1>9, <1>11, <1>12, BuddyFacts
<1>14. a <= left /\ left + 2 * s <= a + S
  <2>1. b < a + S
    BY <1>6
  <2>2. /\ a <= Ancestor(b, j + 1)
        /\ Ancestor(b, j + 1) + getOrderSize(j + 1) <= a + getOrderSize(t)
    BY <1>1, <1>2, <1>6, <1>8, <1>10, <2>1, Nested
  <2> QED
    BY <1>1, <1>10, <1>12, <2>2
<1>15. a <= y /\ y < a + S
  BY <1>2, <1>10, <1>13, <1>14
<1>16. PICK i \in Orders : size[y] = Payload(i) /\ Whole(y) = getOrderSize(i)
  BY <1>13, BlockFacts DEF HeapOK, Tiling
<1>17. Here(y) /\ i \in D /\ is_free[y]
  <2>1. getOrderSize(i) \in Nat \ {0}
    BY OrderSizeType
  <2>2. Here(y)
    BY <1>2, <1>13, <1>15, <1>16, <2>1
  <2> QED
    BY <1>3, <1>13, <1>15, <1>16, <2>2
<1>18. j <= i
  BY <1>5, <1>17
<1>19. size[y] <= Payload(j)
  <2>1. BuddyIsLive
    BY TilingGivesBuddies DEF HeapOK
  <2>2. j \in findTightOrder(size[b]) .. MAX_ORDER - 1
    BY <1>8, <1>10, OrdersType
  <2> QED
    BY <1>6, <1>9, <1>10, <1>11, <2>1, <2>2 DEF BuddyIsLive
<1>20. i = j
  <2>1. i \in Nat /\ Payload(i) \in Nat /\ Payload(j) \in Nat
    BY <1>2, <1>7, PayloadType
  <2>2. ~(j < i)
    BY <1>7, <1>16, <1>19, <2>1, PayloadType
  <2> QED
    BY <1>8, <1>18, <2>1, <2>2
<1>21. size[b] < Payload(MAX_ORDER)
  BY <1>6, <1>7, <1>8, OrdersType, PayloadType
<1> QED
  BY <1>6, <1>7, <1>11, <1>13, <1>16, <1>17, <1>20, <1>21

(* A valid request is refused only when no region of its order is free: a  *)
(* merge that was missed would show here.                                  *)
THEOREM RefusedOnlyWhenFull ==
  ASSUME NoHoleRequests
  PROVE  Safety => []RefusedOnlyIfFull
<1>1. IInv /\ CallInv => RefusedOnlyIfFull
  <2> SUFFICES ASSUME IInv, CallInv, Idle,
                      call.op \in {"smalloc", "scalloc", "srealloc"}, call.ret = NULL,
                      arena # NULL, Valid(call.n), call.n <= Payload(MAX_ORDER),
                      NEW a \in ArenaSlots, a % getOrderSize(Tight) = 0,
                      \A b \in Blocks : ~(/\ ~is_free[b]
                                          /\ b < a + getOrderSize(Tight) /\ a < b + Whole(b))
               PROVE  FALSE
    BY DEF RefusedOnlyIfFull
  <2>1. HeapType /\ HeapOK /\ Listed
    BY StateFacts
  <2>2. PICK t \in Orders : t = Tight
    BY StateFacts, TightFacts
  <2>3. \A k \in Orders : t <= k => FreeBlocks(k) = {}
    <3> SUFFICES ASSUME NEW k \in Orders, t <= k PROVE FreeBlocks(k) = {}
      OBVIOUS
    <3>1. Stocked(t) = {}
      BY <2>2 DEF CallInv, RefusedOK
    <3>2. k \in t .. MAX_ORDER
      BY OrdersType DEF Orders
    <3> QED
      BY <2>1, <3>1, <3>2 DEF Stocked, FL!isEmpty, Listed
  <2>4. ASSUME NEW b \in Blocks, b < a + getOrderSize(t) /\ a < b + Whole(b)
        PROVE  is_free[b] /\ \A k \in Orders : size[b] = Payload(k) => k < t
    <3>1. is_free[b]
      BY <2>2, <2>4
    <3>2. ASSUME NEW k \in Orders, size[b] = Payload(k) PROVE k < t
      <4>1. ~(t <= k)
        BY <2>3, <3>1, <3>2 DEF FreeBlocks
      <4> QED
        BY <4>1, OrdersType
    <3> QED
      BY <3>1, <3>2
  <2>5. PICK b \in Blocks : /\ size[b] < Payload(MAX_ORDER)
                            /\ is_free[b] /\ is_free[findBuddyAddress(b)]
                            /\ size[findBuddyAddress(b)] = size[b]
    BY <2>1, <2>2, <2>4, FreeRegionHasBuddies
  <2>6. NoFreeBuddies
    BY DEF CallInv, MergedOK, AtMerge, NoFreeBuddies, Idle, At
  <2> QED
    BY <2>5, <2>6 DEF NoFreeBuddies
<1> QED
  BY <1>1, CallsKeepPromises, Invariance, NoHoleRequests, PTL

----------------------------------------------------------------------------
(* The counters of one list, and of the array of lists                     *)

(* A list of blocks of p bytes counts its members. *)
Counted(l, p) ==
  /\ IsFiniteSet(l.blocks) /\ l.num_blocks = Cardinality(l.blocks)
  /\ l.num_bytes = Cardinality(l.blocks) * p

AllCounted(lists) == \A k \in Orders : Counted(lists[k], Payload(k))
ListsCounted == AllCounted(freeBlockListArray)

LEMMA EmptyCounted ==
  AllCounted([k \in Orders |-> FL!EmptyList])
<1> SUFFICES ASSUME NEW k \in Orders PROVE Counted(FL!EmptyList, Payload(k))
  BY DEF AllCounted
<1>1. PICK c \in Int, p \in Int : c = Cardinality({}) /\ p = Payload(k) /\ c = 0
  BY FS_EmptySet, PayloadType
<1>2. c * p = 0
  BY <1>1
<1> QED
  BY <1>1, <1>2, FS_EmptySet DEF Counted, FL!EmptyList

LEMMA AddCounted ==
  ASSUME NEW l, NEW p \in Nat, Counted(l, p), NEW b, b \notin l.blocks
  PROVE  Counted(FL!_addToList(l, b, p), p)
<1>1. PICK m : m = FL!_addToList(l, b, p)
  OBVIOUS
<1>2. /\ m.blocks = l.blocks \cup {b} /\ m.num_blocks = l.num_blocks + 1
      /\ m.num_bytes = l.num_bytes + p
  BY <1>1 DEF FL!_addToList
<1>3. PICK c : c = Cardinality(l.blocks)
  OBVIOUS
<1>4. c \in Nat /\ IsFiniteSet(m.blocks) /\ Cardinality(m.blocks) = c + 1
  <2>1. IsFiniteSet(l.blocks)
    BY DEF Counted
  <2>2. c \in Nat
    BY <1>3, <2>1, FS_CardinalityType
  <2>3. /\ IsFiniteSet(l.blocks \cup {b})
        /\ Cardinality(l.blocks \cup {b}) = Cardinality(l.blocks) + 1
    BY <2>1, FS_AddElement
  <2> QED
    BY <1>2, <1>3, <2>2, <2>3
<1>5. (c + 1) * p = c * p + p
  BY <1>4
<1> QED
  BY <1>1, <1>2, <1>3, <1>4, <1>5 DEF Counted

LEMMA RemoveCounted ==
  ASSUME NEW l, NEW p \in Nat, Counted(l, p), NEW b \in l.blocks
  PROVE  Counted(FL!_removeFromList(l, b, p), p)
<1>1. PICK m : m = FL!_removeFromList(l, b, p)
  OBVIOUS
<1>2. /\ m.blocks = l.blocks \ {b} /\ m.num_blocks = l.num_blocks - 1
      /\ m.num_bytes = l.num_bytes - p
  BY <1>1 DEF FL!_removeFromList
<1>3. PICK c : c = Cardinality(l.blocks)
  OBVIOUS
<1>4. c \in Nat /\ IsFiniteSet(m.blocks) /\ Cardinality(m.blocks) = c - 1
  BY <1>2, <1>3, FS_RemoveElement, FS_CardinalityType DEF Counted
<1>5. (c - 1) * p = c * p - p
  BY <1>4
<1> QED
  BY <1>1, <1>2, <1>3, <1>4, <1>5 DEF Counted

(* One list of the array is replaced by one that counts its members. *)
LEMMA OneCounted ==
  ASSUME NEW lists, NEW dom, lists \in [Orders -> dom], AllCounted(lists),
         NEW k \in Orders, NEW l, Counted(l, Payload(k))
  PROVE  AllCounted([lists EXCEPT ![k] = l])
BY DEF AllCounted

LEMMA ListAdds ==
  ASSUME HeapType, ListsCounted, NEW k \in Orders, NEW b,
         b \notin freeBlockListArray[k].blocks,
         freeBlockListArray' =
           [freeBlockListArray EXCEPT ![k] = FL!_addToList(@, b, Payload(k))]
  PROVE  ListsCounted'
<1>1. PICK l : l = FL!_addToList(freeBlockListArray[k], b, Payload(k))
  OBVIOUS
<1>2. Counted(l, Payload(k))
  BY <1>1, AddCounted, PayloadType DEF ListsCounted, AllCounted
<1>3. AllCounted([freeBlockListArray EXCEPT ![k] = l])
  BY <1>2, OneCounted DEF ListsCounted, HeapType
<1>4. freeBlockListArray' = [freeBlockListArray EXCEPT ![k] = l]
  BY <1>1
<1> QED
  BY <1>3, <1>4 DEF ListsCounted

LEMMA ListLoses ==
  ASSUME HeapType, ListsCounted, NEW k \in Orders,
         NEW b \in freeBlockListArray[k].blocks,
         freeBlockListArray' =
           [freeBlockListArray EXCEPT ![k] = FL!_removeFromList(@, b, Payload(k))]
  PROVE  ListsCounted'
<1>1. PICK l : l = FL!_removeFromList(freeBlockListArray[k], b, Payload(k))
  OBVIOUS
<1>2. Counted(l, Payload(k))
  BY <1>1, RemoveCounted, PayloadType DEF ListsCounted, AllCounted
<1>3. AllCounted([freeBlockListArray EXCEPT ![k] = l])
  BY <1>2, OneCounted DEF ListsCounted, HeapType
<1>4. freeBlockListArray' = [freeBlockListArray EXCEPT ![k] = l]
  BY <1>1
<1> QED
  BY <1>3, <1>4 DEF ListsCounted

LEMMA ListsStay ==
  ASSUME ListsCounted, freeBlockListArray' = freeBlockListArray
  PROVE  ListsCounted'
BY DEF ListsCounted

(* The three operations of the handlers on a block of the arena. *)
LEMMA PopCounted ==
  ASSUME IInv, ListsCounted, NEW k \in Orders, ~FL!isEmpty(freeBlockListArray[k]),
         NEW b, b = FL!Head(freeBlockListArray[k]), PopHead(b, k)
  PROVE  ListsCounted'
<1>1. HeapType /\ HeapOK /\ Listed
  BY StateFacts
<1>2. b \in FreeBlocks(k)
  BY <1>1, HeadIsListed
<1>3. b \in freeBlockListArray[k].blocks /\ size[b] = Payload(k)
  BY <1>1, <1>2 DEF Listed, FreeBlocks
<1>4. freeBlockListArray' =
        [freeBlockListArray EXCEPT ![k] = FL!_removeFromList(@, b, Payload(k))]
  BY <1>3 DEF PopHead
<1> QED
  BY <1>1, <1>3, <1>4, ListLoses

LEMMA MarkFreeCounted ==
  ASSUME IInv, ListsCounted, NEW b \in Blocks, ~is_free[b], MarkFree(b)
  PROVE  ListsCounted'
<1>1. HeapType /\ HeapOK /\ Listed
  BY StateFacts
<1>2. PICK k \in Orders : size[b] = Payload(k) /\ findTightOrder(size[b]) = k
  BY <1>1, BlockFacts DEF HeapOK, Tiling
<1>3. b \notin freeBlockListArray[k].blocks
  BY <1>1, <1>2 DEF Listed, FreeBlocks
<1>4. freeBlockListArray' =
        [freeBlockListArray EXCEPT ![k] = FL!_addToList(@, b, Payload(k))]
  BY <1>2 DEF MarkFree
<1> QED
  BY <1>1, <1>2, <1>3, <1>4, ListAdds

LEMMA TakeBackCounted ==
  ASSUME IInv, ListsCounted, NEW b \in Blocks, TakeBack(b, findTightOrder(size[b]))
  PROVE  ListsCounted'
<1>1. HeapType /\ HeapOK /\ Listed
  BY StateFacts
<1>2. PICK k \in Orders : size[b] = Payload(k) /\ findTightOrder(size[b]) = k
  BY <1>1, BlockFacts DEF HeapOK, Tiling
<1>3. CASE is_free[b]
  <2>1. b \in freeBlockListArray[k].blocks
    BY <1>1, <1>2, <1>3 DEF Listed, FreeBlocks
  <2>2. freeBlockListArray' =
          [freeBlockListArray EXCEPT ![k] = FL!_removeFromList(@, b, Payload(k))]
    BY <1>2, <1>3 DEF TakeBack
  <2> QED
    BY <1>1, <2>1, <2>2, ListLoses
<1>4. CASE ~is_free[b]
  <2>1. freeBlockListArray' = freeBlockListArray
    BY <1>1, <1>2, <1>4 DEF TakeBack, HeapType
  <2> QED
    BY <2>1, ListsStay
<1> QED
  BY <1>3, <1>4

LEMMA MergeCounted ==
  ASSUME IInv, ListsCounted, NEW b, NEW buddy, NEW left, Merging(b, buddy, left)
  PROVE  ListsCounted'
<1>1. HeapType /\ HeapOK /\ Listed
  BY StateFacts
<1>2. /\ b \in Blocks /\ buddy \in Blocks /\ buddy # b
      /\ left \in {b, buddy} /\ is_free[buddy]
  BY DEF Merging
<1>3. PICK k \in Orders :
        /\ size[b] = Payload(k) /\ k < MAX_ORDER /\ k + 1 \in Orders
        /\ size[buddy] = size[b]
        /\ freeBlockListArray' =
             [[freeBlockListArray EXCEPT ![k] = BothGone(b, buddy, k)]
                EXCEPT ![k + 1] = FL!_addToList(@, left, Payload(k + 1))]
  BY DEF Merging
<1>4. PICK first : first = FL!_removeFromList(freeBlockListArray[k], buddy, Payload(k))
  OBVIOUS
<1>5. /\ Counted(first, Payload(k))
      /\ first.blocks = freeBlockListArray[k].blocks \ {buddy}
  <2>1. buddy \in freeBlockListArray[k].blocks
    BY <1>1, <1>2, <1>3 DEF Listed, FreeBlocks
  <2>2. Counted(freeBlockListArray[k], Payload(k)) /\ Payload(k) \in Nat
    BY PayloadType DEF ListsCounted, AllCounted
  <2> QED
    BY <1>4, <2>1, <2>2, RemoveCounted DEF FL!_removeFromList
<1>6. PICK both : both = BothGone(b, buddy, k)
  OBVIOUS
<1>7. Counted(both, Payload(k))
  <2>1. CASE is_free[b]
    <3>1. b \in first.blocks
      BY <1>1, <1>2, <1>3, <1>5, <2>1 DEF Listed, FreeBlocks
    <3>2. both = FL!_removeFromList(first, b, Payload(k))
      BY <1>4, <1>6, <2>1 DEF BothGone
    <3> QED
      BY <1>5, <3>1, <3>2, RemoveCounted, PayloadType
  <2>2. CASE ~is_free[b]
    BY <1>4, <1>5, <1>6, <2>2 DEF BothGone
  <2> QED
    BY <2>1, <2>2
<1>8. PICK lists : lists = [freeBlockListArray EXCEPT ![k] = both]
  OBVIOUS
<1>9. AllCounted(lists) /\ DOMAIN lists = Orders
      /\ lists[k + 1] = freeBlockListArray[k + 1]
  <2>1. AllCounted(lists)
    BY <1>1, <1>7, <1>8, OneCounted DEF ListsCounted, HeapType
  <2> QED
    BY <1>1, <1>3, <1>8, <2>1, OrdersType DEF HeapType
<1>10. PICK l : l = FL!_addToList(lists[k + 1], left, Payload(k + 1))
  OBVIOUS
<1>11. Counted(l, Payload(k + 1))
  <2>1. left \notin lists[k + 1].blocks
    <3>1. Payload(k + 1) # Payload(k)
      BY <1>3, PayloadType, OrdersType
    <3> QED
      BY <1>1, <1>2, <1>3, <1>9, <3>1 DEF Listed, FreeBlocks
  <2>2. Counted(lists[k + 1], Payload(k + 1)) /\ Payload(k + 1) \in Nat
    BY <1>3, <1>9, PayloadType DEF AllCounted
  <2> QED
    BY <1>10, <2>1, <2>2, AddCounted
<1>12. freeBlockListArray' = [lists EXCEPT ![k + 1] = l]
  BY <1>3, <1>6, <1>8, <1>10
<1>13. \A j \in Orders : freeBlockListArray'[j] = IF j = k + 1 THEN l ELSE lists[j]
  <2>1. lists = [j \in Orders |-> lists[j]]
    BY <1>1, <1>8 DEF HeapType
  <2> QED
    BY <1>9, <1>12, <2>1
<1> QED
  BY <1>9, <1>11, <1>13 DEF ListsCounted, AllCounted

----------------------------------------------------------------------------
(* The totals                                                              *)

MapsCounted ==
  /\ mmapedList.blocks = Mapped /\ mmapedList.num_blocks = Cardinality(Mapped)
  /\ mmapedList.num_bytes = SumFunctionOnSet(size, Mapped)

ArenaBytes == IF firstAlloc THEN 0 ELSE PROGRAM_BREAK_DIVISOR

BytesCounted ==
  num_allocated_bytes = SumFunctionOnSet(size, Mapped) + ArenaBytes
                          - (num_allocated_blocks - Cardinality(Mapped)) * META

GetInv == /\ IsFiniteSet(live) /\ ListsCounted /\ MapsCounted /\ BytesCounted
          /\ num_allocated_blocks + Uncounted = Cardinality(live)

(* Every number of GetInv is one. *)
LEMMA Numbers ==
  ASSUME IInv, IsFiniteSet(live)
  PROVE  /\ IsFiniteSet(Mapped) /\ Cardinality(Mapped) \in Nat
         /\ Cardinality(live) \in Nat
         /\ SumFunctionOnSet(size, Mapped) \in Int
         /\ ArenaBytes \in Nat /\ Uncounted \in Int /\ META \in Nat
         /\ num_allocated_blocks \in Int /\ num_allocated_bytes \in Int
         /\ \A a \in Mapped : size[a] \in Int
<1>1. HeapType /\ call \in Calls
  BY StateFacts
<1>2. IsFiniteSet(Mapped)
  BY FS_Subset DEF Mapped
<1>3. \A a \in Mapped : size[a] \in Int
  BY <1>1 DEF HeapType, Mapped
<1>4. SumFunctionOnSet(size, Mapped) \in Int
  BY <1>2, <1>3, SumType
<1>5. Uncounted \in Int
  <2>1. Tight \in Int
    <3>1. Tight \in Orders
      BY <1>1, TightFacts
    <3> QED
      BY <3>1, OrdersType
  <2>2. call.splits \in Int /\ call.high \in Int
    BY <1>1 DEF Calls
  <2> QED
    BY <2>1, <2>2 DEF Uncounted
<1>6. ArenaBytes \in Nat
  BY DivisorType DEF ArenaBytes
<1> QED
  BY <1>1, <1>2, <1>3, <1>4, <1>5, <1>6, FS_CardinalityType, OrdersType DEF HeapType

LEMMA Distribute ==
  \A x, y, z \in Int : (x + y) * z = x * z + y * z
OBVIOUS

(* A step that leaves the mappings and counts d blocks more. *)
LEMMA Tally ==
  ASSUME IInv, GetInv, ListsCounted', IsFiniteSet(live'),
         UNCHANGED <<mmapedList, firstAlloc>>,
         Mapped' = Mapped, \A a \in Mapped : size'[a] = size[a],
         NEW d \in Int, CountBlocks(d),
         num_allocated_blocks + d + Uncounted' = Cardinality(live')
  PROVE  GetInv'
<1>1. PICK n \in Int, c \in Int, m \in Int :
        n = num_allocated_blocks /\ c = Cardinality(Mapped) /\ m = META
  BY Numbers DEF GetInv
<1>2. PICK S \in Int : S = SumFunctionOnSet(size, Mapped)
  BY Numbers DEF GetInv
<1>3. SumFunctionOnSet(size', Mapped) = S
  <2>1. IsFiniteSet(Mapped) /\ \A a \in Mapped : size[a] \in Int
    BY Numbers DEF GetInv
  <2> QED
    BY <1>2, <2>1, SumSame
<1>4. MapsCounted'
  <2>1. MapsCounted
    BY DEF GetInv
  <2> QED
    BY <1>2, <1>3, <2>1 DEF MapsCounted
<1>5. BytesCounted'
  <2>1. PICK A \in Int : A = ArenaBytes /\ ArenaBytes' = A
    BY Numbers DEF GetInv, ArenaBytes
  <2>2. num_allocated_bytes = S + A - (n - c) * m
    BY <1>1, <1>2, <2>1 DEF GetInv, BytesCounted
  <2>3. num_allocated_bytes' = S + A - (n - c) * m - d * m
    BY <1>1, <2>2 DEF CountBlocks
  <2>4. (n - c) * m + d * m = ((n - c) + d) * m
    BY <1>1, Distribute
  <2>5. num_allocated_bytes' = S + A - ((n + d) - c) * m
    <3>1. (n - c) + d = (n + d) - c
      BY <1>1
    <3>2. (n - c) * m \in Int /\ d * m \in Int
      BY <1>1
    <3> QED
      BY <1>1, <1>2, <2>1, <2>3, <2>4, <3>1, <3>2
  <2>6. num_allocated_blocks' = n + d
    BY <1>1 DEF CountBlocks
  <2> QED
    BY <1>1, <1>3, <2>1, <2>5, <2>6 DEF BytesCounted
<1>6. (num_allocated_blocks + Uncounted = Cardinality(live))'
  BY DEF CountBlocks
<1> QED
  BY <1>4, <1>5, <1>6 DEF GetInv

(* A step that leaves the set of blocks, the mappings and both totals. *)
LEMMA SameTotals ==
  ASSUME IInv, GetInv, ListsCounted', live' = live, \A a \in Mapped : size'[a] = size[a],
         UNCHANGED <<mmapedList, counters, firstAlloc>>,
         Uncounted' = Uncounted
  PROVE  GetInv'
<1>1. PICK d \in Int : d = 0
  OBVIOUS
<1>2. CountBlocks(d)
  BY <1>1, Numbers DEF GetInv, CountBlocks, counters
<1>3. num_allocated_blocks + d + Uncounted' = Cardinality(live')
  BY <1>1, Numbers DEF GetInv
<1>4. Mapped' = Mapped /\ IsFiniteSet(live')
  BY DEF Mapped, GetInv
<1> QED
  BY <1>2, <1>3, <1>4, Tally

LEMMA NothingPending ==
  ASSUME call.at # "split"
  PROVE  Uncounted = 0
BY DEF Uncounted, At

LEMMA NothingPendingNext ==
  ASSUME call'.at # "split"
  PROVE  Uncounted' = 0
BY DEF Uncounted, At

LEMMA CallSame ==
  ASSUME call' = call
  PROVE  Uncounted' = Uncounted
BY DEF Uncounted, At, Tight

----------------------------------------------------------------------------
(* Every step keeps the counters right                                     *)

LEMMA InitCounts ==
  ASSUME Init
  PROVE  GetInv
<1>1. live = {} /\ IsFiniteSet(live) /\ Cardinality(live) = 0 /\ Mapped = {}
  BY FS_EmptySet DEF Init, Mapped
<1>2. ListsCounted
  BY EmptyCounted DEF Init, ListsCounted
<1>3. SumFunctionOnSet(size, Mapped) = 0
  BY <1>1, SumOfNone
<1>4. MapsCounted
  BY <1>1, <1>3, FS_EmptySet DEF MapsCounted, Init, FL!EmptyList
<1>5. BytesCounted
  BY <1>1, <1>3, OrdersType DEF BytesCounted, ArenaBytes, Init
<1>6. Uncounted = 0 /\ num_allocated_blocks = 0
  BY DEF Init, NoCall, Uncounted, At
<1> QED
  BY <1>1, <1>2, <1>4, <1>5, <1>6 DEF GetInv

(* Steps that touch no counter and no block. *)
LEMMA QuietCounts ==
  ASSUME IInv, GetInv, Quiet, ListsCounted', Uncounted' = Uncounted,
         UNCHANGED <<mmapedList, counters, firstAlloc>>
  PROVE  GetInv'
<1>1. live' = live /\ \A a \in Mapped : size'[a] = size[a]
  BY DEF Quiet, Mapped
<1> QED
  BY <1>1, SameTotals

LEMMA UntouchedCounts ==
  ASSUME IInv, GetInv,
         \/ Call \/ ForeignSbrk \/ SmallocReject \/ SmallocNone
         \/ SmallocMmapFails \/ ScallocKilled \/ SfreeNull \/ SfreeSegv
         \/ SfreeReleased \/ SfreeTriesMerge \/ MergeTop \/ SreallocReject
         \/ SreallocNull \/ SreallocSame \/ SreallocMoves \/ SreallocKilled
         \/ Halted \/ UNCHANGED vars
  PROVE  GetInv'
<1>1. /\ UNCHANGED <<freeBlockListArray, mmapedList, counters, firstAlloc>> /\ Quiet
  <2>1. Quiet
    BY UntouchedQuiet
  <2> QED
    BY <2>1 DEF Call, CallWith, ForeignSbrk, SmallocReject, SmallocNone, SmallocMmapFails,
       ScallocKilled, SfreeNull, SfreeSegv, SfreeReleased, SfreeTriesMerge, MergeTop,
       SreallocReject, SreallocNull, SreallocSame, SreallocMoves, SreallocKilled,
       Halted, vars, heap, os, counters
<1>2. Uncounted' = Uncounted
  <2>1. call \in Calls
    BY StateFacts
  <2>2. CASE Halted \/ UNCHANGED vars \/ ForeignSbrk
    BY <2>2, CallSame DEF Halted, vars, ForeignSbrk
  <2>3. CASE Call
    <3>1. PICK op \in {"smalloc", "scalloc", "srealloc", "sfree"} :
            \E p \in {NULL} \cup granted, n \in SIZES \cup {0}, num \in NUMS \cup {1} :
              CallWith(op, p, num, n)
      BY <2>3 DEF Call
    <3>2. call.at = "idle"
          /\ call'.at = IF op \in {"smalloc", "scalloc"} THEN "smalloc" ELSE op
      BY <3>1 DEF CallWith, At, NoCall
    <3> QED
      BY <3>2, NothingPending, NothingPendingNext
  <2>4. CASE ~(Halted \/ UNCHANGED vars \/ ForeignSbrk \/ Call)
    <3>1. call.at # "split"
      BY <2>4 DEF At, SmallocReject, SmallocNone, SmallocMmapFails, SmallocSearch, SmallocReady,
         ScallocKilled, SfreeNull, SfreeSegv, SfreeReleased, SfreeReadable, SfreeTriesMerge,
         SfreeArena, MergeTop, SreallocReject, SreallocNull, SreallocSame, SreallocReady,
         SreallocMoves, SreallocGrows, SreallocKilled
    <3>2. call'.at # "split"
      BY <2>1, <2>4, AnswerMoves
         DEF SmallocReject, SmallocNone, SmallocMmapFails, SmallocReturns, Fail, Answer, NoCall,
         Goto, ScallocKilled, WriteKills, SfreeNull, SfreeSegv, SfreeReleased, SfreeReturns,
         SfreeTriesMerge, MergeTop, SreallocReject, SreallocNull, SreallocSame,
         SreallocMoves, SreallocKilled, Calls
    <3> QED
      BY <3>1, <3>2, NothingPending, NothingPendingNext
  <2> QED
    BY <2>2, <2>3, <2>4
<1>3. ListsCounted'
  BY <1>1, ListsStay DEF GetInv
<1> QED
  BY <1>1, <1>2, <1>3, QuietCounts

(* Bytes that nobody's header is in are written. *)
LEMMA WritesCount ==
  ASSUME IInv, GetInv, ClientWrites \/ ScallocMemset \/ SreallocMemmove
  PROVE  GetInv'
<1>1. Quiet /\ call \in Calls
  BY StateFacts, ClientWritesQuiet, ScallocMemsetQuiet, SreallocMemmoveQuiet
<1>2. UNCHANGED <<freeBlockListArray, mmapedList, counters, firstAlloc>>
  BY DEF ClientWrites, ScallocMemset, SreallocMemmove, os, counters
<1>3. call.at # "split" /\ call'.at # "split"
  BY <1>1, AnswerMoves DEF ClientWrites, ScallocMemset, SreallocMemmove, At, Calls
<1>4. ListsCounted'
  BY <1>2, ListsStay DEF GetInv
<1> QED
  BY <1>1, <1>2, <1>3, <1>4, NothingPending, NothingPendingNext, QuietCounts

(* One block of the arena is taken off its list or put on it. *)
LEMMA FlagCounts ==
  ASSUME IInv, GetInv, NEW b, Taking(b) \/ Freeing(b), ListsCounted',
         UNCHANGED <<mmapedList, counters, firstAlloc>>,
         call.at # "split", Uncounted' = 0
  PROVE  GetInv'
<1>1. live' = live /\ size' = size
  BY DEF Taking, Freeing
<1> QED
  BY <1>1, NothingPending, SameTotals

LEMMA SmallocTightCounts ==
  ASSUME IInv, GetInv, SmallocTight
  PROVE  GetInv'
<1>1. call \in Calls
  BY StateFacts
<1>2. PICK b, k : /\ k \in Orders /\ Taking(b)
                  /\ b = FL!Head(freeBlockListArray[k]) /\ PopHead(b, k)
                  /\ ~FL!isEmpty(freeBlockListArray[k]) /\ SmallocReturns(b)
  BY SmallocTakes
<1>3. ListsCounted'
  BY <1>2, PopCounted DEF GetInv
<1>4. call'.at # "split"
  BY <1>1, <1>2, SmallocReturnsMoves
<1>5. UNCHANGED <<mmapedList, counters, firstAlloc>> /\ call.at # "split"
  BY DEF SmallocTight, SmallocSearch, SmallocReady, At, counters, os
<1> QED
  BY <1>2, <1>3, <1>4, <1>5, NothingPendingNext, FlagCounts

LEMMA SmallocHigherCounts ==
  ASSUME IInv, GetInv, SmallocHigher
  PROVE  GetInv'
<1>1. call \in Calls
  BY StateFacts
<1>2. PICK b, k : /\ k \in Orders /\ Taking(b)
                  /\ b = FL!Head(freeBlockListArray[k]) /\ PopHead(b, k)
                  /\ ~FL!isEmpty(freeBlockListArray[k]) /\ k = LowestStocked(Tight)
  BY SmallocTakes
<1>3. ListsCounted'
  BY <1>2, PopCounted DEF GetInv
<1>4. Uncounted' = 0
  <2>1. PICK c : c = FL!Head(freeBlockListArray[LowestStocked(Tight)])
    OBVIOUS
  <2>2. call' = [call EXCEPT !.at = "split", !.blk = c, !.high = k - 1, !.splits = k - Tight]
    BY <1>2, <2>1 DEF SmallocHigher
  <2>3. /\ call'.at = "split" /\ call'.high = k - 1 /\ call'.splits = k - Tight
        /\ call'.n = call.n
    BY <1>1, <2>2 DEF Calls
  <2>4. Tight' = Tight
    BY <2>3 DEF Tight
  <2>5. k \in Orders /\ Tight \in Orders
    BY <1>1, <1>2, TightFacts
  <2>6. k \in Int /\ Tight \in Int
    BY <2>5, OrdersType
  <2> QED
    BY <2>3, <2>4, <2>6 DEF Uncounted, At
<1>5. UNCHANGED <<mmapedList, counters, firstAlloc>> /\ call.at # "split"
  BY DEF SmallocHigher, SmallocSearch, SmallocReady, At, counters, os
<1> QED
  BY <1>2, <1>3, <1>4, <1>5, FlagCounts

(* The arena cannot be had: there is no block and the lists are cleared. *)
LEMMA FirstAllocatorFailsCounts ==
  ASSUME IInv, GetInv, FirstAllocatorFails
  PROVE  GetInv'
<1>1. Quiet /\ call \in Calls
  BY StateFacts, UntouchedQuiet
<1>2. ListsCounted'
  BY EmptyCounted DEF FirstAllocatorFails, ListsCounted
<1>3. call.at # "split" /\ call'.at # "split"
  BY <1>1, AnswerMoves DEF FirstAllocatorFails, Fail, At
<1>4. UNCHANGED <<mmapedList, counters, firstAlloc>>
  BY DEF FirstAllocatorFails, counters
<1> QED
  BY <1>1, <1>2, <1>3, <1>4, NothingPending, NothingPendingNext, QuietCounts

LEMMA ReleaseCounts ==
  ASSUME IInv, GetInv, SfreeAlone \/ MergeStop
  PROVE  GetInv'
<1>1. call \in Calls /\ HeapType /\ HeapOK /\ CallOK /\ Listed
  BY StateFacts
<1>2. PICK b : b = call.blk
  OBVIOUS
<1>3. /\ is_free' = [is_free EXCEPT ![b] = TRUE] /\ UNCHANGED <<size, live>>
      /\ UNCHANGED <<mmapedList, counters, firstAlloc>> /\ SfreeReturns
      /\ call.at \in {"sfree", "merge"}
  BY <1>2 DEF SfreeAlone, SfreeArena, SfreeReadable, MergeStop, MarkFree, Break, At, os, counters
<1>4. Freeing(b)
  BY <1>3 DEF Freeing
<1>5. ListsCounted'
  <2>1. CASE SfreeAlone
    <3>1. b \in Blocks /\ ~is_free[b] /\ MarkFree(b)
      <4>1. b # NULL /\ ~Unmapped(b) /\ ~is_free[b] /\ size[b] < MAX_ORDER_BLOCK_SIZE
            /\ MarkFree(b) /\ At("sfree")
        BY <1>2, <2>1 DEF SfreeAlone, SfreeArena, SfreeReadable
      <4>2. Known(b) /\ b \in live
        BY <1>1, <1>2, <4>1 DEF CallOK, SfreeOK, Known, Unmapped
      <4> QED
        BY <1>1, <4>1, <4>2, SmallIsArena
    <3> QED
      BY <3>1, MarkFreeCounted DEF GetInv
  <2>2. CASE MergeStop
    <3>1. b \in Blocks
      BY <1>1, <1>2, <2>2 DEF MergeStop, CallOK, MergeOK
    <3>2. PICK k \in Orders : size[b] = Payload(k) /\ findTightOrder(size[b]) = k
      BY <1>1, <3>1, BlockFacts DEF HeapOK, Tiling
    <3>3. freeBlockListArray' =
             IF b \in freeBlockListArray[k].blocks THEN freeBlockListArray
             ELSE [freeBlockListArray EXCEPT ![k] = FL!_addToList(@, b, Payload(k))]
      BY <1>2, <2>2, <3>2 DEF MergeStop
    <3> QED
      BY <1>1, <3>2, <3>3, ListsStay, ListAdds DEF GetInv
  <2> QED
    BY <1>3, <2>1, <2>2
<1>6. call'.at = "idle"
  BY <1>1, <1>3, AnswerMoves DEF SfreeReturns, Fail
<1> QED
  BY <1>3, <1>4, <1>5, <1>6, NothingPendingNext, FlagCounts

LEMMA SreallocMergesCounts ==
  ASSUME IInv, GetInv, SreallocMerges
  PROVE  GetInv'
<1>1. call \in Calls /\ HeapType /\ HeapOK /\ ClientOK
  BY StateFacts
<1>2. PICK b : b = call.old
  OBVIOUS
<1>3. /\ UNCHANGED <<mmapedList, counters, firstAlloc, size, live>>
      /\ call.at = "srealloc" /\ Goto("grow") /\ SreallocReady /\ ~Big
  BY DEF SreallocMerges, SreallocGrows, SreallocReady, At, os, counters
<1>4. b \in Blocks
  BY <1>1, <1>2, <1>3, OldIsLive
<1>5. ListsCounted'
  <2>1. CASE is_free[b]
    BY <1>2, <2>1, ListsStay DEF SreallocMerges, GetInv
  <2>2. CASE ~is_free[b]
    BY <1>2, <1>4, <2>2, MarkFreeCounted DEF SreallocMerges, GetInv
  <2> QED
    BY <2>1, <2>2
<1>6. call'.at = "grow"
  BY <1>1, <1>3, GotoMoves DEF Places
<1> QED
  BY <1>3, <1>5, <1>6, NothingPending, NothingPendingNext, SameTotals

LEMMA ServesCounts ==
  ASSUME IInv, GetInv, SreallocReuse \/ GrowReturn
  PROVE  GetInv'
<1>1. call \in Calls /\ HeapType /\ HeapOK /\ ClientOK /\ CallOK
  BY StateFacts
<1>2. PICK b : b = IF SreallocReuse THEN call.old ELSE call.blk
  OBVIOUS
<1>3. /\ b \in Blocks /\ TakeBack(b, findTightOrder(size[b])) /\ UNCHANGED <<size, live>>
      /\ UNCHANGED <<mmapedList, counters, firstAlloc>>
      /\ call.at \in {"srealloc", "grow"} /\ Answer(b, FALSE)
  <2>1. CASE SreallocReuse
    BY <1>1, <1>2, <2>1, OldIsLive DEF SreallocReuse, SreallocReady, At, counters, os
  <2>2. CASE GrowReturn
    <3>1. b = call.blk /\ call.at = "grow" /\ Answer(b, FALSE) /\ TakeBack(b, Tight)
          /\ UNCHANGED <<mmapedList, counters, firstAlloc, size, live>>
          /\ findTightOrder(size[b]) >= Tight
      BY <1>2, <2>2 DEF GrowReturn, SreallocReuse, SreallocReady, At, counters, os
    <3>2. b \in Blocks /\ findTightOrder(size[b]) <= Tight
      BY <1>1, <3>1 DEF CallOK, GrowOK, At
    <3>3. findTightOrder(size[b]) \in Orders /\ Tight \in Orders
      BY <1>1, <3>2, TightFacts, BlockFacts DEF HeapOK, Tiling
    <3>4. findTightOrder(size[b]) = Tight
      BY <3>1, <3>2, <3>3, OrdersType
    <3> QED
      BY <3>1, <3>2, <3>4 DEF counters
  <2> QED
    BY <2>1, <2>2
<1>4. ListsCounted'
  BY <1>3, TakeBackCounted DEF GetInv
<1>5. Taking(b)
  BY <1>3 DEF Taking, TakeBack
<1>6. call'.at = "idle"
  BY <1>1, <1>3, AnswerMoves
<1> QED
  BY <1>3, <1>4, <1>5, <1>6, NothingPendingNext, FlagCounts

(* The right half of a split is one block more, counted when all are made. *)
LEMMA SplitStepCounts ==
  ASSUME IInv, GetInv, SplitStep
  PROVE  GetInv'
<1>1. call \in Calls /\ HeapType /\ Listed
  BY StateFacts
<1>2. PICK b, h, right :
            /\ b = call.blk /\ h = call.high /\ right = b + getOrderSize(h)
            /\ h \in Orders /\ b \in Blocks
            /\ right \in Slots /\ right \notin live
            /\ live' = live \cup {right}
            /\ size' = [size EXCEPT ![b] = Payload(h), ![right] = Payload(h)]
            /\ call' = [call EXCEPT !.high = h - 1] /\ call.at = "split"
  BY SplitStepBlocks
<1>3. /\ UNCHANGED <<mmapedList, counters, firstAlloc>>
      /\ freeBlockListArray' =
           [freeBlockListArray EXCEPT ![h] = FL!_addToList(@, right, Payload(h))]
  BY <1>2 DEF SplitStep, counters, os
<1>4. ListsCounted'
  BY <1>1, <1>2, <1>3, ListAdds DEF GetInv, Listed, FreeBlocks, Blocks
<1>5. IsFiniteSet(live') /\ Cardinality(live') = Cardinality(live) + 1
  BY <1>2, FS_AddElement DEF GetInv
<1>6. Mapped' = Mapped /\ \A a \in Mapped : size'[a] = size[a]
  BY <1>1, <1>2, SlotsType DEF Mapped, Blocks, HeapType
<1>7. Uncounted' = Uncounted + 1
  <2>1. /\ call'.at = "split" /\ call'.high = h - 1 /\ call'.splits = call.splits
        /\ call'.n = call.n
    BY <1>1, <1>2 DEF Calls
  <2>2. Tight' = Tight
    BY <2>1 DEF Tight
  <2>3. Tight \in Orders
    BY <1>1, TightFacts
  <2>4. Tight \in Int /\ h \in Int /\ call.splits \in Int
    BY <1>1, <1>2, <2>3, OrdersType DEF Calls
  <2> QED
    BY <1>2, <2>1, <2>2, <2>4 DEF Uncounted, At
<1>8. PICK d \in Int : d = 0
  OBVIOUS
<1>9. CountBlocks(d)
  BY <1>3, <1>8, Numbers DEF GetInv, CountBlocks, counters
<1>10. num_allocated_blocks + d + Uncounted' = Cardinality(live')
  BY <1>5, <1>7, <1>8, Numbers DEF GetInv
<1> QED
  BY <1>3, <1>4, <1>5, <1>6, <1>9, <1>10, Tally

(* splitBlock counts at once the blocks that its loop has made. *)
LEMMA SplitReturnCounts ==
  ASSUME IInv, GetInv, SplitReturn
  PROVE  GetInv'
<1>1. call \in Calls /\ CallOK /\ Quiet
  BY StateFacts, UntouchedQuiet
<1>2. CountBlocks(call.splits) /\ UNCHANGED <<freeBlockListArray, mmapedList, firstAlloc>>
      /\ call.at = "split" /\ ~SplitsLeft /\ SmallocReturns(call.blk)
  BY DEF SplitReturn, At, os
<1>3. call.splits = Uncounted /\ call.splits \in Int
  <2>1. call.high \in -1 .. MAX_ORDER - 1 /\ Tight <= call.high + 1
    BY <1>1, <1>2 DEF CallOK, SplitOK, At
  <2>2. Tight \in Orders
    BY <1>1, TightFacts
  <2>3. Tight \in Int /\ call.high \in Int /\ call.splits \in Int
    BY <1>1, <2>2, OrdersType DEF Calls
  <2>4. call.high + 1 = Tight
    BY <1>2, <2>1, <2>3 DEF SplitsLeft
  <2> QED
    BY <1>2, <2>3, <2>4 DEF Uncounted, At
<1>4. Uncounted' = 0
  BY <1>1, <1>2, SmallocReturnsMoves, NothingPendingNext
<1>5. /\ Mapped' = Mapped /\ \A a \in Mapped : size'[a] = size[a]
      /\ live' = live /\ IsFiniteSet(live')
  BY <1>1, QuietUsed DEF Quiet, Mapped, GetInv
<1>6. num_allocated_blocks + call.splits + Uncounted' = Cardinality(live')
  BY <1>3, <1>4, <1>5, Numbers DEF GetInv
<1>7. ListsCounted'
  BY <1>2, ListsStay DEF GetInv
<1> QED
  BY <1>2, <1>3, <1>5, <1>6, <1>7, Tally

LEMMA MergeCounts ==
  ASSUME IInv, GetInv, MergeStep \/ GrowStep
  PROVE  GetInv'
<1>1. call \in Calls
  BY StateFacts
<1>2. PICK b, buddy, left : Merging(b, buddy, left)
  BY MergeBlocks
<1>3. ListsCounted'
  BY <1>2, MergeCounted DEF GetInv
<1>4. PICK right \in live : live' = live \ {right}
  BY <1>2 DEF Merging, Blocks
<1>5. IsFiniteSet(live') /\ Cardinality(live') = Cardinality(live) - 1
  BY <1>4, FS_RemoveElement DEF GetInv
<1>6. Mapped' = Mapped /\ \A a \in Mapped : size'[a] = size[a]
  BY MergeUsed
<1>7. Uncounted' = 0 /\ Uncounted = 0
  <2>1. call.at # "split"
    BY DEF MergeStep, GrowStep, At
  <2>2. call'.at = call.at
    BY <1>1, <1>2 DEF Merging, Calls
  <2> QED
    BY <2>1, <2>2, NothingPending, NothingPendingNext
<1>8. PICK d \in Int : d = -1
  OBVIOUS
<1>9. CountBlocks(d) /\ UNCHANGED <<mmapedList, firstAlloc>>
  BY <1>2, <1>8 DEF Merging
<1>10. num_allocated_blocks + d + Uncounted' = Cardinality(live')
  BY <1>5, <1>7, <1>8, Numbers DEF GetInv
<1> QED
  BY <1>3, <1>5, <1>6, <1>9, <1>10, Tally

LEMMA SmallocMmapCounts ==
  ASSUME IInv, GetInv, SmallocMmap
  PROVE  GetInv'
<1>1. /\ HeapType /\ call \in Calls /\ call.n \in Nat /\ call.at # "split"
      /\ freeBlockListArray' = freeBlockListArray /\ firstAlloc' = firstAlloc
  BY StateFacts, TightFacts DEF SmallocMmap, SmallocReady, At, os
<1>2. PICK a \in MMAP_ADDRS :
        /\ Unused(a, call.n)
        /\ live' = live \cup {a}
        /\ size' = [size EXCEPT ![a] = call.n]
        /\ mmapedList' = FL!_addToList(mmapedList, a, call.n)
        /\ num_allocated_blocks' = num_allocated_blocks + 1
        /\ num_allocated_bytes' = num_allocated_bytes + call.n
        /\ SmallocReturns(a)
  BY DEF SmallocMmap
<1>3. a \in Headers /\ a \notin live /\ a \notin Mapped /\ Mapped' = Mapped \cup {a}
  BY <1>2 DEF Headers, Unused, Mapped
<1>4. PICK S \in Int, A \in Int, n \in Int, c \in Int, m \in Int, w \in Int :
        /\ S = SumFunctionOnSet(size, Mapped) /\ A = ArenaBytes
        /\ n = num_allocated_blocks /\ c = Cardinality(Mapped) /\ m = META /\ w = call.n
  <2>1. /\ SumFunctionOnSet(size, Mapped) \in Int /\ ArenaBytes \in Int
        /\ num_allocated_blocks \in Int /\ Cardinality(Mapped) \in Int
        /\ META \in Int /\ call.n \in Int
    BY <1>1, Numbers DEF GetInv
  <2> QED
    BY <2>1, Zenon
<1>5. SumFunctionOnSet(size', Mapped') = S + w /\ Cardinality(Mapped') = c + 1
  <2>1. /\ IsFiniteSet(Mapped) /\ a \notin Mapped
        /\ \A x \in Mapped : size[x] \in Int /\ size[x] = size'[x]
    BY <1>1, <1>2, <1>3, Numbers DEF GetInv, HeapType, Mapped
  <2>2. size'[a] = w
    BY <1>1, <1>2, <1>3, <1>4 DEF HeapType
  <2>3. SumFunctionOnSet(size', Mapped) = S
    BY <1>4, <2>1, SumSame
  <2>4. \A x \in Mapped \cup {a} : size'[x] \in Int
    BY <2>1, <2>2
  <2>5. SumFunctionOnSet(size', Mapped \cup {a}) = SumFunctionOnSet(size', Mapped) + size'[a]
    BY <2>1, <2>4, SumWith
  <2>6. Cardinality(Mapped \cup {a}) = c + 1
    BY <1>4, <2>1, FS_AddElement
  <2> QED
    BY <1>3, <2>2, <2>3, <2>5, <2>6
<1>6. MapsCounted'
  BY <1>2, <1>3, <1>4, <1>5 DEF GetInv, MapsCounted, FL!_addToList
<1>7. BytesCounted'
  <2>1. num_allocated_bytes = S + A - (n - c) * m /\ ArenaBytes' = A
    BY <1>1, <1>4 DEF GetInv, BytesCounted, ArenaBytes
  <2>2. (n + 1) - (c + 1) = n - c /\ (n - c) * m \in Int
    BY <1>4
  <2> QED
    BY <1>2, <1>4, <1>5, <2>1, <2>2 DEF BytesCounted
<1>8. (num_allocated_blocks + Uncounted = Cardinality(live))' /\ IsFiniteSet(live)'
  <2>1. IsFiniteSet(live') /\ Cardinality(live') = Cardinality(live) + 1
    BY <1>2, <1>3, FS_AddElement DEF GetInv
  <2>2. Uncounted = 0 /\ Uncounted' = 0
    BY <1>1, <1>2, SmallocReturnsMoves, NothingPending, NothingPendingNext
  <2>3. n + 0 = Cardinality(live)
    BY <1>4, <2>2 DEF GetInv
  <2> QED
    BY <1>2, <1>4, <2>1, <2>2, <2>3
<1>9. ListsCounted'
  BY <1>1, ListsStay DEF GetInv
<1> QED
  BY <1>6, <1>7, <1>8, <1>9 DEF GetInv

(* What sfree gives back to the kernel is a mapping, by its size. *)
LEMMA SfreeMunmapCounts ==
  ASSUME IInv, GetInv, SfreeMunmap
  PROVE  GetInv'
<1>1. /\ HeapType /\ HeapOK /\ CallOK /\ call \in Calls /\ call.at = "sfree"
      /\ freeBlockListArray' = freeBlockListArray /\ firstAlloc' = firstAlloc
  BY StateFacts DEF SfreeMunmap, SfreeReadable, At, os
<1>2. PICK b : b = call.blk
  OBVIOUS
<1>3. /\ SfreeReadable /\ ~is_free[b] /\ size[b] >= MAX_ORDER_BLOCK_SIZE
      /\ live' = live \ {b}
      /\ size' = [size EXCEPT ![b] = 0]
      /\ mmapedList' = FL!_removeFromList(mmapedList, b, size[b])
      /\ num_allocated_blocks' = num_allocated_blocks - 1
      /\ num_allocated_bytes' = num_allocated_bytes - size[b]
      /\ SfreeReturns
  BY <1>2 DEF SfreeMunmap
<1>4. b \in live /\ b \in Mapped /\ Mapped' = Mapped \ {b}
  <2>1. b # NULL /\ ~Unmapped(b)
    BY <1>2, <1>3 DEF SfreeReadable
  <2>2. b \in live
    BY <1>1, <1>2, <1>3, <2>1 DEF CallOK, SfreeOK, At, Known, Unmapped
  <2>3. b \notin Blocks
    <3>1. b \in Blocks => size[b] \in Nat /\ size[b] < MAX_ORDER_BLOCK_SIZE
      BY <1>1, BlockIsSmall DEF HeapOK, Tiling
    <3> QED
      BY <1>3, <3>1, DivisorType
  <2> QED
    BY <1>1, <1>3, <2>2, <2>3 DEF HeapType, Headers, Blocks, Mapped
<1>5. PICK S \in Int, A \in Int, n \in Int, c \in Int, m \in Int, w \in Int :
        /\ S = SumFunctionOnSet(size, Mapped) /\ A = ArenaBytes
        /\ n = num_allocated_blocks /\ c = Cardinality(Mapped) /\ m = META /\ w = size[b]
  <2>1. /\ SumFunctionOnSet(size, Mapped) \in Int /\ ArenaBytes \in Int
        /\ num_allocated_blocks \in Int /\ Cardinality(Mapped) \in Int
        /\ META \in Int /\ size[b] \in Int
    BY <1>4, Numbers DEF GetInv
  <2> QED
    BY <2>1, Zenon
<1>6. SumFunctionOnSet(size', Mapped') = S - w /\ Cardinality(Mapped') = c - 1
  <2>1. /\ IsFiniteSet(Mapped) /\ \A x \in Mapped : size[x] \in Int
    BY Numbers DEF GetInv
  <2>2. \A x \in Mapped \ {b} : size[x] \in Int /\ size[x] = size'[x]
    BY <1>1, <1>3, <2>1 DEF HeapType, Mapped
  <2>3. IsFiniteSet(Mapped \ {b}) /\ Cardinality(Mapped \ {b}) = c - 1
    BY <1>4, <1>5, <2>1, FS_RemoveElement
  <2>4. SumFunctionOnSet(size', Mapped \ {b}) = SumFunctionOnSet(size, Mapped \ {b})
    BY <2>2, <2>3, SumSame
  <2>5. SumFunctionOnSet(size, Mapped \ {b}) = SumFunctionOnSet(size, Mapped) - size[b]
    BY <1>4, <2>1, SumWithout
  <2> QED
    BY <1>4, <1>5, <2>3, <2>4, <2>5
<1>7. MapsCounted'
  BY <1>3, <1>4, <1>5, <1>6 DEF GetInv, MapsCounted, FL!_removeFromList
<1>8. BytesCounted'
  <2>1. num_allocated_bytes = S + A - (n - c) * m /\ ArenaBytes' = A
    BY <1>1, <1>5 DEF GetInv, BytesCounted, ArenaBytes
  <2>2. (n - 1) - (c - 1) = n - c /\ (n - c) * m \in Int
    BY <1>5
  <2> QED
    BY <1>3, <1>5, <1>6, <2>1, <2>2 DEF BytesCounted
<1>9. (num_allocated_blocks + Uncounted = Cardinality(live))' /\ IsFiniteSet(live)'
  <2>1. IsFiniteSet(live') /\ Cardinality(live') = Cardinality(live) - 1
    BY <1>3, <1>4, FS_RemoveElement DEF GetInv
  <2>2. Uncounted = 0 /\ Uncounted' = 0
    <3>1. call'.at = "idle"
      BY <1>1, <1>3, AnswerMoves DEF SfreeReturns, Fail
    <3> QED
      BY <1>1, <3>1, NothingPending, NothingPendingNext
  <2>3. n + 0 = Cardinality(live)
    BY <1>5, <2>2 DEF GetInv
  <2> QED
    BY <1>3, <1>5, <2>1, <2>2, <2>3
<1>10. ListsCounted'
  BY <1>1, ListsStay DEF GetInv
<1> QED
  BY <1>7, <1>8, <1>9, <1>10 DEF GetInv

LEMMA TopBlocksCount ==
  ASSUME NEW base \in Nat
  PROVE  /\ IsFiniteSet(TopBlocks(base))
         /\ Cardinality(TopBlocks(base)) = INITIAL_MALLOC_BLOCK_AMOUNT
<1>1. PICK M \in Nat \ {0} : M = MAX_ORDER_BLOCK_SIZE
  BY DivisorType
<1>2. PICK N \in Nat \ {0} : N = INITIAL_MALLOC_BLOCK_AMOUNT
  BY Malloc3Assumption
<1>3. TopBlocks(base) = {base + i * M : i \in 0 .. N - 1}
  BY <1>1, <1>2 DEF TopBlocks
<1>4. PICK f : f = [i \in 0 .. N - 1 |-> base + i * M]
  OBVIOUS
<1>5. f \in Surjection(0 .. N - 1, TopBlocks(base))
  BY <1>3, <1>4 DEF Surjection
<1>6. ASSUME NEW i \in 0 .. N - 1, NEW j \in 0 .. N - 1, i < j
      PROVE  f[i] # f[j]
  <2>1. PICK d \in Nat : j = i + 1 + d
    <3>1. j - (i + 1) \in Nat /\ j = i + 1 + (j - (i + 1))
      BY <1>6
    <3> QED
      BY <3>1
  <2>2. i \in Nat /\ i * M \in Nat /\ d * M \in Nat
    BY <1>1
  <2>3. (i + 1 + d) * M = i * M + M + d * M
    BY <1>1, <2>2
  <2>4. f[i] = base + i * M /\ f[j] = base + j * M
    BY <1>4
  <2> QED
    BY <1>1, <2>1, <2>2, <2>3, <2>4
<1>7. IsInjective(f)
  <2> SUFFICES ASSUME NEW i \in DOMAIN f, NEW j \in DOMAIN f, f[i] = f[j]
               PROVE  i = j
    BY DEF IsInjective
  <2>1. i \in 0 .. N - 1 /\ j \in 0 .. N - 1
    BY <1>4
  <2>2. ~(i < j) /\ ~(j < i)
    BY <1>6, <2>1
  <2> QED
    BY <2>1, <2>2
<1>8. f \in Bijection(0 .. N - 1, TopBlocks(base))
  BY <1>5, <1>7 DEF Bijection, Injection, Surjection
<1>9. IsFiniteSet(0 .. N - 1) /\ Cardinality(0 .. N - 1) = N
  <2>1. PICK a \in Int, b \in Int : a = 0 /\ b = N - 1
    OBVIOUS
  <2>2. IsFiniteSet(a .. b) /\ Cardinality(a .. b) = IF a > b THEN 0 ELSE b - a + 1
    BY FS_Interval
  <2> QED
    BY <2>1, <2>2
<1>10. ExistsBijection(0 .. N - 1, TopBlocks(base))
  BY <1>8 DEF ExistsBijection
<1> QED
  BY <1>2, <1>9, <1>10, FS_Bijection

LEMMA FirstAllocatorCounts ==
  ASSUME IInv, GetInv, FirstAllocator
  PROVE  GetInv'
<1>1. HeapType /\ ArenaOK /\ brk \in 1 .. BRK_LIMIT /\ HeapOK
  BY StateFacts DEF BrkOK
<1>2. PICK base : base = brk + Gap
  OBVIOUS
<1>3. base \in Nat
  <2>1. brk \in Nat
    BY <1>1, Malloc3Assumption
  <2> QED
    BY <1>2, <2>1, GapAligns
<1>4. PICK tops : tops = TopBlocks(base)
  OBVIOUS
<1>5. PICK n \in Nat, m \in Nat, z \in Nat :
        n = INITIAL_MALLOC_BLOCK_AMOUNT /\ m = META /\ z = MAX_ORDER_BLOCK_SIZE
  <2>1. INITIAL_MALLOC_BLOCK_AMOUNT \in Nat /\ META \in Nat /\ MAX_ORDER_BLOCK_SIZE \in Nat
    BY Malloc3Assumption, OrdersType, DivisorType
  <2> QED
    BY <2>1, Zenon
<1>6. live = {} /\ live' = tops /\ Mapped = {} /\ Mapped' = {}
  <2>1. live = {} /\ Mapped' = {}
    BY FirstAllocatorBlocks
  <2> QED
    BY <1>2, <1>4, <2>1 DEF FirstAllocator, Mapped
<1>7. IsFiniteSet(tops) /\ Cardinality(tops) = n
  BY <1>3, <1>4, <1>5, TopBlocksCount
<1>8. PICK p \in Int : p = Payload(MAX_ORDER) /\ p = z - m
  BY <1>5, DivisorType DEF Payload
<1>9. Uncounted = 0 /\ Uncounted' = 0
  <2>1. call' = call /\ call.at # "split"
    BY FirstAllocatorBlocks
  <2> QED
    BY <2>1, NothingPending, NothingPendingNext
<1>10. num_allocated_blocks = 0 /\ num_allocated_bytes = 0
  <2>1. num_allocated_blocks = 0
    BY <1>6, <1>9, Numbers, FS_EmptySet DEF GetInv
  <2>2. SumFunctionOnSet(size, Mapped) = 0 /\ Cardinality(Mapped) = 0 /\ ArenaBytes = 0
    BY <1>6, SumOfNone, FS_EmptySet DEF FirstAllocator, ArenaBytes
  <2>3. (0 - 0) * m = 0
    BY <1>5
  <2> QED
    BY <1>5, <2>1, <2>2, <2>3 DEF GetInv, BytesCounted
<1>11. /\ num_allocated_blocks' = n /\ num_allocated_bytes' = n * p
       /\ firstAlloc' = FALSE /\ mmapedList' = mmapedList
       /\ freeBlockListArray' = [k \in Orders |-> IF k = MAX_ORDER THEN TopList
                                                             ELSE FL!EmptyList]
  BY <1>5, <1>8, <1>10 DEF FirstAllocator
<1>12. ListsCounted'
  <2>1. Counted(TopList, Payload(MAX_ORDER))
    BY <1>2, <1>4, <1>5, <1>7 DEF Counted, TopList
  <2>2. \A k \in Orders : Counted(FL!EmptyList, Payload(k))
    BY EmptyCounted DEF AllCounted
  <2> QED
    BY <1>11, <2>1, <2>2 DEF ListsCounted, AllCounted
<1>13. SumFunctionOnSet(size', Mapped') = 0 /\ SumFunctionOnSet(size, Mapped) = 0
  BY <1>6, SumOfNone
<1>14. MapsCounted'
  BY <1>6, <1>11, <1>13 DEF GetInv, MapsCounted
<1>15. BytesCounted'
  <2>1. ArenaBytes' = n * z
    BY <1>5, <1>11 DEF ArenaBytes, PROGRAM_BREAK_DIVISOR
  <2>2. Cardinality(Mapped') = 0
    BY <1>6, FS_EmptySet
  <2>3. n * p = 0 + n * z - (n - 0) * m
    BY <1>5, <1>8
  <2> QED
    BY <1>5, <1>11, <1>13, <2>1, <2>2, <2>3 DEF BytesCounted
<1>16. (num_allocated_blocks + Uncounted = Cardinality(live))' /\ IsFiniteSet(live)'
  BY <1>5, <1>6, <1>7, <1>9, <1>11
<1> QED
  BY <1>12, <1>14, <1>15, <1>16 DEF GetInv

LEMMA CountsNext ==
  ASSUME IInv, GetInv, [Next]_vars
  PROVE  GetInv'
<1>1. CASE Call \/ ForeignSbrk \/ SmallocReject \/ SmallocNone
         \/ SmallocMmapFails \/ ScallocKilled \/ SfreeNull \/ SfreeSegv
         \/ SfreeReleased \/ SfreeTriesMerge \/ MergeTop \/ SreallocReject
         \/ SreallocNull \/ SreallocSame \/ SreallocMoves \/ SreallocKilled
         \/ Halted \/ UNCHANGED vars
  BY <1>1, UntouchedCounts
<1>2. CASE ClientWrites \/ ScallocMemset \/ SreallocMemmove
  BY <1>2, WritesCount
<1>3. CASE FirstAllocatorFails
  BY <1>3, FirstAllocatorFailsCounts
<1>4. CASE FirstAllocator
  BY <1>4, FirstAllocatorCounts
<1>5. CASE SmallocMmap
  BY <1>5, SmallocMmapCounts
<1>6. CASE SmallocTight
  BY <1>6, SmallocTightCounts
<1>7. CASE SmallocHigher
  BY <1>7, SmallocHigherCounts
<1>8. CASE SplitStep
  BY <1>8, SplitStepCounts
<1>9. CASE SplitReturn
  BY <1>9, SplitReturnCounts
<1>10. CASE SfreeMunmap
  BY <1>10, SfreeMunmapCounts
<1>11. CASE SfreeAlone \/ MergeStop
  BY <1>11, ReleaseCounts
<1>12. CASE MergeStep \/ GrowStep
  BY <1>12, MergeCounts
<1>13. CASE SreallocReuse \/ GrowReturn
  BY <1>13, ServesCounts
<1>14. CASE SreallocMerges
  BY <1>14, SreallocMergesCounts
<1> QED
  BY <1>1, <1>2, <1>3, <1>4, <1>5, <1>6, <1>7, <1>8, <1>9, <1>10, <1>11, <1>12,
     <1>13, <1>14 DEF Next, Step

----------------------------------------------------------------------------

(* What GetInv says is ListsExact, and the two totals, at every step.      *)
LEMMA CountsMeaning ==
  ASSUME IInv, GetInv
  PROVE  CountInv
<1>1. Listed /\ ListsExact
  BY StateFacts DEF GetInv, ListsCounted, AllCounted, Counted, MapsCounted, ListsExact, Listed
<1> QED
  BY <1>1 DEF GetInv, BytesCounted, ArenaBytes, CountInv

(* The two counters and all the lists' counters count what is there, at    *)
(* every step of every handler, but for the blocks that a split under way  *)
(* has made so far.                                                        *)
THEOREM CountersInvariant == Safety => []CountInv
<1>1. Init => GetInv
  BY InitCounts
<1>2. IInv /\ GetInv /\ [Next]_vars => GetInv'
  BY CountsNext
<1>3. IInv /\ GetInv => CountInv
  BY CountsMeaning
<1> QED
  BY <1>1, <1>2, <1>3, Invariance, PTL DEF Safety

(* Each list has exactly the free blocks of its order, and its counters,   *)
(* from which the getters add up their answers, agree with it; so does the *)
(* list of the mapped blocks.                                              *)
THEOREM ListCountersExact == Safety => []ListsExact
<1>1. CountInv => ListsExact
  BY DEF CountInv
<1> QED
  BY <1>1, CountersInvariant, PTL

----------------------------------------------------------------------------
(* The getters                                                             *)

OrderOf == [b \in Blocks |-> findTightOrder(size[b])]

LEMMA BlocksFinite ==
  ASSUME IInv, GetInv
  PROVE  /\ IsFiniteSet(Blocks) /\ IsFiniteSet(Mapped)
         /\ Cardinality(Blocks) \in Nat /\ Cardinality(Mapped) \in Nat
         /\ Cardinality(live) = Cardinality(Blocks) + Cardinality(Mapped)
<1>1. IsFiniteSet(Blocks) /\ IsFiniteSet(Mapped)
  BY FS_Subset DEF GetInv, Blocks, Mapped
<1>2. Blocks \cup Mapped = live /\ Blocks \cap Mapped = {}
  BY StateFacts, SlotsType DEF HeapType, Headers, Blocks, Mapped
<1>3. Cardinality(Blocks) \in Nat /\ Cardinality(Mapped) \in Nat
  BY <1>1, FS_CardinalityType
<1>4. Cardinality(Blocks \cup Mapped)
        = Cardinality(Blocks) + Cardinality(Mapped) - Cardinality(Blocks \cap Mapped)
  BY <1>1, FS_Union
<1> QED
  BY <1>1, <1>2, <1>3, <1>4, FS_EmptySet

(* A block is free or used, and of one order. *)
LEMMA FreeAndUsed ==
  ASSUME IInv, GetInv, NEW k \in Orders
  PROVE  /\ Cardinality(FreeBlocks(k)) \in Nat /\ Cardinality(UsedBlocks(k)) \in Nat
         /\ Cardinality(FreeBlocks(k)) + Cardinality(UsedBlocks(k))
              = Cardinality({b \in Blocks : OrderOf[b] = k})
<1>1. HeapType /\ HeapOK /\ IsFiniteSet(Blocks)
  BY StateFacts, BlocksFinite
<1>2. \A b \in Blocks : OrderOf[b] = k <=> size[b] = Payload(k)
  <2> SUFFICES ASSUME NEW b \in Blocks PROVE OrderOf[b] = k <=> size[b] = Payload(k)
    OBVIOUS
  <2>1. PICK j \in Orders : size[b] = Payload(j) /\ findTightOrder(size[b]) = j
    BY <1>1, BlockFacts DEF HeapOK, Tiling
  <2>2. Payload(j) = Payload(k) => j = k
    BY PayloadType
  <2> QED
    BY <2>1, <2>2 DEF OrderOf
<1>3. PICK F, U, C :
        F = FreeBlocks(k) /\ U = UsedBlocks(k) /\ C = {b \in Blocks : OrderOf[b] = k}
  OBVIOUS
<1>4. /\ F \cup U = C /\ F \cap U = {}
      /\ F \subseteq Blocks /\ U \subseteq Blocks
  BY <1>2, <1>3 DEF FreeBlocks, UsedBlocks
<1>5. IsFiniteSet(F) /\ IsFiniteSet(U)
  BY <1>1, <1>4, FS_Subset
<1>6. Cardinality(F) \in Nat /\ Cardinality(U) \in Nat
  BY <1>5, FS_CardinalityType
<1>7. Cardinality(F \cup U) = Cardinality(F) + Cardinality(U) - Cardinality(F \cap U)
  BY <1>5, FS_Union
<1>8. Cardinality(F) + Cardinality(U) = Cardinality(C)
  <2>1. Cardinality(F \cap U) = 0
    BY <1>4, FS_EmptySet
  <2>2. Cardinality(C) = Cardinality(F) + Cardinality(U) - 0
    BY <1>4, <1>7, <2>1
  <2> QED
    BY <1>6, <2>2
<1> QED
  BY <1>3, <1>6, <1>8

LEMMA OrdersFinite == IsFiniteSet(Orders)
<1>1. PICK a \in Int, b \in Int : a = 0 /\ b = MAX_ORDER
  BY GeometryAssumption
<1>2. IsFiniteSet(a .. b)
  BY FS_Interval
<1> QED
  BY <1>1, <1>2 DEF Orders

LEMMA ArenaHasBlocks ==
  ASSUME IInv
  PROVE  ~firstAlloc <=> live # {}
<1>1. HeapType /\ HeapOK /\ ArenaOK /\ Filled
  BY StateFacts DEF Tiling
<1>2. ASSUME ~firstAlloc PROVE arena \in ArenaSlots
  <2>1. arena \in Slots
    BY <1>1, <1>2 DEF ArenaOK
  <2>2. arena \in Nat \ {0} /\ PROGRAM_BREAK_DIVISOR \in Nat \ {0}
    BY <2>1, SlotsType, DivisorType
  <2>3. arena <= arena /\ arena < arena + PROGRAM_BREAK_DIVISOR
    BY <2>2
  <2> QED
    BY <2>1, <2>2, <2>3 DEF ArenaSlots, NULL
<1> QED
  BY <1>1, <1>2 DEF Filled, ArenaOK, Blocks

(* Between calls the five getters give what the tests demand of the blocks *)
(* that there are, whatever calls have been made.                          *)
THEOREM GettersExact == Safety => []CountersExact
<1>1. IInv /\ GetInv => CountersExact
  <2> SUFFICES ASSUME IInv, GetInv, Idle PROVE CountersExact
    BY DEF CountersExact
  <2> DEFINE free == [k \in Orders |-> Cardinality(FreeBlocks(k))]
             used == [k \in Orders |-> Cardinality(UsedBlocks(k))]
             both == [k \in Orders |-> free[k] + used[k]]
             big  == SumFunctionOnSet(size, Mapped)
             whole == [k \in Orders |-> free[k] * getOrderSize(k)]
  <2>1. HeapType /\ HeapOK /\ ArenaOK /\ Listed
    BY StateFacts
  <2>2. PICK a \in Nat, c \in Nat : a = Cardinality(Blocks) /\ c = Cardinality(Mapped)
    BY BlocksFinite
  <2>3. num_allocated_blocks = a + c
    <3>1. Uncounted = 0
      BY NothingPending DEF Idle, At
    <3>2. num_allocated_blocks \in Int
      BY <2>1 DEF HeapType
    <3> QED
      BY <2>2, <3>1, <3>2, BlocksFinite DEF GetInv
  <2>4. SumFunction(both) = a
    <3>1. \A b \in Blocks : OrderOf[b] \in Orders
      BY <2>1, BlockFacts DEF OrderOf, HeapOK, Tiling
    <3>2. \A k \in Orders : both[k] = Cardinality({b \in Blocks : OrderOf[b] = k})
      BY FreeAndUsed
    <3>3. IsFiniteSet(Blocks) /\ IsFiniteSet(Orders)
      BY BlocksFinite, OrdersFinite
    <3> HIDE DEF both
    <3>4. SumFunctionOnSet(both, Orders) = Cardinality(Blocks)
      <4>1. PICK part : part = [k \in Orders |-> {b \in Blocks : OrderOf[b] = k}]
        OBVIOUS
      <4>2. /\ \A k \in Orders : part[k] \subseteq Blocks /\ both[k] = Cardinality(part[k])
            /\ \A k \in Orders : \A b \in Blocks : b \in part[k] <=> OrderOf[b] = k
        BY <3>2, <4>1
      <4> QED
        BY <3>1, <3>3, <4>2, SumOfClasses
    <3>5. DOMAIN both = Orders
      BY DEF both
    <3> QED
      BY <2>2, <3>4, <3>5 DEF SumFunction
  <2>5. PICK m \in Nat, d \in Nat \ {0}, w \in Int :
          m = META /\ d = PROGRAM_BREAK_DIVISOR /\ w = big
    BY OrdersType, DivisorType, Numbers DEF GetInv
  <2>6. num_allocated_bytes = IF a + c = 0 THEN 0 ELSE w + d - a * m
    <3>1. num_allocated_bytes = w + ArenaBytes - (a + c - c) * m
      BY <2>2, <2>3, <2>5 DEF GetInv, BytesCounted
    <3>2. a + c - c = a
      BY <2>2
    <3>3. CASE a + c = 0
      <4>1. a = 0 /\ c = 0
        BY <2>2, <3>3
      <4>2. Blocks = {} /\ Mapped = {} /\ live = {}
        BY <2>1, <2>2, <4>1, BlocksFinite, FS_EmptySet DEF HeapType, Headers, Blocks, Mapped
      <4>3. w = 0 /\ ArenaBytes = 0
        BY <2>5, <4>2, SumOfNone, ArenaHasBlocks DEF ArenaBytes
      <4>4. 0 * m = 0
        BY <2>5
      <4> QED
        BY <3>1, <3>2, <3>3, <4>1, <4>3, <4>4
    <3>4. CASE a + c # 0
      <4>1. live # {}
        BY <2>2, <3>4, FS_EmptySet DEF Blocks, Mapped
      <4>2. ArenaBytes = d
        BY <2>5, <4>1, ArenaHasBlocks DEF ArenaBytes
      <4> QED
        BY <3>1, <3>2, <3>4, <4>2
    <3> QED
      BY <3>3, <3>4
  <2>7. \A k \in Orders : /\ freeBlockListArray[k].num_blocks = free[k]
                          /\ freeBlockListArray[k].num_bytes = free[k] * Payload(k)
                          /\ free[k] \in Nat
    BY <2>1, FreeAndUsed DEF GetInv, ListsCounted, AllCounted, Counted, Listed
  <2>8. _num_free_blocks = SumFunction(free)
    <3>1. [k \in Orders |-> freeBlockListArray[k].num_blocks] = free
      BY <2>7
    <3> QED
      BY <3>1 DEF _num_free_blocks
  <2>9. _num_free_bytes = SumFunction(whole) - SumFunction(free) * m
    <3> DEFINE bytes == [k \in Orders |-> freeBlockListArray[k].num_bytes]
    <3>1. PICK e \in Int : e = -m
      BY <2>5
    <3>2. \A k \in Orders : /\ whole[k] \in Int /\ free[k] \in Int
                            /\ bytes[k] = whole[k] + e * free[k]
      <4> SUFFICES ASSUME NEW k \in Orders
                   PROVE  /\ whole[k] \in Int /\ free[k] \in Int
                          /\ bytes[k] = whole[k] + e * free[k]
        OBVIOUS
      <4>1. PICK n \in Nat, s \in Nat : n = free[k] /\ s = getOrderSize(k)
        BY <2>7, OrderSizeType
      <4>2. bytes[k] = n * (s - m)
        BY <2>5, <2>7, <4>1 DEF Payload
      <4>3. n * (s - m) = n * s + e * n /\ n * s \in Int
        BY <2>5, <3>1, <4>1
      <4> QED
        BY <4>1, <4>2, <4>3
    <3> HIDE DEF bytes, whole, free
    <3>3. SumFunctionOnSet(bytes, Orders)
            = SumFunctionOnSet(whole, Orders) + e * SumFunctionOnSet(free, Orders)
      BY <3>2, OrdersFinite, SumLinear
    <3>4. DOMAIN bytes = Orders /\ DOMAIN whole = Orders /\ DOMAIN free = Orders
      BY DEF bytes, whole, free
    <3>5. SumFunctionOnSet(whole, Orders) \in Int /\ SumFunctionOnSet(free, Orders) \in Int
      BY <3>2, OrdersFinite, SumType
    <3>6. \A x, y \in Int : x + e * y = x - y * m
      BY <2>5, <3>1
    <3>7. _num_free_bytes = SumFunctionOnSet(bytes, Orders)
      BY <3>4 DEF _num_free_bytes, bytes, SumFunction
    <3> QED
      BY <3>3, <3>4, <3>5, <3>6, <3>7 DEF SumFunction
  <2>10. _num_meta_data_bytes = META * (a + c)
    BY <2>2, <2>3, <2>5 DEF _num_meta_data_bytes
  <2> HIDE DEF free, used, both, big, whole
  <2>11. CountersExact <=> verify_block_by_order(free, used, c, w)
    BY <2>2, <2>5 DEF CountersExact, free, used, big
  <2>12. [k \in Orders |-> free[k] + used[k]] = both
         /\ [k \in Orders |-> free[k] * getOrderSize(k)] = whole
    BY DEF both, whole
  <2> QED
    BY <2>3, <2>4, <2>5, <2>6, <2>8, <2>9, <2>10, <2>11, <2>12 DEF verify_block_by_order
<1>2. Safety => []GetInv
  BY InitCounts, CountsNext, Invariance, PTL DEF Safety
<1> QED
  BY <1>1, <1>2, Invariance, PTL
=============================================================================
