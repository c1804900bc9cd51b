--------------------------- MODULE Malloc12Proofs ---------------------------
(***************************************************************************)
(* Proofs about Malloc2, the first-fit allocator, and Malloc1, the bump    *)
(* allocator.                                                              *)
(*                                                                         *)
(* The invariant of Malloc2 is BlockInv: the blocks lie one after another  *)
(* below the break, the list goes through all of them, and each place of a *)
(* call knows what the search has passed and which blocks are in transit   *)
(* between the client and the allocator.  All but one of the steps leave   *)
(* the blocks as they are; the one that makes a block makes it at the      *)
(* break, behind all the others.                                           *)
(***************************************************************************)
EXTENDS Malloc12, FiniteSums, TLAPS

Pointers == {NULL} \cup Headers
InUse == Blocks \ FreeBlocks

(* Headers are positive numbers: NULL is none of them. *)
LEMMA HeaderType ==
  /\ \A a \in Headers : a \in Nat /\ a # NULL
  /\ \A p \in Pointers : p \in Nat /\ (p # NULL => p \in Headers)
BY Malloc2Assumption DEF Headers, Pointers, NULL

LEMMA BlockType ==
  ASSUME TypeOK
  PROVE  /\ Blocks \subseteq Headers /\ FreeBlocks \subseteq Blocks
         /\ \A b \in Headers : size[b] \in Nat
         /\ \A b \in Blocks : b \in Nat /\ b # NULL /\ size[b] \in Nat /\ size[b] > 0
         /\ NULL \notin Blocks
         /\ call.n \in Nat
         /\ brk \in Nat /\ META \in Nat /\ META > 0
BY HeaderType, Malloc2Assumption DEF TypeOK, Blocks, FreeBlocks, Calls, Headers

(* What the client may ask for. *)
LEMMA AskedType == \A n \in SIZES \cup {0}, num \in NUMS \cup {1} :
                     (num * n) % SIZE_T_RANGE \in Nat
<1> SUFFICES ASSUME NEW n \in SIZES \cup {0}, NEW num \in NUMS \cup {1}
             PROVE  (num * n) % SIZE_T_RANGE \in Nat
  OBVIOUS
<1>1. n \in Nat /\ num \in Nat /\ SIZE_T_RANGE \in Nat \ {0}
  BY Malloc2Assumption
<1>2. PICK k \in Nat : k = num * n
  BY <1>1
<1> QED
  BY <1>1, <1>2

----------------------------------------------------------------------------
(* What holds at the start                                                 *)

LEMMA InitBlocks == Init => BlockInv
<1> SUFFICES ASSUME Init PROVE BlockInv
  OBVIOUS
<1>1. TypeOK
  BY Malloc2Assumption DEF Init, TypeOK, Headers, Empty, NoCall, Calls, NULL
<1>2. Blocks = {} /\ FreeBlocks = {}
  BY DEF Init, Blocks, FreeBlocks
<1>3. BlocksApart /\ ListComplete
  BY <1>2 DEF BlocksApart, ListComplete, Forward, Backward, First, Last, Init, Empty
<1>4. CallOK /\ OwnersOK /\ FirstFit
  BY <1>2 DEF CallOK, OwnersOK, InTransit, FirstFit, At, Init, NoCall
<1> QED
  BY <1>1, <1>3, <1>4 DEF BlockInv

----------------------------------------------------------------------------
(* What a call starts with, and what it ends with                          *)

LEMMA CallMakes ==
  ASSUME TypeOK, Call
  PROVE  /\ call' \in Calls /\ held' \subseteq Headers
         /\ call'.old \in {NULL} \cup Blocks
         /\ \/ call'.at = "smalloc" /\ call'.op \in {"smalloc", "scalloc"} /\ call'.old = NULL
            \/ call'.at = "srealloc" /\ call'.op = "srealloc"
            \/ call'.at = "sfree" /\ call'.op = "sfree"
         /\ held' = IF call'.at = "sfree" THEN held \ {call'.old} ELSE held
<1>1. PICK op \in {"smalloc", "scalloc", "srealloc", "sfree"}, p \in {NULL} \cup Blocks,
           n \in SIZES \cup {0}, num \in NUMS \cup {1} :
        /\ op \in {"smalloc", "scalloc"} => p = NULL
        /\ op = "sfree" => n = 0
        /\ op # "scalloc" => num = 1
        /\ call' = [NoCall EXCEPT
             !.op = op, !.old = p, !.n = (num * n) % SIZE_T_RANGE,
             !.at = IF op \in {"smalloc", "scalloc"} THEN "smalloc" ELSE op]
        /\ held' = IF op = "sfree" THEN held \ {p} ELSE held
  BY Zenon DEF Call
<1>2. PICK k \in Nat : k = (num * n) % SIZE_T_RANGE
  BY AskedType
<1>3. call' = [at |-> IF op \in {"smalloc", "scalloc"} THEN "smalloc" ELSE op, op |-> op,
               old |-> p, n |-> k, ret |-> NULL, current |-> NULL]
  BY <1>1, <1>2 DEF NoCall
<1>4. call' \in Calls
  BY <1>3, BlockType DEF Calls
<1> QED
  BY <1>1, <1>3, <1>4 DEF TypeOK

LEMMA AnswerMakes ==
  ASSUME TypeOK, NEW r \in Pointers, Answer(r)
  PROVE  /\ call' \in Calls
         /\ call'.at = "idle" /\ call'.ret = r
         /\ call'.op = call.op /\ call'.n = call.n
BY DEF TypeOK, Calls, Answer, NoCall, Pointers

LEMMA UseMakes ==
  ASSUME TypeOK, NEW b \in Headers, Use(b)
  PROVE  /\ is_free' \in [Headers -> BOOLEAN]
         /\ num_free_block' \in Int /\ num_free_bytes' \in Int
<1>1. size[b] \in Nat
  BY DEF TypeOK
<1> QED
  BY <1>1 DEF TypeOK, Use

----------------------------------------------------------------------------
(* The steps that make no block                                            *)

OldBlocksOnly ==
  \/ Call \/ ForeignSbrk \/ SmallocReject \/ SmallocStarts \/ SmallocSkips \/ SmallocTakes
  \/ SmallocRefused \/ SfreeNothing \/ SfreeBlock \/ SreallocReject \/ SreallocReuses
  \/ SreallocAllocates \/ SreallocMoves \/ UNCHANGED vars

LEMMA OldBlocksType == BlockInv /\ OldBlocksOnly => TypeOK'
<1> SUFFICES ASSUME BlockInv, OldBlocksOnly PROVE TypeOK'
  OBVIOUS
<1> TypeOK
  BY DEF BlockInv
<1> USE DEF TypeOK, headers, free_count, allocated, list, At
<1>1. CASE Call
  BY <1>1, CallMakes DEF Call
<1>2. CASE ForeignSbrk
  BY <1>2, Malloc2Assumption DEF ForeignSbrk
<1>3. CASE SmallocReject \/ SreallocReject
  BY <1>3 DEF SmallocReject, SreallocReject, Fail, Answer, NoCall, Calls
<1>4. CASE SmallocStarts
  BY <1>4 DEF SmallocStarts, Calls
<1>5. CASE SmallocSkips
  <2>1. call.current \in Headers
    BY <1>5 DEF SmallocSkips, Calls
  <2> QED
    BY <1>5, <2>1 DEF SmallocSkips, Calls, NextBlock
<1>6. CASE SmallocTakes
  <2>1. call.current \in Headers /\ size[call.current] \in Nat
    BY <1>6 DEF SmallocTakes, Calls
  <2>2. call' \in Calls /\ held' \subseteq Headers
    BY <1>6, <2>1 DEF SmallocTakes, SmallocReturns, Answer, Grant, NoCall, Calls
  <2>3. is_free' \in [Headers -> BOOLEAN] /\ num_free_block' \in Int /\ num_free_bytes' \in Int
    BY <1>6, <2>1, UseMakes DEF SmallocTakes
  <2> QED
    BY <1>6, <2>2, <2>3 DEF SmallocTakes
<1>7. CASE SmallocRefused
  <2>1. call' \in Calls /\ held' \subseteq Headers
    BY <1>7 DEF SmallocRefused, Answer, Refusal, NoCall, Calls
  <2>2. call.n \in Nat
    BY BlockType
  <2>3. refused' \in Nat
    BY <1>7, <2>2 DEF SmallocRefused
  <2> QED
    BY <1>7, <2>1, <2>2, <2>3 DEF SmallocRefused, CountNew
<1>8. CASE SfreeNothing \/ SfreeBlock
  <2>1. At("sfree") /\ call.op = "srealloc" => call.ret \in Blocks
    BY DEF BlockInv, CallOK, Moving
  <2>2. At("sfree") => call.op \in {"sfree", "srealloc"}
    BY DEF BlockInv, CallOK
  <2>3. call' \in Calls /\ held' \subseteq Headers
    <3>1. At("sfree") /\ SfreeReturns
      BY <1>8 DEF SfreeNothing, SfreeBlock
    <3>2. CASE call.op = "sfree"
      BY <3>1, <3>2, AnswerMakes DEF SfreeReturns, Fail, Pointers
    <3>3. CASE call.op = "srealloc"
      BY <2>1, <3>1, <3>3, AnswerMakes, BlockType DEF SfreeReturns, Grant, Pointers
    <3> QED
      BY <2>2, <3>1, <3>2, <3>3
  <2>4. CASE SfreeNothing
    BY <2>3, <2>4 DEF SfreeNothing
  <2>5. CASE SfreeBlock
    <3>1. call.old \in Headers /\ size[call.old] \in Nat
      BY <2>5 DEF SfreeBlock, Calls
    <3> QED
      BY <2>3, <2>5, <3>1 DEF SfreeBlock
  <2> QED
    BY <1>8, <2>4, <2>5
<1>9. CASE SreallocReuses
  <2>1. call.old \in Headers /\ size[call.old] \in Nat
    BY <1>9 DEF SreallocReuses, Calls
  <2>2. call' \in Calls /\ held' \subseteq Headers
    BY <1>9, <2>1 DEF SreallocReuses, Answer, Grant, NoCall, Calls
  <2>3. is_free' \in [Headers -> BOOLEAN] /\ num_free_block' \in Int /\ num_free_bytes' \in Int
    <3>1. CASE is_free[call.old]
      <4>1. Use(call.old)
        BY <1>9, <3>1, Zenon DEF SreallocReuses
      <4> QED
        BY <2>1, <4>1, UseMakes
    <3>2. CASE ~is_free[call.old]
      BY <1>9, <3>2 DEF SreallocReuses
    <3> QED
      BY <3>1, <3>2
  <2> QED
    BY <1>9, <2>2, <2>3 DEF SreallocReuses
<1>10. CASE SreallocAllocates
  BY <1>10 DEF SreallocAllocates, Goto, Calls
<1>11. CASE SreallocMoves
  BY <1>11 DEF SreallocMoves, Goto, Calls
<1>12. CASE UNCHANGED vars
  BY <1>12 DEF vars
<1> QED
  BY <1>1, <1>2, <1>3, <1>4, <1>5, <1>6, <1>7, <1>8, <1>9, <1>10, <1>11, <1>12 DEF OldBlocksOnly

LEMMA OldBlocksStay ==
  ASSUME BlockInv, OldBlocksOnly
  PROVE  /\ Blocks' = Blocks /\ size' = size /\ blockList' = blockList
         /\ BlocksApart' /\ ListComplete'
<1>1. size' = size /\ blockList' = blockList
  BY DEF OldBlocksOnly, Call, ForeignSbrk, SmallocReject, SmallocStarts, SmallocSkips, SmallocTakes,
     SmallocRefused, SfreeNothing, SfreeBlock, SreallocReject, SreallocReuses,
     SreallocAllocates, SreallocMoves, vars, headers, list
<1>2. brk' \in Nat /\ brk <= brk'
  <2>1. CASE ForeignSbrk
    BY <2>1, BlockType, Malloc2Assumption DEF ForeignSbrk, BlockInv
  <2>2. CASE ~ForeignSbrk
    <3>1. brk' = brk
      BY <2>2 DEF OldBlocksOnly, Call, SmallocReject, SmallocStarts, SmallocSkips, SmallocTakes,
         SmallocRefused, SfreeNothing, SfreeBlock, SreallocReject, SreallocReuses,
         SreallocAllocates, SreallocMoves, vars, list
    <3> QED
      BY <3>1, BlockType DEF BlockInv
  <2> QED
    BY <2>1, <2>2
<1>3. Blocks' = Blocks
  BY <1>1 DEF Blocks
<1>4. BlocksApart'
  <2>1. BlocksApart /\ \A b \in Blocks : b \in Nat /\ size[b] \in Nat
    BY BlockType DEF BlockInv
  <2>2. META \in Nat /\ brk \in Nat
    BY BlockType DEF BlockInv
  <2> QED
    BY <1>1, <1>2, <1>3, <2>1, <2>2 DEF BlocksApart
<1>5. ListComplete'
  BY <1>1, <1>3 DEF BlockInv, ListComplete
<1> QED
  BY <1>1, <1>3, <1>4, <1>5

----------------------------------------------------------------------------
(* The places of a call                                                    *)

Sure == CallOK /\ OwnersOK /\ FirstFit

(* As long as no flag changes the same blocks are free. *)
LEMMA SameFree ==
  ASSUME UNCHANGED <<size, is_free>>
  PROVE  Blocks' = Blocks /\ FreeBlocks' = FreeBlocks
BY DEF Blocks, FreeBlocks

LEMMA CallSure == BlockInv /\ Call => Sure'
<1> SUFFICES ASSUME BlockInv, Call PROVE Sure'
  OBVIOUS
<1>1. /\ Blocks' = Blocks /\ FreeBlocks' = FreeBlocks
      /\ size' = size /\ is_free' = is_free /\ At("idle")
  BY SameFree DEF Call, headers
<1>2. /\ call'.old \in {NULL} \cup Blocks
      /\ \/ call'.at = "smalloc" /\ call'.op \in {"smalloc", "scalloc"} /\ call'.old = NULL
         \/ call'.at = "srealloc" /\ call'.op = "srealloc"
         \/ call'.at = "sfree" /\ call'.op = "sfree"
      /\ held' = IF call'.at = "sfree" THEN held \ {call'.old} ELSE held
  BY CallMakes DEF BlockInv
<1>3. CallOK'
  BY <1>1, <1>2 DEF CallOK, At, Asking, Refitted
<1>4. OwnersOK'
  BY <1>1, <1>2 DEF BlockInv, OwnersOK, InTransit, At
<1>5. FirstFit'
  BY <1>2 DEF FirstFit, Idle, At
<1> QED
  BY <1>3, <1>4, <1>5 DEF Sure

LEMMA ForeignSbrkSure == BlockInv /\ ForeignSbrk => Sure'
<1> SUFFICES ASSUME BlockInv, ForeignSbrk PROVE Sure'
  OBVIOUS
<1>1. /\ Blocks' = Blocks /\ FreeBlocks' = FreeBlocks
      /\ size' = size /\ call' = call /\ held' = held
  BY SameFree DEF ForeignSbrk, headers
<1> QED
  BY <1>1 DEF BlockInv, Sure, CallOK, At, Asking, Refitted, Moving, NoneFits, OwnersOK,
     InTransit, FirstFit, Idle

LEMMA RejectSure == BlockInv /\ (SmallocReject \/ SreallocReject) => Sure'
<1> SUFFICES ASSUME BlockInv, SmallocReject \/ SreallocReject PROVE Sure'
  OBVIOUS
<1>1. /\ Blocks' = Blocks /\ FreeBlocks' = FreeBlocks /\ size' = size
      /\ At("smalloc") \/ At("srealloc")
      /\ ~Valid(call.n) /\ Answer(NULL) /\ held' = held
  BY SameFree DEF SmallocReject, SreallocReject, Fail, headers
<1>2. call'.at = "idle" /\ call'.n = call.n
  BY <1>1, AnswerMakes DEF BlockInv, Pointers
<1>3. held' = Blocks' \ FreeBlocks'
  BY <1>1 DEF BlockInv, OwnersOK, InTransit, At
<1> QED
  BY <1>1, <1>2, <1>3 DEF Sure, CallOK, At, OwnersOK, InTransit, FirstFit, Valid

LEMMA SmallocStartsSure == BlockInv /\ SmallocStarts => Sure'
<1> SUFFICES ASSUME BlockInv, SmallocStarts PROVE Sure'
  OBVIOUS
<1>1. /\ Blocks' = Blocks /\ FreeBlocks' = FreeBlocks /\ size' = size
      /\ At("smalloc") /\ Valid(call.n) /\ held' = held
      /\ call' = [call EXCEPT !.at = "search", !.current = blockList.head]
  BY SameFree DEF SmallocStarts, headers
<1>2. /\ call'.at = "search" /\ call'.current = blockList.head
      /\ call'.op = call.op /\ call'.old = call.old /\ call'.n = call.n
  BY <1>1 DEF BlockInv, TypeOK, Calls
<1>3. First(Blocks, blockList.head)
  BY DEF BlockInv, ListComplete, Forward
<1>4. call'.current \in {NULL} \cup Blocks
  BY <1>2, <1>3 DEF First
<1>5. (IF call'.current = NULL THEN Blocks ELSE {b \in Blocks : b < call'.current}) = {}
  BY <1>2, <1>3, BlockType DEF First, BlockInv
<1>6. CallOK'
  BY <1>1, <1>2, <1>4, <1>5 DEF BlockInv, CallOK, At, Asking, Refitted, NoneFits, Valid
<1>7. OwnersOK' /\ FirstFit'
  BY <1>1, <1>2 DEF BlockInv, OwnersOK, InTransit, At, FirstFit, Idle
<1> QED
  BY <1>6, <1>7 DEF Sure

LEMMA SmallocSkipsSure == BlockInv /\ SmallocSkips => Sure'
<1> SUFFICES ASSUME BlockInv, SmallocSkips PROVE Sure'
  OBVIOUS
<1>1. /\ Blocks' = Blocks /\ FreeBlocks' = FreeBlocks /\ size' = size
      /\ At("search") /\ call.current # NULL /\ ~Fits(call.current) /\ held' = held
      /\ call' = [call EXCEPT !.current = NextBlock(@)]
  BY SameFree DEF SmallocSkips, headers
<1>2. /\ call'.at = "search" /\ call'.current = blockList.next[call.current]
      /\ call'.op = call.op /\ call'.old = call.old /\ call'.n = call.n
  BY <1>1 DEF BlockInv, TypeOK, Calls, NextBlock, At
<1>3. /\ Asking /\ Valid(call.n) /\ call.current \in Blocks
      /\ NoneFits({b \in Blocks : b < call.current})
  BY <1>1 DEF BlockInv, CallOK
<1>4. Follows(Blocks, call.current, call'.current)
  BY <1>2, <1>3 DEF BlockInv, ListComplete, Forward
<1>5. call'.current \in {NULL} \cup Blocks
  BY <1>4 DEF Follows
<1>6. call.current \in FreeBlocks => size[call.current] < call.n
  BY <1>1, <1>3, BlockType DEF BlockInv, Fits, FreeBlocks
<1>7. \A b \in IF call'.current = NULL THEN Blocks ELSE {c \in Blocks : c < call'.current} :
        b \in Blocks /\ (b < call.current \/ b = call.current)
  BY <1>3, <1>4, BlockType DEF Follows, BlockInv
<1>8. NoneFits(IF call'.current = NULL THEN Blocks ELSE {c \in Blocks : c < call'.current})
  BY <1>3, <1>6, <1>7 DEF NoneFits
<1>9. CallOK'
  BY <1>1, <1>2, <1>3, <1>5, <1>8 DEF CallOK, At, Asking, Refitted, NoneFits, Valid
<1>10. OwnersOK' /\ FirstFit'
  BY <1>1, <1>2 DEF BlockInv, OwnersOK, InTransit, At, FirstFit, Idle
<1> QED
  BY <1>9, <1>10 DEF Sure

LEMMA SmallocRefusedSure == BlockInv /\ SmallocRefused => Sure'
<1> SUFFICES ASSUME BlockInv, SmallocRefused PROVE Sure'
  OBVIOUS
<1>1. /\ Blocks' = Blocks /\ FreeBlocks' = FreeBlocks /\ size' = size
      /\ At("search") /\ call.current = NULL /\ Answer(NULL) /\ held' = held
  BY SameFree DEF SmallocRefused, headers, Refusal
<1>2. call'.at = "idle" /\ call'.n = call.n /\ call'.ret = NULL
  BY <1>1, AnswerMakes DEF BlockInv, Pointers
<1>3. held' = Blocks' \ FreeBlocks'
  BY <1>1 DEF BlockInv, OwnersOK, InTransit, At
<1>4. NoneFits(Blocks)
  BY <1>1 DEF BlockInv, CallOK
<1>5. FirstFit'
  BY <1>1, <1>2, <1>4, BlockType DEF FirstFit, NoneFits, BlockInv
<1> QED
  BY <1>1, <1>2, <1>3, <1>5 DEF Sure, CallOK, At, OwnersOK, InTransit

LEMMA SreallocAllocatesSure == BlockInv /\ SreallocAllocates => Sure'
<1> SUFFICES ASSUME BlockInv, SreallocAllocates PROVE Sure'
  OBVIOUS
<1>1. /\ Blocks' = Blocks /\ FreeBlocks' = FreeBlocks /\ size' = size
      /\ At("srealloc") /\ held' = held
      /\ call.old # NULL => call.n > size[call.old]
      /\ call' = [call EXCEPT !.at = "smalloc"]
  BY SameFree DEF SreallocAllocates, headers, Goto
<1>2. /\ call'.at = "smalloc"
      /\ call'.op = call.op /\ call'.old = call.old /\ call'.n = call.n
  BY <1>1 DEF BlockInv, TypeOK, Calls
<1>3. call.op = "srealloc" /\ call.old \in {NULL} \cup Blocks
  BY <1>1 DEF BlockInv, CallOK
<1>4. call.old # NULL => size[call.old] < call.n
  BY <1>1, <1>3, BlockType DEF BlockInv
<1>5. CallOK'
  BY <1>1, <1>2, <1>3, <1>4 DEF CallOK, At, Asking, Refitted
<1>6. OwnersOK' /\ FirstFit'
  BY <1>1, <1>2 DEF BlockInv, OwnersOK, InTransit, At, FirstFit, Idle
<1> QED
  BY <1>5, <1>6 DEF Sure

LEMMA SreallocMovesSure == BlockInv /\ SreallocMoves => Sure'
<1> SUFFICES ASSUME BlockInv, SreallocMoves PROVE Sure'
  OBVIOUS
<1>1. /\ Blocks' = Blocks /\ FreeBlocks' = FreeBlocks /\ size' = size
      /\ At("memmove") /\ held' = held \ {call.old}
      /\ call' = [call EXCEPT !.at = "sfree"]
  BY SameFree DEF SreallocMoves, headers, Goto
<1>2. /\ call'.at = "sfree" /\ call'.op = call.op /\ call'.old = call.old
      /\ call'.n = call.n /\ call'.ret = call.ret
  BY <1>1 DEF BlockInv, TypeOK, Calls
<1>3. Moving
  BY <1>1 DEF BlockInv, CallOK
<1>4. CallOK'
  BY <1>1, <1>2, <1>3 DEF CallOK, At, Moving
<1>5. OwnersOK'
  BY <1>1, <1>2, <1>3 DEF BlockInv, OwnersOK, InTransit, At, Moving
<1>6. FirstFit'
  BY <1>2 DEF FirstFit, Idle, At
<1> QED
  BY <1>4, <1>5, <1>6 DEF Sure

(* What smalloc answers goes to the client, or on to be moved into. *)
LEMMA ReturnsSure ==
  ASSUME BlockInv, At("search"), TypeOK', NEW b,
         SmallocReturns(b), b \in Blocks' \ FreeBlocks', call.n <= size'[b],
         Blocks \subseteq Blocks', \A a \in Blocks : size'[a] = size[a],
         Blocks' \ FreeBlocks' = InUse \cup {b}, b \notin InUse,
         call.op = "srealloc" /\ call.old # NULL => b # call.old
  PROVE  Sure'
<1>1. Asking
  BY DEF BlockInv, CallOK
<1>2. held = InUse
  BY DEF BlockInv, OwnersOK, InTransit, At, InUse
<1>3. b \in Pointers
  BY DEF TypeOK, Blocks, Pointers
<1>4. CASE call.op = "srealloc" /\ call.old # NULL
  <2>1. call' = [call EXCEPT !.at = "memmove", !.ret = b] /\ held' = held
    BY <1>4 DEF SmallocReturns
  <2>2. /\ call'.at = "memmove" /\ call'.op = call.op /\ call'.old = call.old
        /\ call'.n = call.n /\ call'.ret = b
    BY <2>1 DEF BlockInv, TypeOK, Calls
  <2>3. call.old \in Blocks
    BY <1>1, <1>4 DEF Asking, Refitted
  <2>4. CallOK'
    BY <1>4, <2>2, <2>3 DEF CallOK, At, Moving
  <2>5. OwnersOK'
    BY <1>2, <2>1, <2>2 DEF OwnersOK, InTransit, At
  <2> QED
    BY <2>2, <2>4, <2>5 DEF Sure, FirstFit, Idle, At
<1>5. CASE ~(call.op = "srealloc" /\ call.old # NULL)
  <2>1. Answer(b) /\ held' = held \cup {b}
    BY <1>5 DEF SmallocReturns, Grant
  <2>2. call'.at = "idle" /\ call'.n = call.n /\ call'.ret = b
    BY <1>3, <2>1, AnswerMakes DEF BlockInv
  <2>3. b # NULL
    BY HeaderType DEF Blocks
  <2> QED
    BY <1>2, <2>1, <2>2, <2>3 DEF Sure, CallOK, At, OwnersOK, InTransit, FirstFit
<1> QED
  BY <1>4, <1>5

LEMMA SmallocTakesSure == BlockInv /\ SmallocTakes => Sure'
<1> SUFFICES ASSUME BlockInv, SmallocTakes PROVE Sure'
  OBVIOUS
<1> DEFINE b == call.current
<1>1. /\ At("search") /\ b # NULL /\ Fits(b) /\ SmallocReturns(b)
      /\ is_free' = [is_free EXCEPT ![b] = FALSE]
  BY DEF SmallocTakes, Use
<1>2. TypeOK' /\ Blocks' = Blocks /\ size' = size
  BY OldBlocksType, OldBlocksStay DEF OldBlocksOnly
<1>3. b \in Blocks /\ Asking
  BY <1>1 DEF BlockInv, CallOK
<1>4. b \in FreeBlocks /\ call.n <= size[b]
  BY <1>1, <1>3, BlockType DEF Fits, FreeBlocks, BlockInv
<1>5. FreeBlocks' = FreeBlocks \ {b}
  BY <1>1, <1>2, <1>3, BlockType DEF FreeBlocks, BlockInv, TypeOK
<1>6. Blocks' \ FreeBlocks' = InUse \cup {b}
  BY <1>2, <1>3, <1>5 DEF InUse
<1>7. call.op = "srealloc" /\ call.old # NULL => b # call.old
  BY <1>3, <1>4, BlockType DEF Asking, Refitted, BlockInv
<1> QED
  BY <1>1, <1>2, <1>3, <1>4, <1>5, <1>6, <1>7, ReturnsSure DEF InUse

(* sfree leaves the block free, whether or not it was. *)
LEMMA SfreeSure == BlockInv /\ (SfreeNothing \/ SfreeBlock) => Sure'
<1> SUFFICES ASSUME BlockInv, SfreeNothing \/ SfreeBlock PROVE Sure'
  OBVIOUS
<1>1. At("sfree") /\ SfreeReturns
  BY DEF SfreeNothing, SfreeBlock
<1>2. TypeOK' /\ Blocks' = Blocks /\ size' = size
  BY OldBlocksType, OldBlocksStay DEF OldBlocksOnly
<1>3. FreeBlocks' = FreeBlocks \cup ({call.old} \cap Blocks)
  <2>1. CASE SfreeNothing
    <3>1. FreeBlocks' = FreeBlocks
      BY <2>1, SameFree DEF SfreeNothing, headers
    <3>2. call.old \in Blocks => call.old \in FreeBlocks
      BY <2>1, BlockType DEF SfreeNothing, FreeBlocks, BlockInv
    <3> QED
      BY <3>1, <3>2
  <2>2. CASE SfreeBlock
    BY <1>2, <2>2, BlockType DEF SfreeBlock, FreeBlocks, BlockInv, TypeOK
  <2> QED
    BY <2>1, <2>2
<1>4. call.op \in {"sfree", "srealloc"}
  BY <1>1 DEF BlockInv, CallOK
<1>5. CASE call.op = "sfree"
  <2>1. Answer(NULL) /\ held' = held
    BY <1>1, <1>5 DEF SfreeReturns, Fail
  <2>2. call'.at = "idle" /\ call'.op = "sfree"
    BY <1>5, <2>1, AnswerMakes DEF BlockInv, Pointers
  <2>3. held = InUse \ {call.old}
    BY <1>1, <1>5 DEF BlockInv, OwnersOK, InTransit, At, InUse
  <2>4. held' = Blocks' \ FreeBlocks'
    BY <1>2, <1>3, <2>1, <2>3 DEF InUse
  <2> QED
    BY <2>2, <2>4 DEF Sure, CallOK, At, OwnersOK, InTransit, FirstFit
<1>6. CASE call.op = "srealloc"
  <2>1. Answer(call.ret) /\ held' = held \cup {call.ret}
    BY <1>1, <1>6 DEF SfreeReturns, Grant
  <2>2. Moving
    BY <1>1, <1>6 DEF BlockInv, CallOK
  <2>3. call.ret \in InUse /\ call.ret # call.old /\ call.old \in Blocks
        /\ call.n <= size[call.ret] /\ call.ret # NULL
    BY <2>2, BlockType DEF Moving, InUse, BlockInv
  <2>4. call'.at = "idle" /\ call'.n = call.n /\ call'.ret = call.ret
    BY <2>1, <2>3, AnswerMakes DEF BlockInv, Pointers, InUse, Blocks
  <2>5. held = InUse \ {call.old, call.ret}
    BY <1>1, <1>6 DEF BlockInv, OwnersOK, InTransit, At, InUse
  <2>6. held' = Blocks' \ FreeBlocks'
    BY <1>2, <1>3, <2>1, <2>3, <2>5 DEF InUse
  <2> QED
    BY <1>2, <2>3, <2>4, <2>6 DEF Sure, CallOK, At, OwnersOK, InTransit, FirstFit
<1> QED
  BY <1>4, <1>5, <1>6

LEMMA SreallocReusesSure == BlockInv /\ SreallocReuses => Sure'
<1> SUFFICES ASSUME BlockInv, SreallocReuses PROVE Sure'
  OBVIOUS
<1> DEFINE b == call.old
<1>1. /\ At("srealloc") /\ b # NULL /\ call.n <= size[b]
      /\ Answer(b) /\ held' = held \cup {b}
  BY DEF SreallocReuses, Grant
<1>2. TypeOK' /\ Blocks' = Blocks /\ size' = size
  BY OldBlocksType, OldBlocksStay DEF OldBlocksOnly
<1>3. b \in Blocks
  BY <1>1 DEF BlockInv, CallOK
<1>4. FreeBlocks' = FreeBlocks \ {b}
  <2>1. CASE is_free[b]
    BY <1>2, <1>3, <2>1, BlockType DEF SreallocReuses, Use, FreeBlocks, BlockInv, TypeOK
  <2>2. CASE ~is_free[b]
    BY <1>2, <2>2 DEF SreallocReuses, FreeBlocks
  <2> QED
    BY <2>1, <2>2
<1>5. held = InUse
  BY <1>1 DEF BlockInv, OwnersOK, InTransit, At, InUse
<1>6. held' = Blocks' \ FreeBlocks'
  BY <1>1, <1>2, <1>3, <1>4, <1>5 DEF InUse
<1>7. call'.at = "idle" /\ call'.n = call.n /\ call'.ret = b
  BY <1>1, <1>3, AnswerMakes DEF BlockInv, Pointers, Blocks
<1> QED
  BY <1>1, <1>2, <1>6, <1>7 DEF Sure, CallOK, At, OwnersOK, InTransit, FirstFit

----------------------------------------------------------------------------
(* The step that makes a block                                             *)

(* The break is behind all blocks: the new one is none of them. *)
LEMMA BreakIsNew ==
  ASSUME BlockInv
  PROVE  brk \notin Blocks /\ \A b \in Blocks : b < brk
<1>1. \A b \in Blocks : b < brk
  BY BlockType DEF BlockInv, BlocksApart
<1> QED
  BY <1>1, BlockType DEF BlockInv

(* _addToList puts it at the end of the list. *)
LEMMA ListAppends ==
  ASSUME BlockInv, brk \in Headers, List(brk)
  PROVE  /\ blockList' \in [head : Pointers, tail : Pointers,
                            next : [Headers -> Pointers], prev : [Headers -> Pointers]]
         /\ Forward(blockList', Blocks \cup {brk})
         /\ Backward(blockList', Blocks \cup {brk})
<1> DEFINE l == blockList
           d == Detach(l, brk)
           T == Blocks \cup {brk}
           above == Min({a \in Blocks : a > brk} \cup {brk})
<1>1. blockList' = _addToList(d, brk, above)
  BY DEF List
<1>2. /\ l.head \in Pointers /\ l.tail \in Pointers
      /\ l.next \in [Headers -> Pointers] /\ l.prev \in [Headers -> Pointers]
  BY DEF BlockInv, TypeOK, Pointers
<1>3. /\ First(Blocks, l.head) /\ Last(Blocks, l.tail)
      /\ \A b \in Blocks : Follows(Blocks, b, l.next[b])
      /\ \A b \in Blocks : Precedes(Blocks, b, l.prev[b])
  BY DEF BlockInv, ListComplete, Forward, Backward
<1>4. /\ \A b \in Blocks : b \in Nat /\ b < brk /\ b # NULL /\ b \in Headers
      /\ brk \in Nat /\ brk # NULL /\ brk \notin Blocks
  BY BreakIsNew, BlockType, HeaderType DEF BlockInv
<1>5. PICK n, p : n = With(l.next, brk, NULL) /\ p = With(l.prev, brk, NULL)
  OBVIOUS
<1>6. d = [head |-> l.head, tail |-> l.tail, next |-> n, prev |-> p]
  BY <1>5 DEF Detach
<1>7. /\ n \in [Headers -> Pointers] /\ p \in [Headers -> Pointers]
      /\ n[brk] = NULL /\ p[brk] = NULL
      /\ \A b \in Blocks : n[b] = l.next[b] /\ p[b] = l.prev[b]
  BY <1>2, <1>4, <1>5 DEF With, Pointers
<1> HIDE DEF d, above
<1>8. CASE l.head = NULL
  <2>1. Blocks = {}
    BY <1>3, <1>8 DEF First
  <2>2. blockList' = [head |-> brk, tail |-> brk, next |-> n, prev |-> p]
    BY <1>1, <1>6, <1>8 DEF _addToList, AddFirst
  <2>3. blockList'.head = brk /\ blockList'.tail = brk /\ blockList'.next = n /\ blockList'.prev = p
    BY <2>2
  <2>4. Forward(blockList', T) /\ Backward(blockList', T)
    BY <1>4, <1>7, <2>1, <2>3 DEF Forward, Backward, First, Last, Follows, Precedes
  <2> QED
    BY <1>7, <2>2, <2>4 DEF Pointers
<1>9. CASE l.head # NULL
  <2>1. l.head \in Blocks /\ \A b \in Blocks : l.head <= b
    BY <1>3, <1>9 DEF First
  <2>2. l.tail \in Blocks /\ \A b \in Blocks : b <= l.tail
    BY <1>3, <2>1 DEF Last
  <2>3. brk > l.tail /\ l.tail # brk
    BY <1>4, <2>2
  <2>4. PICK n2, p2 : n2 = With(n, l.tail, brk) /\ p2 = With(p, brk, l.tail)
    OBVIOUS
  <2>5. blockList' = [head |-> l.head, tail |-> brk, next |-> n2, prev |-> p2]
    BY <1>1, <1>6, <1>9, <2>3, <2>4 DEF _addToList, AddLast
  <2>6. /\ n2 \in [Headers -> Pointers] /\ p2 \in [Headers -> Pointers]
        /\ n2[l.tail] = brk /\ n2[brk] = NULL /\ p2[brk] = l.tail
        /\ \A b \in Blocks : b # l.tail => n2[b] = l.next[b]
        /\ \A b \in Blocks : p2[b] = l.prev[b]
    BY <1>4, <1>7, <2>2, <2>3, <2>4 DEF With, Pointers
  <2>7. blockList'.head = l.head /\ blockList'.tail = brk
        /\ blockList'.next = n2 /\ blockList'.prev = p2
    BY <2>5
  <2>8. First(T, l.head) /\ Last(T, brk)
    BY <1>4, <2>1 DEF First, Last
  <2>9. ASSUME NEW b \in T PROVE Follows(T, b, n2[b])
    <3>1. CASE b = brk
      BY <1>4, <2>6, <3>1 DEF Follows
    <3>2. CASE b = l.tail
      BY <1>4, <2>2, <2>6, <3>2 DEF Follows
    <3>3. CASE b \in Blocks /\ b # l.tail
      <4>1. n2[b] = l.next[b] /\ Follows(Blocks, b, l.next[b])
        BY <1>3, <2>6, <3>3
      <4>2. l.next[b] # NULL
        BY <1>4, <2>2, <3>3, <4>1 DEF Follows
      <4> QED
        BY <1>4, <3>3, <4>1, <4>2 DEF Follows
    <3> QED
      BY <3>1, <3>2, <3>3
  <2>10. ASSUME NEW b \in T PROVE Precedes(T, b, p2[b])
    <3>1. CASE b = brk
      <4>1. p2[b] = l.tail
        BY <2>6, <3>1
      <4>2. l.tail \in Blocks /\ l.tail < brk /\ l.tail # NULL /\ \A c \in Blocks : c <= l.tail
        BY <1>4, <2>2
      <4> QED
        BY <1>4, <3>1, <4>1, <4>2 DEF Precedes
    <3>2. CASE b \in Blocks
      <4>1. p2[b] = l.prev[b] /\ Precedes(Blocks, b, l.prev[b])
        BY <1>3, <2>6, <3>2
      <4> QED
        BY <1>4, <3>2, <4>1 DEF Precedes
    <3> QED
      BY <3>1, <3>2
  <2>11. Forward(blockList', T) /\ Backward(blockList', T)
    BY <2>7, <2>8, <2>9, <2>10 DEF Forward, Backward
  <2> QED
    BY <1>2, <2>5, <2>6, <2>11 DEF Pointers
<1> QED
  BY <1>8, <1>9

LEMMA SmallocExtendsKeeps == BlockInv /\ SmallocExtends => BlockInv'
<1> SUFFICES ASSUME BlockInv, SmallocExtends PROVE BlockInv'
  OBVIOUS
<1> DEFINE b == brk
           n == call.n
<1>1. /\ At("search") /\ call.current = NULL /\ b + Room <= BRK_LIMIT /\ brk' = b + Room
      /\ CountNew /\ List(b) /\ SmallocReturns(b)
      /\ size' = [size EXCEPT ![b] = n] /\ is_free' = [is_free EXCEPT ![b] = FALSE]
      /\ UNCHANGED <<num_free_block, num_free_bytes, refused>>
  BY DEF SmallocExtends, free_count
<1>2. /\ b \in Nat /\ b > 0 /\ n \in Nat /\ n > 0 /\ META \in Nat /\ META > 0
      /\ BRK_LIMIT \in Nat /\ b \in 1 .. BRK_LIMIT
  <2>1. Valid(n)
    BY <1>1 DEF BlockInv, CallOK
  <2> QED
    BY <2>1, BlockType, Malloc2Assumption DEF BlockInv, TypeOK, Valid
<1>3. brk' = b + n + META /\ brk' \in 1 .. BRK_LIMIT /\ b \in Headers
  <2>1. Room = n + META
    BY DEF Room
  <2> QED
    BY <1>1, <1>2, <2>1 DEF Headers
<1>4. b \notin Blocks /\ \A a \in Blocks : a < b
  BY BreakIsNew
<1>5. /\ size' \in [Headers -> Nat] /\ is_free' \in [Headers -> BOOLEAN]
      /\ size'[b] = n /\ ~is_free'[b]
      /\ \A a \in Headers : a # b => size'[a] = size[a] /\ is_free'[a] = is_free[a]
  BY <1>1, <1>2, <1>3 DEF BlockInv, TypeOK
<1>6. Blocks' = Blocks \cup {b} /\ FreeBlocks' = FreeBlocks
  <2>1. Blocks' = Blocks \cup {b}
    <3>1. \A a : a \in Blocks' <=> a \in Headers /\ size'[a] # 0
      BY DEF Blocks
    <3>2. \A a : a \in Blocks <=> a \in Headers /\ size[a] # 0
      BY DEF Blocks
    <3>3. \A a : a \in Blocks' <=> a \in Blocks \/ a = b
      <4>1. b \in Headers /\ size'[b] # 0
        BY <1>2, <1>3, <1>5
      <4>2. \A a \in Headers : a # b => size'[a] = size[a]
        BY <1>5
      <4> QED
        BY <3>1, <3>2, <4>1, <4>2, Zenon
    <3> QED
      BY <3>3, Zenon
  <2>2. \A a \in Blocks : a \in Headers /\ a # b
    BY <1>4, BlockType DEF BlockInv
  <2> QED
    BY <1>5, <2>1, <2>2 DEF FreeBlocks
<1>7. /\ \A a \in Blocks : a \in Nat /\ a \in Headers /\ size[a] \in Nat /\ size'[a] = size[a]
      /\ FreeBlocks \subseteq Blocks
  BY <1>4, <1>5, BlockType DEF BlockInv
<1>8. ListComplete'
  BY <1>1, <1>3, <1>6, ListAppends DEF ListComplete
<1>9. BlocksApart'
  <2>1. \A a \in Blocks' : a + size'[a] + META <= brk'
    <3>1. \A a \in Blocks : a + size[a] + META <= b
      BY DEF BlockInv, BlocksApart
    <3>2. b + size'[b] + META <= brk'
      BY <1>2, <1>3, <1>5
    <3>3. \A a \in Blocks : a + size'[a] + META <= brk'
      BY <1>2, <1>3, <1>7, <3>1
    <3> QED
      BY <1>6, <3>2, <3>3
  <2>2. ASSUME NEW a \in Blocks', NEW c \in Blocks', a < c
        PROVE  a + size'[a] + META <= c
    <3>1. CASE a = b
      BY <1>2, <1>4, <1>6, <1>7, <2>2, <3>1
    <3>2. CASE a \in Blocks /\ c = b
      BY <1>7, <3>2 DEF BlockInv, BlocksApart
    <3>3. CASE a \in Blocks /\ c \in Blocks
      BY <1>7, <2>2, <3>3 DEF BlockInv, BlocksApart
    <3> QED
      BY <1>6, <3>1, <3>2, <3>3
  <2> QED
    BY <2>1, <2>2 DEF BlocksApart
<1>10. TypeOK'
  <2>1. call' \in Calls /\ held' \subseteq Headers
    <3>1. CASE call.op = "srealloc" /\ call.old # NULL
      <4>1. call' = [call EXCEPT !.at = "memmove", !.ret = b] /\ held' = held
        BY <1>1, <3>1 DEF SmallocReturns
      <4> QED
        BY <1>3, <4>1 DEF BlockInv, TypeOK, Calls
    <3>2. CASE ~(call.op = "srealloc" /\ call.old # NULL)
      <4>1. Answer(b) /\ held' = held \cup {b}
        BY <1>1, <3>2 DEF SmallocReturns, Grant
      <4>2. call' \in Calls
        BY <1>3, <4>1, AnswerMakes DEF BlockInv, Pointers
      <4> QED
        BY <1>3, <4>1, <4>2 DEF BlockInv, TypeOK
    <3> QED
      BY <3>1, <3>2
  <2>2. blockList' \in [head : {NULL} \cup Headers, tail : {NULL} \cup Headers,
                        next : [Headers -> {NULL} \cup Headers],
                        prev : [Headers -> {NULL} \cup Headers]]
    BY <1>1, <1>3, ListAppends DEF Pointers
  <2>3. num_allocated_blocks' \in Int /\ num_allocated_bytes' \in Int
    BY <1>1, <1>2 DEF CountNew, BlockInv, TypeOK
  <2>4. num_free_block' \in Int /\ num_free_bytes' \in Int /\ refused' \in Nat
    BY <1>1 DEF BlockInv, TypeOK
  <2> QED
    BY <1>3, <1>5, <2>1, <2>2, <2>3, <2>4 DEF TypeOK
<1>11. Sure'
  <2>1. b \in Blocks' \ FreeBlocks' /\ n <= size'[b]
    BY <1>2, <1>4, <1>5, <1>6, <1>7
  <2>2. Blocks' \ FreeBlocks' = InUse \cup {b} /\ b \notin InUse
    BY <1>4, <1>6, <1>7 DEF InUse
  <2>3. Blocks \subseteq Blocks' /\ \A a \in Blocks : size'[a] = size[a]
    BY <1>6, <1>7
  <2>4. call.op = "srealloc" /\ call.old # NULL => b # call.old
    BY <1>1, <1>4 DEF BlockInv, CallOK, Asking, Refitted
  <2>5. SmallocReturns(b)
    BY <1>1
  <2> QED
    BY <1>1, <1>10, <2>1, <2>2, <2>3, <2>4, <2>5, ReturnsSure
<1> QED
  BY <1>8, <1>9, <1>10, <1>11 DEF BlockInv, Sure

----------------------------------------------------------------------------
(* The invariant, and what follows from it                                 *)

LEMMA NextKeepsBlocks == BlockInv /\ [Next]_vars => BlockInv'
<1> SUFFICES ASSUME BlockInv, [Next]_vars PROVE BlockInv'
  OBVIOUS
<1>1. CASE SmallocExtends
  BY <1>1, SmallocExtendsKeeps
<1>2. CASE ~SmallocExtends
  <2>1. OldBlocksOnly
    BY <1>2 DEF Next, Step, Bounded, OldBlocksOnly
  <2>2. TypeOK' /\ BlocksApart' /\ ListComplete'
    BY <2>1, OldBlocksType, OldBlocksStay
  <2>3. Sure'
    <3>1. CASE UNCHANGED vars
      BY <3>1 DEF BlockInv, vars, headers, Sure, CallOK, At, Asking, Refitted, Moving, NoneFits,
         OwnersOK, InTransit, FirstFit, Idle, Blocks, FreeBlocks
    <3>2. CASE ~UNCHANGED vars
      BY <2>1, <3>2, CallSure, ForeignSbrkSure, RejectSure, SmallocStartsSure, SmallocSkipsSure,
         SmallocTakesSure, SmallocRefusedSure, SfreeSure, SreallocReusesSure,
         SreallocAllocatesSure, SreallocMovesSure DEF OldBlocksOnly
    <3> QED
      BY <3>1, <3>2
  <2> QED
    BY <2>2, <2>3 DEF BlockInv, Sure
<1> QED
  BY <1>1, <1>2

(* For any sizes and any bounds: the blocks of malloc_2 lie one after      *)
(* another below the break, the list goes through all of them, the search  *)
(* has passed only blocks that do not fit, and the blocks in use are the   *)
(* client's but for the one or two a call carries between it and the       *)
(* allocator.                                                              *)
THEOREM BlocksInvariant == Spec => []BlockInv
<1>1. Init => BlockInv
  BY InitBlocks
<1>2. BlockInv /\ [Next]_vars => BlockInv'
  BY NextKeepsBlocks
<1> QED
  BY <1>1, <1>2, PTL DEF Spec

(* The variables keep their kinds. *)
THEOREM FirstFitTypes == Spec => []TypeOK
<1>1. BlockInv => TypeOK
  BY DEF BlockInv
<1> QED
  BY <1>1, BlocksInvariant, PTL

(* No block of malloc_2 is ever lost to the search, and the list is in the *)
(* order of addresses both ways.                                           *)
THEOREM NoBlockLost == Spec => []ListComplete
<1>1. BlockInv => ListComplete
  BY DEF BlockInv
<1> QED
  BY <1>1, BlocksInvariant, PTL

(* smalloc of malloc_2 refuses a valid size only if no free block is large *)
(* enough, and never answers a block that is too small.                    *)
THEOREM FirstFitFound == Spec => []FirstFit
<1>1. BlockInv => FirstFit
  BY DEF BlockInv
<1> QED
  BY <1>1, BlocksInvariant, PTL

(* Between calls the blocks of malloc_2 in use are those the client owns.  *)
THEOREM NoLeakNoTheft2 == Spec => []HeldAreUsed
<1>1. BlockInv => HeldAreUsed
  BY DEF BlockInv, OwnersOK, InTransit, HeldAreUsed, Idle, At
<1> QED
  BY <1>1, BlocksInvariant, PTL

----------------------------------------------------------------------------
(* The counters                                                            *)

LEMMA BlocksFinite ==
  ASSUME TypeOK
  PROVE  /\ IsFiniteSet(Headers) /\ IsFiniteSet(Blocks) /\ IsFiniteSet(FreeBlocks)
         /\ \A b \in Headers : size[b] \in Int
<1>1. IsFiniteSet(Headers)
  BY FS_Interval, Malloc2Assumption DEF Headers
<1>2. Blocks \subseteq Headers /\ FreeBlocks \subseteq Headers
  BY DEF Blocks, FreeBlocks
<1> QED
  BY <1>1, <1>2, FS_Subset DEF TypeOK

(* A block that stops being free, and one that becomes free. *)
LEMMA FreeCountUse ==
  ASSUME TypeOK, FreeCountersExact, NEW b \in FreeBlocks,
         Use(b), size' = size, FreeBlocks' = FreeBlocks \ {b}
  PROVE  FreeCountersExact'
<1>1. IsFiniteSet(FreeBlocks) /\ \A a \in FreeBlocks : size[a] \in Int
  BY BlocksFinite DEF FreeBlocks, Blocks
<1>2. Cardinality(FreeBlocks \ {b}) = Cardinality(FreeBlocks) - 1
  BY <1>1, FS_RemoveElement
<1>3. SumFunctionOnSet(size, FreeBlocks \ {b}) = SumFunctionOnSet(size, FreeBlocks) - size[b]
  BY <1>1, SumWithout
<1>4. num_free_block' = num_free_block - 1 /\ num_free_bytes' = num_free_bytes - size[b]
  BY DEF Use
<1> QED
  BY <1>2, <1>3, <1>4 DEF FreeCountersExact, Bytes

LEMMA FreeCountFree ==
  ASSUME TypeOK, FreeCountersExact, NEW b \in Blocks \ FreeBlocks,
         num_free_block' = num_free_block + 1,
         num_free_bytes' = num_free_bytes + size[b],
         size' = size, FreeBlocks' = FreeBlocks \cup {b}
  PROVE  FreeCountersExact'
<1>1. IsFiniteSet(FreeBlocks) /\ b \notin FreeBlocks
      /\ \A a \in FreeBlocks \cup {b} : size[a] \in Int
  BY BlocksFinite DEF FreeBlocks, Blocks
<1>2. Cardinality(FreeBlocks \cup {b}) = Cardinality(FreeBlocks) + 1
  BY <1>1, FS_AddElement
<1>3. SumFunctionOnSet(size, FreeBlocks \cup {b}) = SumFunctionOnSet(size, FreeBlocks) + size[b]
  BY <1>1, SumWith
<1> QED
  BY <1>2, <1>3 DEF FreeCountersExact, Bytes

LEMMA FreeCountSame ==
  ASSUME FreeCountersExact, UNCHANGED <<num_free_block, num_free_bytes, size, is_free>>
  PROVE  FreeCountersExact'
<1>1. FreeBlocks' = FreeBlocks
  BY SameFree
<1> QED
  BY <1>1 DEF FreeCountersExact, Bytes

LEMMA NextKeepsFreeCount ==
  ASSUME BlockInv, FreeCountersExact, [Next]_vars
  PROVE  FreeCountersExact'
<1> TypeOK
  BY DEF BlockInv
<1>1. CASE SmallocTakes
  <2> DEFINE b == call.current
  <2>1. b \in Blocks /\ is_free[b] /\ Use(b) /\ size' = size
    BY <1>1 DEF SmallocTakes, BlockInv, CallOK, Fits
  <2>2. b \in FreeBlocks /\ FreeBlocks' = FreeBlocks \ {b}
    BY <2>1, BlockType DEF FreeBlocks, Blocks, Use, TypeOK
  <2> QED
    BY <2>1, <2>2, FreeCountUse
<1>2. CASE SfreeBlock
  <2> DEFINE b == call.old
  <2>1. /\ At("sfree") /\ b # NULL /\ ~is_free[b] /\ size' = size
        /\ is_free' = [is_free EXCEPT ![b] = TRUE]
        /\ num_free_block' = num_free_block + 1 /\ num_free_bytes' = num_free_bytes + size[b]
    BY <1>2 DEF SfreeBlock
  <2>2. b \in Blocks
    BY <2>1 DEF BlockInv, CallOK, Moving
  <2>3. b \in Blocks \ FreeBlocks /\ FreeBlocks' = FreeBlocks \cup {b}
    BY <2>1, <2>2, BlockType DEF FreeBlocks, Blocks, TypeOK
  <2> QED
    BY <2>1, <2>3, FreeCountFree
<1>3. CASE SreallocReuses /\ is_free[call.old]
  <2> DEFINE b == call.old
  <2>1. At("srealloc") /\ b # NULL /\ Use(b) /\ size' = size
    BY <1>3, Zenon DEF SreallocReuses
  <2>2. b \in Blocks
    BY <2>1 DEF BlockInv, CallOK
  <2>3. b \in FreeBlocks /\ FreeBlocks' = FreeBlocks \ {b}
    BY <1>3, <2>1, <2>2, BlockType DEF FreeBlocks, Blocks, Use, TypeOK
  <2> QED
    BY <2>1, <2>3, FreeCountUse
<1>4. CASE SmallocExtends
  <2>1. /\ brk + Room <= BRK_LIMIT
        /\ size' = [size EXCEPT ![brk] = call.n] /\ is_free' = [is_free EXCEPT ![brk] = FALSE]
        /\ UNCHANGED <<num_free_block, num_free_bytes>>
    BY <1>4 DEF SmallocExtends, free_count
  <2>2. FreeBlocks' = FreeBlocks /\ brk \notin FreeBlocks
    BY <2>1, BreakIsNew, BlockType DEF FreeBlocks, Blocks, TypeOK
  <2>3. \A b \in FreeBlocks : size[b] \in Int /\ size[b] = size'[b]
    BY <2>1, <2>2, BlocksFinite DEF FreeBlocks, Blocks, TypeOK
  <2>4. SumFunctionOnSet(size, FreeBlocks) = SumFunctionOnSet(size', FreeBlocks)
    BY <2>3, BlocksFinite, SumSame
  <2> QED
    BY <2>1, <2>2, <2>4 DEF FreeCountersExact, Bytes
<1>5. CASE ~(SmallocTakes \/ SfreeBlock \/ SmallocExtends \/ (SreallocReuses /\ is_free[call.old]))
  <2>1. UNCHANGED <<num_free_block, num_free_bytes, size, is_free>>
    BY <1>5 DEF Next, Step, Bounded, Call, ForeignSbrk, SmallocReject, SmallocStarts,
       SmallocSkips, SmallocRefused, SfreeNothing, SreallocReject, SreallocReuses,
       SreallocAllocates, SreallocMoves, headers, free_count, vars
  <2> QED
    BY <2>1, FreeCountSame
<1> QED
  BY <1>1, <1>2, <1>3, <1>4, <1>5

LEMMA InitCounts == Init => FreeCountersExact
<1> SUFFICES ASSUME Init PROVE FreeCountersExact
  OBVIOUS
<1>1. Blocks = {} /\ FreeBlocks = {}
  BY DEF Init, Blocks, FreeBlocks
<1>2. Cardinality({}) = 0 /\ SumFunctionOnSet(size, {}) = 0
  BY FS_EmptySet, SumOfNone
<1> QED
  BY <1>1, <1>2 DEF Init, FreeCountersExact, Bytes

(* The two free counters of malloc_2 are those of its free blocks, at every *)
(* step of every call: also when a block larger than was asked for is      *)
(* taken, and when srealloc takes back what was released.                  *)
THEOREM FreeCountersOf2 == Spec => []FreeCountersExact
<1>1. Init => FreeCountersExact
  BY InitCounts
<1>2. BlockInv /\ FreeCountersExact /\ [Next]_vars => FreeCountersExact'
  BY NextKeepsFreeCount
<1> QED
  BY <1>1, <1>2, BlocksInvariant, PTL DEF Spec

----------------------------------------------------------------------------
(* malloc_2 keeps the promise of Heap                                      *)

Owned == [p \in held |-> size[p] + META]

LEMMA RegionOf ==
  ASSUME BlockInv
  PROVE  /\ DOMAIN Owned = held
         /\ \A p \in Blocks : size[p] + META > 0
         /\ \A p, q \in Blocks :
              p # q => Regions!Apart(p, size[p] + META, q, size[q] + META)
<1>1. DOMAIN Owned = held
  BY DEF Owned
<1>2. \A p \in Blocks : size[p] + META > 0
  BY BlockType DEF BlockInv
<1>3. ASSUME NEW p \in Blocks, NEW q \in Blocks, p # q
      PROVE  Regions!Apart(p, size[p] + META, q, size[q] + META)
  <2>1. p \in Nat /\ q \in Nat /\ META \in Nat /\ size[p] \in Nat /\ size[q] \in Nat
    BY <1>3, BlockType DEF BlockInv
  <2>2. p < q => p + size[p] + META <= q
    BY <1>3 DEF BlockInv, BlocksApart
  <2>3. q < p => q + size[q] + META <= p
    BY <1>3 DEF BlockInv, BlocksApart
  <2> QED
    BY <1>3, <2>1, <2>2, <2>3 DEF Regions!Apart
<1> QED
  BY <1>1, <1>2, <1>3

(* The client gets a block that was none of its own. *)
LEMMA GrantGives ==
  ASSUME BlockInv, NEW b \in Blocks', b \notin held, held \subseteq Blocks,
         held' = held \cup {b}, Blocks \subseteq Blocks',
         \A p \in held : size'[p] = size[p],
         \A p \in Blocks' : size'[p] + META > 0,
         \A p, q \in Blocks' :
           p # q => Regions!Apart(p, size'[p] + META, q, size'[q] + META)
  PROVE  Regions!Next
<1>1. PICK f, g, m : f = Owned /\ g = Owned' /\ m = size'[b] + META
  OBVIOUS
<1>2. DOMAIN f = held /\ \A p \in held : f[p] = size[p] + META
  BY <1>1 DEF Owned
<1>3. g = [p \in held \cup {b} |-> size'[p] + META]
  BY <1>1 DEF Owned
<1>4. m > 0
  BY <1>1
<1>5. \A q \in held : Regions!Apart(b, m, q, f[q])
  <2> SUFFICES ASSUME NEW q \in held PROVE Regions!Apart(b, m, q, f[q])
    OBVIOUS
  <2>1. q \in Blocks' /\ q # b /\ f[q] = size'[q] + META
    BY <1>2
  <2> QED
    BY <1>1, <2>1
<1>6. g = [q \in held \cup {b} |-> IF q = b THEN m ELSE f[q]]
  BY <1>1, <1>2, <1>3
<1>7. b \in DOMAIN g /\ g[b] = m /\ b \notin DOMAIN f
  BY <1>1, <1>2, <1>3
<1>8. \E q \in DOMAIN g : /\ q \notin DOMAIN f /\ g[q] > 0
                          /\ \A r \in DOMAIN f : Regions!Apart(q, g[q], r, f[r])
                          /\ g = [r \in DOMAIN f \cup {q} |-> IF r = q THEN g[q] ELSE f[r]]
  BY <1>2, <1>4, <1>5, <1>6, <1>7
<1>9. \E q \in DOMAIN Owned' :
        /\ q \notin DOMAIN Owned /\ Owned'[q] > 0
        /\ \A r \in DOMAIN Owned : Regions!Apart(q, Owned'[q], r, Owned[r])
        /\ Owned' = [r \in DOMAIN Owned \cup {q} |-> IF r = q THEN Owned'[q] ELSE Owned[r]]
  BY <1>1, <1>8
<1> QED
  BY <1>9 DEF Regions!Next, Regions!Give, Regions!Fresh, Owned

(* It gives one back, or what was not its own. *)
LEMMA ReleaseTakesBack ==
  ASSUME BlockInv, NEW p, held' = held \ {p}, size' = size
  PROVE  Regions!Next \/ UNCHANGED Owned
<1>1. CASE p \in held
  <2>1. Owned' = [q \in held \ {p} |-> size[q] + META]
    BY DEF Owned
  <2>2. \A q \in held : Owned[q] = size[q] + META
    BY DEF Owned
  <2>3. DOMAIN Owned = held
    BY DEF Owned
  <2>4. Owned' = [q \in held \ {p} |-> Owned[q]]
    BY <2>1, <2>2
  <2>5. (DOMAIN Owned) \cap (DOMAIN Owned \ {p}) = held \ {p}
    BY <2>3
  <2>6. Regions!TakeBack(p)
    BY <2>3, <2>4, <2>5 DEF Regions!TakeBack, Regions!Restrict, Owned
  <2> QED
    BY <1>1, <2>3, <2>6 DEF Regions!Next, Owned
<1>2. CASE p \notin held
  BY <1>2 DEF Owned
<1> QED
  BY <1>1, <1>2

LEMMA SameHeld ==
  ASSUME UNCHANGED <<held, size>>
  PROVE  UNCHANGED Owned
BY DEF Owned

LEMMA StepImplementsHeap2 ==
  ASSUME BlockInv, BlockInv', [Next]_vars
  PROVE  Regions!Next \/ UNCHANGED Owned
<1>1. /\ \A p \in Blocks' : size'[p] + META > 0
      /\ \A p, q \in Blocks' :
           p # q => Regions!Apart(p, size'[p] + META, q, size'[q] + META)
  <2>1. TypeOK' /\ BlocksApart'
    BY DEF BlockInv
  <2>2. \A p \in Blocks' : p \in Nat /\ size'[p] \in Nat /\ size'[p] > 0
    <3>1. \A p : p \in Blocks' => p \in Headers /\ size'[p] # 0
      BY DEF Blocks
    <3>2. \A p \in Headers : size'[p] \in Nat
      BY <2>1 DEF TypeOK
    <3> QED
      BY <3>1, <3>2, HeaderType
  <2>3. META \in Nat /\ META > 0
    BY Malloc2Assumption
  <2>4. \A p, q \in Blocks' : p < q => p + size'[p] + META <= q
    BY <2>1 DEF BlocksApart
  <2>5. \A p \in Blocks' : size'[p] + META > 0
    BY <2>2, <2>3
  <2>6. ASSUME NEW p \in Blocks', NEW q \in Blocks', p # q
        PROVE  Regions!Apart(p, size'[p] + META, q, size'[q] + META)
    <3>1. p < q \/ q < p
      BY <2>2, <2>6
    <3> QED
      BY <2>2, <2>3, <2>4, <2>6, <3>1 DEF Regions!Apart
  <2> QED
    BY <2>5, <2>6
<1>2. held \subseteq Blocks /\ held \subseteq InUse
  BY DEF BlockInv, OwnersOK, InUse
<1>3. CASE SmallocExtends
  <2> DEFINE b == brk
  <2>1. size' = [size EXCEPT ![b] = call.n] /\ SmallocReturns(b)
    BY <1>3 DEF SmallocExtends
  <2>2. b \notin Blocks /\ \A p \in held : p \in Headers /\ p # b
    BY <1>2, BreakIsNew, BlockType DEF BlockInv
  <2>3. \A p \in held : size'[p] = size[p]
    BY <2>1, <2>2 DEF BlockInv, TypeOK
  <2>4. CASE held' = held
    BY <2>3, <2>4 DEF Owned
  <2>5. CASE held' = held \cup {b}
    <3>1. b \in Blocks'
      BY <2>5 DEF BlockInv, OwnersOK
    <3>2. Blocks \subseteq Blocks'
      <4>1. \A a \in Blocks : a \in Headers /\ size[a] # 0 /\ a # b
        BY <2>2 DEF Blocks
      <4>2. \A a \in Headers : a # b => size'[a] = size[a]
        BY <2>1 DEF BlockInv, TypeOK
      <4> QED
        BY <4>1, <4>2 DEF Blocks
    <3>3. Regions!Next
      BY <1>1, <1>2, <2>2, <2>3, <2>5, <3>1, <3>2, GrantGives
    <3> QED
      BY <3>3
  <2> QED
    BY <2>1, <2>4, <2>5 DEF SmallocReturns, Grant
<1>4. CASE ~SmallocExtends
  <2>1. OldBlocksOnly
    BY <1>4 DEF Next, Step, Bounded, OldBlocksOnly
  <2>2. size' = size /\ Blocks' = Blocks
    BY <2>1, OldBlocksStay
  <2>3. ASSUME NEW b \in Blocks, b \notin held, held' = held \cup {b}
        PROVE  Regions!Next
    BY <1>1, <1>2, <2>2, <2>3, GrantGives
  <2>4. CASE held' = held
    BY <2>2, <2>4, SameHeld
  <2>5. CASE Call
    <3>1. call'.at = "sfree" => held' = held \ {call'.old}
      BY <2>5, CallMakes DEF BlockInv
    <3>2. call'.at # "sfree" => held' = held
      BY <2>5, CallMakes DEF BlockInv
    <3> QED
      BY <2>2, <2>4, <3>1, <3>2, ReleaseTakesBack
  <2>6. CASE SreallocMoves
    BY <2>2, <2>6, ReleaseTakesBack DEF SreallocMoves
  <2>7. CASE SmallocTakes
    <3>1. At("search") /\ call.current # NULL /\ Fits(call.current) /\ SmallocReturns(call.current)
      BY <2>7 DEF SmallocTakes
    <3>2. call.current \in FreeBlocks
      BY <3>1 DEF BlockInv, CallOK, FreeBlocks, Fits
    <3>3. held' = held \/ held' = held \cup {call.current}
      BY <3>1 DEF SmallocReturns, Grant
    <3>4. call.current \in Blocks /\ call.current \notin held
      BY <1>2, <3>2 DEF InUse, FreeBlocks
    <3> QED
      BY <2>3, <2>4, <3>3, <3>4
  <2>8. CASE SfreeNothing \/ SfreeBlock
    <3>1. At("sfree") /\ SfreeReturns
      BY <2>8 DEF SfreeNothing, SfreeBlock
    <3>2. CASE call.op = "sfree"
      BY <2>4, <3>1, <3>2 DEF SfreeReturns, Fail
    <3>3. CASE call.op # "sfree"
      <4>1. held' = held \cup {call.ret}
        BY <3>1, <3>3 DEF SfreeReturns, Grant
      <4>2. call.ret \in Blocks /\ call.ret \notin held
        BY <3>1, <3>3 DEF BlockInv, CallOK, Moving, OwnersOK, InTransit, At
      <4> QED
        BY <2>3, <4>1, <4>2
    <3> QED
      BY <3>2, <3>3
  <2>9. CASE SreallocReuses
    <3>1. held' = held \cup {call.old} /\ call.old \in Blocks
      BY <2>9 DEF SreallocReuses, Grant, BlockInv, CallOK
    <3>2. CASE call.old \in held
      <4>1. held' = held
        BY <3>1, <3>2
      <4> QED
        BY <2>4, <4>1
    <3> QED
      BY <2>3, <3>1, <3>2
  <2>10. CASE ~(Call \/ SreallocMoves \/ SmallocTakes \/ SfreeNothing \/ SfreeBlock \/ SreallocReuses)
    <3>1. held' = held
      BY <2>1, <2>10 DEF OldBlocksOnly, ForeignSbrk, SmallocReject, SmallocStarts, SmallocSkips,
         SmallocRefused, SreallocReject, SreallocAllocates, Fail, vars
    <3> QED
      BY <2>4, <3>1
  <2> QED
    BY <2>5, <2>6, <2>7, <2>8, <2>9, <2>10
<1> QED
  BY <1>3, <1>4

(* For any sizes and any bounds, and whoever else moves the break: the     *)
(* regions the client of malloc_2 owns never share a byte, and they change *)
(* one at a time, as it asks.                                              *)
THEOREM FirstFitImplementsHeap == Spec => ImplementsHeap
<1>1. Init => Regions!Init
  BY DEF Init, Regions!Init
<1>2. BlockInv /\ BlockInv' /\ [Next]_vars => [Regions!Next]_Owned
  BY StepImplementsHeap2
<1>3. ImplementsHeap <=> Regions!Init /\ [][Regions!Next]_Owned
  BY DEF ImplementsHeap, Regions!Spec, Owned
<1> QED
  BY <1>1, <1>2, <1>3, BlocksInvariant, PTL DEF Spec

----------------------------------------------------------------------------
(* How long a call takes                                                   *)

(* The blocks the search has still to look at, from c on. *)
From(c) == {b \in Blocks : c # NULL /\ c <= b}

LEMMA FromCount ==
  ASSUME TypeOK
  PROVE  /\ Cardinality(Blocks) \in Nat
         /\ \A c : Cardinality(From(c)) \in Nat /\ Cardinality(From(c)) <= Cardinality(Blocks)
<1>1. IsFiniteSet(Blocks)
  BY BlocksFinite
<1>2. \A c : IsFiniteSet(From(c)) /\ Cardinality(From(c)) <= Cardinality(Blocks)
  <2> TAKE c
  <2>1. From(c) \in SUBSET Blocks
    BY DEF From
  <2> QED
    BY <1>1, <2>1, FS_Subset
<1> QED
  BY <1>1, <1>2, FS_CardinalityType

LEMMA SkipLeavesFewer ==
  ASSUME BlockInv, SmallocSkips
  PROVE  Cardinality(From(call'.current)) < Cardinality(From(call.current))
<1> DEFINE c == call.current
           d == call'.current
<1>1. c \in Blocks /\ d = blockList.next[c] /\ Follows(Blocks, c, d)
  BY DEF SmallocSkips, NextBlock, At, BlockInv, CallOK, TypeOK, Calls, ListComplete, Forward
<1>2. \A b \in Blocks : b \in Nat /\ b # NULL
  BY BlockType DEF BlockInv
<1>3. From(d) \subseteq From(c) /\ c \in From(c) /\ c \notin From(d)
  BY <1>1, <1>2 DEF From, Follows
<1>4. IsFiniteSet(From(c))
  <2>1. From(c) \in SUBSET Blocks /\ IsFiniteSet(Blocks)
    BY BlocksFinite DEF From, BlockInv
  <2> QED
    BY <2>1, FS_Subset
<1>5. Cardinality(From(d)) <= Cardinality(From(c)) /\ Cardinality(From(d)) # Cardinality(From(c))
  BY <1>3, <1>4, FS_Subset
<1>6. Cardinality(From(d)) \in Nat /\ Cardinality(From(c)) \in Nat
  BY FromCount DEF BlockInv
<1> QED
  BY <1>5, <1>6

(* For any sizes and any bounds: no call of malloc_2 takes more steps than *)
(* there are blocks, and five; the search of smalloc ends.                 *)
THEOREM SearchesShorten == Spec => CallsShorten
<1>1. BlockInv /\ [Next]_vars => [~Idle => 0 <= StepsLeft' /\ StepsLeft' < StepsLeft]_vars
  <2> SUFFICES ASSUME BlockInv, Next, ~Idle
               PROVE  0 <= StepsLeft' /\ StepsLeft' < StepsLeft
    OBVIOUS
  <2> DEFINE count == Cardinality(Blocks)
  <2>1. /\ count \in Nat
        /\ \A c : Cardinality(From(c)) \in Nat /\ Cardinality(From(c)) <= count
    BY FromCount DEF BlockInv
  <2>2. StepsLeft = CASE At("srealloc") -> 5 + count
                      [] At("smalloc") -> 4 + count
                      [] At("search") -> 3 + Cardinality(From(call.current))
                      [] At("memmove") -> 2
                      [] At("sfree") -> 1
                      [] OTHER -> 0
    BY DEF StepsLeft, From
  <2>3. (call'.at = "search" /\ Blocks' = Blocks
          => StepsLeft' = 3 + Cardinality(From(call'.current)))
        /\ (call'.at = "smalloc" /\ Blocks' = Blocks => StepsLeft' = 4 + count)
        /\ (call'.at = "memmove" => StepsLeft' = 2)
        /\ (call'.at = "sfree" => StepsLeft' = 1)
        /\ (call'.at = "idle" => StepsLeft' = 0)
    BY DEF StepsLeft, From, At
  <2> HIDE DEF count
  <2>4. CASE SmallocStarts \/ SreallocAllocates
    <3>1. Blocks' = Blocks
      BY <2>4, SameFree DEF SmallocStarts, SreallocAllocates, headers
    <3>2. CASE SmallocStarts
      <4>1. At("smalloc") /\ call'.at = "search"
        BY <3>2 DEF SmallocStarts, BlockInv, TypeOK, Calls
      <4> QED
        BY <2>1, <2>2, <2>3, <3>1, <4>1 DEF At
    <3>3. CASE SreallocAllocates
      <4>1. At("srealloc") /\ call'.at = "smalloc"
        BY <3>3 DEF SreallocAllocates, Goto, BlockInv, TypeOK, Calls
      <4> QED
        BY <2>1, <2>2, <2>3, <3>1, <4>1 DEF At
    <3> QED
      BY <2>4, <3>2, <3>3
  <2>5. CASE SmallocSkips
    <3>1. Blocks' = Blocks /\ At("search") /\ call'.at = "search"
      BY <2>5, SameFree DEF SmallocSkips, headers, BlockInv, TypeOK, Calls, At
    <3> QED
      BY <2>1, <2>2, <2>3, <2>5, <3>1, SkipLeavesFewer DEF At
  <2>6. CASE SmallocTakes \/ SmallocExtends \/ SmallocRefused
    <3>1. At("search") /\ call'.at \in {"memmove", "idle"}
      BY <2>6 DEF SmallocTakes, SmallocExtends, SmallocRefused, SmallocReturns, Answer, NoCall,
         BlockInv, TypeOK, Calls
    <3> QED
      BY <2>1, <2>2, <2>3, <3>1 DEF At
  <2>7. CASE SreallocMoves
    <3>1. At("memmove") /\ call'.at = "sfree"
      BY <2>7 DEF SreallocMoves, Goto, BlockInv, TypeOK, Calls
    <3> QED
      BY <2>2, <2>3, <3>1 DEF At
  <2>8. CASE SmallocReject \/ SfreeNothing \/ SfreeBlock \/ SreallocReject \/ SreallocReuses
    <3>1. call'.at = "idle"
      BY <2>8 DEF SmallocReject, SfreeNothing, SfreeBlock, SreallocReject, SreallocReuses,
         SfreeReturns, Fail, Answer, NoCall
    <3>2. At("smalloc") \/ At("sfree") \/ At("srealloc")
      BY <2>8 DEF SmallocReject, SfreeNothing, SfreeBlock, SreallocReject, SreallocReuses
    <3> QED
      BY <2>1, <2>2, <2>3, <3>1, <3>2 DEF At
  <2> QED
    BY <2>4, <2>5, <2>6, <2>7, <2>8 DEF Next, Step, Call, ForeignSbrk, Bounded, Idle
<1> QED
  BY <1>1, BlocksInvariant, PTL DEF Spec, CallsShorten

----------------------------------------------------------------------------
(* malloc_1                                                                *)

(* Every region ends below the break, so that the next one, which begins   *)
(* there, shares nothing with it.                                          *)
BumpInv ==
  /\ brk \in Nat
  /\ owned = [p \in DOMAIN owned |-> owned[p]]
  /\ \A p \in DOMAIN owned :
       p \in Nat /\ owned[p] \in Nat /\ owned[p] > 0 /\ p + owned[p] <= brk

LEMMA BumpStarts == Bump!Init => BumpInv /\ Bump!Regions!Init
BY Malloc2Assumption DEF Bump!Init, BumpInv, Bump!Regions!Init

LEMMA BumpSteps ==
  ASSUME BumpInv, [Bump!Next]_<<brk, owned, answer>>
  PROVE  BumpInv' /\ (Bump!Regions!Next \/ UNCHANGED owned)
<1>1. CASE Bump!Smalloc
  <2>1. PICK n \in SIZES : /\ Bump!Valid(n) /\ brk' = brk + n /\ answer' = Bump!OldBreak(n)
                           /\ owned' = [p \in DOMAIN owned \cup {answer'} |->
                                          IF p = answer' THEN n ELSE owned[p]]
    BY <1>1 DEF Bump!Smalloc
  <2>2. n \in Nat /\ n > 0 /\ answer' = brk
    BY <2>1, Malloc2Assumption DEF Bump!Valid, Bump!OldBreak
  <2>3. owned' = [p \in DOMAIN owned \cup {brk} |-> IF p = brk THEN n ELSE owned[p]]
    BY <2>1, <2>2
  <2>4. brk \notin DOMAIN owned
    BY DEF BumpInv
  <2>5. BumpInv'
    BY <2>1, <2>2, <2>3 DEF BumpInv
  <2>6. Bump!Regions!Fresh(brk, n, DOMAIN owned)
    BY DEF BumpInv, Bump!Regions!Fresh, Bump!Regions!Apart
  <2>7. Bump!Regions!Give(brk, n) /\ brk \in DOMAIN owned' /\ owned'[brk] = n
    BY <2>2, <2>3, <2>4, <2>6 DEF Bump!Regions!Give
  <2> QED
    BY <2>5, <2>7 DEF Bump!Regions!Next
<1>2. CASE Bump!ForeignSbrk
  BY <1>2, Malloc2Assumption DEF BumpInv, Bump!ForeignSbrk
<1>3. CASE Bump!SmallocRejects \/ Bump!SmallocRefused \/ UNCHANGED <<brk, owned, answer>>
  BY <1>3 DEF BumpInv, Bump!SmallocRejects, Bump!SmallocRefused
<1> QED
  BY <1>1, <1>2, <1>3 DEF Bump!Next

(* For any sizes, and whoever else moves the break: the regions the client *)
(* of malloc_1 owns never share a byte.                                    *)
THEOREM BumpRegions == Bump!Spec => BumpImplementsHeap
<1>1. Bump!Init => BumpInv /\ Bump!Regions!Init
  BY BumpStarts
<1>2. BumpInv /\ [Bump!Next]_<<brk, owned, answer>>
      => BumpInv' /\ [Bump!Regions!Next]_owned
  BY BumpSteps
<1>3. BumpImplementsHeap <=> Bump!Regions!Init /\ [][Bump!Regions!Next]_owned
  BY DEF BumpImplementsHeap, Bump!ImplementsHeap, Bump!Regions!Spec
<1> QED
  BY <1>1, <1>2, <1>3, PTL DEF Bump!Spec
=============================================================================
