---------------------------- MODULE Malloc3Links ----------------------------
(***************************************************************************)
(* The allocator of malloc_3.cpp with the linked lists it really has: the  *)
(* heads and tails of freeBlockListArray and mmapedList, and the link      *)
(* fields of every header, which are memory like the size and is_free      *)
(* fields are.  smalloc takes the head of a list and sfree searches one    *)
(* link by link, where Malloc3 has a set of blocks, its lowest and its     *)
(* members; ImplementsSets says that it comes to the same.                 *)
(*                                                                         *)
(* splitBlock and _addToList do not write every link field of a new block, *)
(* so that what the client once wrote there is linked into a list.  A step *)
(* that follows such a word, which is no pointer, leads `astray`: the      *)
(* program's behaviour is undefined from there and not modelled.           *)
(***************************************************************************)
EXTENDS Malloc3

CONSTANT LINK_WORDS   \* bound: what the client's bytes read as, seen as links

GARBAGE == -2         \* a pointer that is not NULL and not to a header

ASSUME LinksAssumption == LINK_WORDS \subseteq {NULL, GARBAGE}

VARIABLES ends,         \* [list -> its head and tail]
          next, prev,   \* the link fields, by address
          current,      \* where the loop of _exists_in_list is, else NULL
          astray        \* ghost: a pointer was followed that is none

links == <<ends, next, prev>>
linkedVars == <<vars, links, current, astray>>

ML == INSTANCE MetadataLinks

mmaped == MAX_ORDER + 1          \* where mmapedList is in ends
Lists  == Orders \cup {mmaped}
NoEnds == [head |-> NULL, tail |-> NULL]

\* The lists and the link fields, in one record.
Links == [ends |-> ends, next |-> next, prev |-> prev]

\* What an operation of list k works on, and what it has made of it.
ListOf(m, k) == [head |-> m.ends[k].head, tail |-> m.ends[k].tail,
                 next |-> m.next, prev |-> m.prev]
Stored(m, k, s) == [ends |-> [m.ends EXCEPT ![k] = [head |-> s.head, tail |-> s.tail]],
                    next |-> s.next, prev |-> s.prev]

\* blocks are those of the list: the loop of _addToList stops at the first
\* of them above b.  (It reads only links between blocks of the list.)
AddTo(m, k, b, blocks) ==
  LET above == Min({a \in blocks : a > b})
  IN Stored(m, k, ML!_addToList(ListOf(m, k), b, above))
RemoveFrom(m, k, b) == Stored(m, k, ML!_removeFromList(ListOf(m, k), b))
PopFrom(m, k) == Stored(m, k, ML!_popHead(ListOf(m, k)))

\* _removeFromList(b) writes through b's prev, and through its next unless b
\* is at the tail alone; _popHead writes through the next of the head.
RemovalStrays(m, k, b) ==
  \/ m.prev[b] = GARBAGE
  \/ m.next[b] = GARBAGE /\ (b = m.ends[k].tail => b = m.ends[k].head)
PopStrays(m, k) == m.next[m.ends[k].head] = GARBAGE

\* Both link fields of b are set to NULL.
Unlink(m, b) ==
  [m EXCEPT !.next = ML!With(@, b, NULL), !.prev = ML!With(@, b, NULL)]

Become(m) == ends' = m.ends /\ next' = m.next /\ prev' = m.prev

OnList(k) == freeBlockListArray[k].blocks

----------------------------------------------------------------------------

LinkedInit ==
  /\ Init
  /\ ends = [k \in Lists |-> NoEnds]
  /\ next = [a \in Headers |-> NULL] /\ prev = [a \in Headers |-> NULL]
  /\ current = NULL /\ astray = FALSE

\* The client writes its bytes where link fields were, or will be.
ClientWritesLinks ==
  /\ At("idle")
  /\ \E b \in held \cap live : \E h \in Buried(b, size[b]), n, p \in LINK_WORDS :
       /\ next' = [next EXCEPT ![h] = n]
       /\ prev' = [prev EXCEPT ![h] = p]
  /\ UNCHANGED <<vars, ends>>

NoLists == [Links EXCEPT !.ends = [k \in Lists |-> IF k = mmaped THEN @[k] ELSE NoEnds]]

\* One turn of the loop of firstAllocator: a top block below the others.
JoinTop(m, b) == AddTo(Unlink(m, b), MAX_ORDER, b, {})

\* The top blocks are unlinked and added from the highest to the lowest.
TopsLinked ==
  LET top(i) == brk + Gap + (INITIAL_MALLOC_BLOCK_AMOUNT - i) * MAX_ORDER_BLOCK_SIZE
      Joined[i \in 0 .. INITIAL_MALLOC_BLOCK_AMOUNT] ==
        IF i = 0 THEN NoLists ELSE JoinTop(Joined[i - 1], top(i))
  IN Joined[INITIAL_MALLOC_BLOCK_AMOUNT]

LinkedMmap ==
  /\ SmallocMmap
  /\ \A a \in live' \ live :
       Become(AddTo(Unlink(Links, a), mmaped, a, mmapedList.blocks))

\* smalloc takes the head of list k, whatever it is.
LinkedPop(k) ==
  /\ PopHead(ends[k].head, k)
  /\ Become(PopFrom(Links, k)) /\ astray' = PopStrays(Links, k)
  /\ UNCHANGED <<mmapedList, counters, size, live, os>>

\* MUTANT: the loop over the orders stops below the highest.
HeadedBelowTop(from) == {k \in from .. MAX_ORDER - 1 : ends[k].head # NULL}

\* The orders from `from` up whose list has a head.
Headed(from) == {k \in from .. MAX_ORDER : ends[k].head # NULL}

LinkedTight ==
  /\ SmallocSearch /\ ends[Tight].head # NULL
  /\ LinkedPop(Tight)
  /\ SmallocReturns(ends[Tight].head)

LinkedHigher ==
  /\ SmallocSearch /\ ends[Tight].head = NULL /\ Headed(Tight) # {}
  /\ LET high == Min(Headed(Tight))
     IN /\ LinkedPop(high)
        /\ call' = [call EXCEPT !.at = "split", !.blk = ends[high].head,
                                !.high = high - 1, !.splits = high - Tight]
  /\ UNCHANGED client

LinkedNone ==
  /\ SmallocSearch /\ Headed(Tight) = {}
  /\ Fail
  /\ UNCHANGED <<heap, os, links>>

LinkedSplit ==
  /\ SplitStep
  /\ Become(AddTo(Unlink(Links, call.blk), call.high,
                call.blk + getOrderSize(call.high), OnList(call.high)))

LinkedMemset ==
  /\ ScallocMemset
  /\ LET Kept(h, v) == IF Covered(h, call.ret, call.n) THEN NULL ELSE v
     IN /\ next' = [h \in Headers |-> Kept(h, next[h])]
        /\ prev' = [h \in Headers |-> Kept(h, prev[h])]
  /\ UNCHANGED ends

LinkedMemmove ==
  /\ SreallocMemmove
  /\ LET From(h) == IF Covered(h, call.ret, size[call.old])
                    THEN h - call.ret + call.old ELSE h
     IN /\ next' = [h \in Headers |-> next[From(h)]]
        /\ prev' = [h \in Headers |-> prev[From(h)]]
  /\ UNCHANGED ends

LinkedMunmap ==
  /\ SfreeMunmap
  /\ Become(RemoveFrom(Links, mmaped, call.blk))
  /\ astray' = RemovalStrays(Links, mmaped, call.blk)

\* MarkFree(b): the block goes on the list of its order.
ListedFree(b) ==
  LET k == findTightOrder(size[b]) IN Become(AddTo(Links, k, b, OnList(k)))

\* MUTANT: only the buddy leaves its list before the merge.
MergedFromOne(b, buddy) ==
  LET k == findTightOrder(size[b])
  IN AddTo(RemoveFrom(Links, k, buddy), k + 1, Min({b, buddy}), OnList(k + 1))

\* mergeBlocks: the halves leave their list, the merged block joins the next.
Merged(b, buddy) ==
  LET k        == findTightOrder(size[b])
      bytes    == size[b] + size[buddy] + META
      up       == findTightOrder(bytes)
      without  == RemoveFrom(Links, k, buddy)
      unlisted == IF is_free[b] THEN RemoveFrom(without, k, b) ELSE without
  IN AddTo(unlisted, up, Min({b, buddy}), OnList(up))

\* One of the two removals of mergeBlocks strays.
MergeStrays(b, buddy) ==
  LET k == findTightOrder(size[b])
  IN \/ RemovalStrays(Links, k, buddy)
     \/ is_free[b] /\ RemovalStrays(RemoveFrom(Links, k, buddy), k, b)

LinkedMerge ==
  /\ MergeStep \/ GrowStep
  /\ LET b     == call.blk
         buddy == findBuddyAddress(b)
     IN Become(Merged(b, buddy)) /\ astray' = MergeStrays(b, buddy)

\* The loop of sfree stops, and _exists_in_list looks for the block.
Looking ==
  At("merge") /\ findTightOrder(size[call.blk]) < MAX_ORDER /\ ~CanMerge(call.blk)

\* The head of the list where it looks.
Searched == ends[findTightOrder(size[call.blk])].head

\* The block is found, or the list is at its end.
LookedAll == IF current = NULL THEN Searched = NULL
                               ELSE current = call.blk \/ next[current] = NULL

ExistsBegins ==
  /\ Looking /\ current = NULL /\ Searched # NULL
  /\ current' = Searched
  /\ UNCHANGED <<vars, links, astray>>

\* One turn of its loop; what is no header cannot be looked at.
ExistsWalks ==
  /\ Looking /\ current # NULL /\ ~LookedAll
  /\ current' = next[current] /\ astray' = (next[current] = GARBAGE)
  /\ UNCHANGED <<vars, links>>

\* MergeStop, by what the loop has found.
LinkedMergeStop ==
  /\ Looking /\ LookedAll
  /\ IF current = call.blk                        \* in the list already
     THEN /\ is_free' = [is_free EXCEPT ![call.blk] = TRUE]
          /\ UNCHANGED <<freeBlockListArray, links>>
     ELSE MarkFree(call.blk) /\ ListedFree(call.blk)
  /\ Break
  /\ current' = NULL
  /\ UNCHANGED <<mmapedList, counters, size, live, os, astray>>

\* TakeBack(b, k): a free block leaves its list.
ListedUsed(b, k) ==
  IF is_free[b] THEN Become(RemoveFrom(Links, k, b)) /\ astray' = RemovalStrays(Links, k, b)
                ELSE UNCHANGED <<links, astray>>

\* Steps that follow links: of the head that is popped, of blocks taken out.
FollowingStep ==
  \/ LinkedTight \/ LinkedHigher
  \/ LinkedMunmap
  \/ LinkedMerge
  \/ SreallocReuse /\ ListedUsed(call.old, findTightOrder(size[call.old]))
  \/ GrowReturn /\ ListedUsed(call.blk, Tight)

\* Steps that write links and follow none that a client could have written.
ListingStep ==
  \/ FirstAllocatorFails /\ Become(NoLists)
  \/ FirstAllocator /\ Become(TopsLinked)
  \/ LinkedMmap \/ LinkedNone \/ LinkedSplit \/ LinkedMemset \/ LinkedMemmove
  \/ SfreeAlone /\ ListedFree(call.blk)
  \/ SreallocMerges /\ IF is_free[call.old] THEN UNCHANGED links
                                            ELSE ListedFree(call.old)

\* The other steps touch no list.
OtherStep ==
  \/ SmallocReject \/ SmallocMmapFails \/ SplitReturn
  \/ ScallocKilled \/ SreallocKilled
  \/ SfreeNull \/ SfreeSegv \/ SfreeReleased \/ SfreeTriesMerge \/ MergeTop
  \/ SreallocReject \/ SreallocNull \/ SreallocSame \/ SreallocMoves

\* The steps of a call under way.
LinkedStep ==
  /\ ~astray
  /\ \/ ExistsBegins \/ ExistsWalks \/ LinkedMergeStop
     \/ /\ current = NULL /\ UNCHANGED current
        /\ \/ FollowingStep
           \/ ListingStep /\ UNCHANGED astray
           \/ OtherStep /\ UNCHANGED <<links, astray>>

\* What the client and the rest of the process do between calls.
LinkedClient ==
  /\ ~astray
  /\ \/ (Call \/ ClientWrites \/ ForeignSbrk \/ Halted) /\ UNCHANGED links
     \/ ClientWritesLinks
  /\ UNCHANGED <<current, astray>>

\* Nothing is said of a program that has gone astray.
Undefined == astray /\ UNCHANGED linkedVars

LinkedNext == LinkedStep \/ LinkedClient \/ Undefined

\* LinkedStep, as far as Malloc3 sees it: a turn of the loop that looks for a
\* block, or a step of the handler when that loop is over.
Running ==
  /\ ~astray
  /\ \/ ExistsBegins \/ ExistsWalks
     \/ Step /\ (Looking => LookedAll) /\ current' = NULL

\* The fairness is that of Malloc3: a handler under way goes on.
LinkedSpec ==
  LinkedInit /\ [][LinkedNext]_linkedVars /\ WF_<<vars, current>>(Running)

----------------------------------------------------------------------------
(* Properties                                                              *)

Pointers == {NULL} \cup Headers

\* What a link field of header h reads as where no list has written it: the
\* client's bytes in the arena, NULL in a mapping.
Words(h) == {NULL} \cup {w \in LINK_WORDS : h \in Slots}

\* The blocks Malloc3 takes each list for.
Blocklists == [k \in Lists |-> IF k = mmaped THEN mmapedList.blocks ELSE OnList(k)]

\* The list of s has the blocks of S in the order of their addresses, and is
\* linked both ways; the two fields that lead out of it can be any word.
IsLinked(s, S) ==
  /\ ML!First(S, s.head) /\ ML!Last(S, s.tail)
  /\ \A b \in S :
       /\ IF b = s.tail THEN s.next[b] \in Words(b) ELSE ML!Follows(S, b, s.next[b])
       /\ IF b = s.head THEN s.prev[b] \in Words(b) ELSE ML!Precedes(S, b, s.prev[b])

\* A header on no list: that of a block in use has NULL links (so that no
\* word of a client's enters a list with it), any other has any words.
Unlisted(h) ==
  /\ next[h] \in Words(h) /\ prev[h] \in Words(h)
  /\ h \in live => next[h] = NULL /\ prev[h] = NULL

\* At every step of every handler, whatever the clients write, each list of
\* the code, followed from its head or its tail, is the set of blocks Malloc3
\* takes it for, in the order of addresses; words of a client's are only
\* where a list ends.  Unless the code has followed one.
LinksAgree ==
  \/ astray
  \/ /\ \A k \in Lists : IsLinked(ListOf(Links, k), Blocklists[k])
     /\ \A h \in Headers : (\A k \in Lists : h \notin Blocklists[k]) => Unlisted(h)

\* The code with its pointers is the allocator whose lists are sets: what it
\* finds, refuses, lists and counts is what Malloc3 does, step by step, until
\* it follows a word of a client's.
ImplementsSets == Safety

\* malloc_3.cpp:199 "Searches for a free block": what smalloc would take
\* next from a list is a free block of that list's order, or NULL.
HeadIsFree ==
  \A k \in Orders : ends[k].head # NULL => ends[k].head \in FreeBlocks(k)
=============================================================================
