---------------------------- MODULE MetadataList ----------------------------
(***************************************************************************)
(* struct MetadataList of malloc_3.cpp (35-154): a doubly linked list of   *)
(* blocks in the order of their addresses.  The two loops, of _addToList   *)
(* and of _exists_in_list, are steps, so that the list can be looked at    *)
(* while they walk; everything else is straight-line code, and one step.   *)
(*                                                                         *)
(* The caller keeps the contract that malloc_3.cpp keeps, but for a block  *)
(* that splitBlock has just made (see Malloc3Links): it adds no block that *)
(* is on the list, removes none that is not, and the links of the block it *)
(* adds are NULL.                                                          *)
(***************************************************************************)
EXTENDS MetadataLinks, FiniteSetsExt

CONSTANTS Addresses,   \* the headers
          SizeOf(_)    \* their size fields: none changes while it is listed

ASSUME ListAssumption ==
  /\ Addresses \subseteq Nat \ {0}
  /\ \A a \in Addresses : SizeOf(a) \in Nat

VARIABLES
  s,                     \* head, tail, and the links of the headers
  num_blocks, num_bytes, \* lines 38, 39
  at, arg, cur,          \* which loop runs, for which block, and `current`
  answer,                \* what the last operation with a result returned
  members                \* ghost: the blocks added and not removed since

counters == <<num_blocks, num_bytes>>
walk == <<at, arg, cur>>
vars == <<s, counters, walk, answer, members>>

Init ==
  /\ s = Empty(Addresses)
  /\ num_blocks = 0 /\ num_bytes = 0
  /\ at = "idle" /\ arg = NULL /\ cur = NULL
  /\ answer = NULL /\ members = {}

Idle == at = "idle"

\* MUTANT: num_blocks++ is missing.
CountBytes(b) ==
  /\ num_blocks' = num_blocks
  /\ num_bytes' = num_bytes + SizeOf(b)
  /\ members' = members \cup {b}

\* The lines of _addToList before its branches.
Count(b) ==
  /\ num_blocks' = num_blocks + 1
  /\ num_bytes' = num_bytes + SizeOf(b)
  /\ members' = members \cup {b}

Uncount(b) ==
  /\ num_blocks' = num_blocks - 1
  /\ num_bytes' = num_bytes - SizeOf(b)
  /\ members' = members \ {b}

\* The caller adds a block at one of the ends.
AddAtEnd ==
  /\ Idle
  /\ \E b \in Addresses \ members :
       /\ Count(b)
       /\ \/ s.head = NULL /\ s' = AddFirst(s, b)
          \/ s.head # NULL /\ b > s.tail /\ s' = AddLast(s, b)
          \/ s.head # NULL /\ ~(b > s.tail) /\ b < s.head /\ s' = AddFront(s, b)
  /\ UNCHANGED <<walk, answer>>

\* It adds one that belongs in between: the loop starts at the head.
AddBetween ==
  /\ Idle
  /\ \E b \in Addresses \ members :
       /\ Count(b)
       /\ s.head # NULL /\ ~(b > s.tail) /\ ~(b < s.head)
       /\ at' = "insert" /\ arg' = b /\ cur' = s.head
  /\ UNCHANGED <<s, answer>>

\* MUTANT: the loop does not move on.
WalkStays == UNCHANGED vars

\* MUTANT: behind the last block the loop starts again.
WalkRound ==
  /\ cur' = IF s.next[cur] = NULL THEN s.head ELSE s.next[cur]
  /\ UNCHANGED <<s, counters, at, arg, answer, members>>

\* current = current->next
WalkOn == cur' = s.next[cur] /\ UNCHANGED <<s, counters, at, arg, answer, members>>

WalkEnds == at' = "idle" /\ arg' = NULL /\ cur' = NULL

\* The test of the loop.
GoesHere == arg < cur

InsertWalk == at = "insert" /\ cur # NULL /\ ~GoesHere /\ WalkOn

\* The loop is over: the block is linked before `current`, or, had the loop
\* run past the last block, nowhere.
InsertEnds ==
  /\ at = "insert" /\ (cur = NULL \/ GoesHere)
  /\ s' = IF cur = NULL THEN s ELSE InsertBefore(s, arg, cur)
  /\ WalkEnds
  /\ UNCHANGED <<counters, answer, members>>

Remove ==
  /\ Idle
  /\ \E b \in members : Uncount(b) /\ s' = _removeFromList(s, b)
  /\ UNCHANGED <<walk, answer>>

Pop ==
  /\ Idle /\ s.head # NULL
  /\ Uncount(s.head)
  /\ answer' = s.head
  /\ s' = _popHead(s)
  /\ UNCHANGED walk

PopNone ==
  /\ Idle /\ s.head = NULL
  /\ answer' = NULL
  /\ UNCHANGED <<s, counters, walk, members>>

Exists ==
  /\ Idle
  /\ \E b \in Addresses : at' = "exists" /\ arg' = b /\ cur' = s.head
  /\ UNCHANGED <<s, counters, answer, members>>

ExistsWalk == at = "exists" /\ cur # NULL /\ cur # arg /\ WalkOn

ExistsEnds ==
  /\ at = "exists" /\ (cur = NULL \/ cur = arg)
  /\ answer' = cur
  /\ WalkEnds
  /\ UNCHANGED <<s, counters, members>>

Loop == InsertWalk \/ InsertEnds \/ ExistsWalk \/ ExistsEnds

Next == AddAtEnd \/ AddBetween \/ Remove \/ Pop \/ PopNone \/ Exists \/ Loop

\* A loop goes on until it ends; the caller need not call.
Spec == Init /\ [][Next]_vars /\ WF_vars(Loop)

----------------------------------------------------------------------------
(* Properties                                                              *)

Pointers == {NULL} \cup Addresses

\* Every link, and every pointer of the loops, is NULL or a header.
TypeOK ==
  /\ s \in [head : Pointers, tail : Pointers,
            next : [Addresses -> Pointers], prev : [Addresses -> Pointers]]
  /\ num_blocks \in Int /\ num_bytes \in Int
  /\ at \in {"idle", "insert", "exists"}
  /\ arg \in Pointers /\ cur \in Pointers /\ answer \in Pointers
  /\ members \subseteq Addresses

\* The blocks the links are to hold: the one being inserted is not there yet.
Linked == IF at = "insert" THEN members \ {arg} ELSE members

\* The links go through the blocks of the list in the order of addresses.
ForwardOK  == Forward(s, Linked)
BackwardOK == Backward(s, Linked)

\* A block that is on no list has NULL links: what the next _addToList takes
\* for granted.
Detached == \A b \in Addresses \ Linked : s.next[b] = NULL /\ s.prev[b] = NULL

\* The loops never miss: what they have passed is not what they look for.
WalkOK ==
  /\ at = "insert" =>
       /\ arg \in members /\ s.head < arg /\ arg < s.tail
       /\ s.head # NULL /\ cur \in Linked
       /\ \A c \in Linked : c < cur => c < arg
  /\ at = "exists" =>
       /\ arg \in Addresses
       /\ IF cur = NULL THEN arg \notin Linked
          ELSE cur \in Linked /\ \A c \in Linked : c < cur => c # arg

\* Forwards and backwards alike the list is its blocks, at every step; the
\* loops never miss; and what is off the list is detached.  (Inductive.)
LinksOK == ForwardOK /\ BackwardOK /\ Detached
ListInv == TypeOK /\ LinksOK /\ WalkOK

\* The list's own counters, which the getters sum up, are those of its blocks.
CountersMatch ==
  /\ num_blocks = Cardinality(members)
  /\ num_bytes = SumFunctionOnSet([b \in Addresses |-> SizeOf(b)], members)

\* The list is the FreeList that its callers take it for.
Promise == INSTANCE FreeListMachine WITH
  list <- [blocks |-> members, num_blocks |-> num_blocks, num_bytes |-> num_bytes]
KeepsPromise == Promise!Spec

\* What a loop has still to look at.
Ahead == {c \in Linked : cur # NULL /\ cur <= c}

\* No loop goes on for ever: each turn leaves it fewer blocks to look at.
WalkShortens == [][~Idle => Idle' \/ Cardinality(Ahead') < Cardinality(Ahead)]_vars

\* The loops end.
LoopsEnd == ~Idle ~> Idle
=============================================================================
