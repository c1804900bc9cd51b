---------------------------- MODULE MetadataLinks ----------------------------
(***************************************************************************)
(* What the operations of struct MetadataList (malloc_3.cpp 35-154) write  *)
(* into a list and into the link fields of the headers.  A state is a      *)
(* record s of the list's head and tail and of the fields next and prev of *)
(* every header, by address.                                               *)
(***************************************************************************)
EXTENDS Integers

NULL == 0

Empty(addresses) == [head |-> NULL, tail |-> NULL,
                     next |-> [a \in addresses |-> NULL],
                     prev |-> [a \in addresses |-> NULL]]

\* One field is written.  NULL is no address: a write that the code does
\* only if the pointer is not NULL is one at NULL here, and changes nothing.
\* So does one through a word that is no pointer: what the code then does is
\* undefined, and whoever leaves such words in links has to look out for it
\* (PopStrays and RemovalStrays of Malloc3Links).
With(field, a, v) == [x \in DOMAIN field |-> IF x = a THEN v ELSE field[x]]

\* The branches of _addToList.  The first writes no link of the block, the
\* next two only one: the other is what the block brought along.
AddFirst(s, b) == [s EXCEPT !.head = b, !.tail = b]

AddLast(s, b) ==
  [head |-> s.head, tail |-> b,
   next |-> With(s.next, s.tail, b), prev |-> With(s.prev, b, s.tail)]

AddFront(s, b) ==
  [head |-> b, tail |-> s.tail,
   next |-> With(s.next, b, s.head), prev |-> With(s.prev, s.head, b)]

\* MUTANT: the block before is not told.
InsertHalfLinked(s, b, current) ==
  [head |-> s.head, tail |-> s.tail,
   next |-> With(s.next, b, current),
   prev |-> With(With(s.prev, b, s.prev[current]), current, b)]

InsertBefore(s, b, current) ==
  [head |-> s.head, tail |-> s.tail,
   next |-> With(With(s.next, b, current), s.prev[current], b),
   prev |-> With(With(s.prev, b, s.prev[current]), current, b)]

\* MUTANT: the tail is left when the list gets empty.
PopKeepingTail(s) ==
  LET new == s.next[s.head]
  IN [head |-> new, tail |-> s.tail,
      next |-> With(s.next, s.head, NULL),
      prev |-> With(With(s.prev, new, NULL), s.head, NULL)]

\* MUTANT: the new head still points back.
PopLeavesPrev(s) ==
  LET new == s.next[s.head]
  IN [head |-> new,
      tail |-> IF new = NULL THEN NULL ELSE s.tail,
      next |-> With(s.next, s.head, NULL), prev |-> With(s.prev, s.head, NULL)]

\* _addToList; above is the first listed block above b, where its loop stops.
_addToList(s, b, above) ==
  IF s.head = NULL THEN AddFirst(s, b)
  ELSE IF b > s.tail THEN AddLast(s, b)
  ELSE IF b < s.head THEN AddFront(s, b)
  ELSE InsertBefore(s, b, above)

_popHead(s) ==
  LET new == s.next[s.head]
  IN [head |-> new,
      tail |-> IF new = NULL THEN NULL ELSE s.tail,
      next |-> With(s.next, s.head, NULL),
      prev |-> With(With(s.prev, new, NULL), s.head, NULL)]

\* The three stages of _removeFromList, each reading what the last one left.
LeaveHead(s, b) ==
  IF b # s.head THEN s
  ELSE [head |-> s.next[b], tail |-> s.tail,
        next |-> With(s.next, b, NULL), prev |-> With(s.prev, s.next[b], NULL)]

\* MUTANT: the block before still points to b.
LeaveTailLinked(s, b) ==
  [head |-> s.head, tail |-> s.prev[b], next |-> s.next, prev |-> With(s.prev, b, NULL)]

LeaveTail(s, b) ==
  [head |-> s.head, tail |-> s.prev[b],
   next |-> With(s.next, s.prev[b], NULL), prev |-> With(s.prev, b, NULL)]

LeaveMiddle(s, b) ==
  [head |-> s.head, tail |-> s.tail,
   next |-> With(s.next, s.prev[b], s.next[b]), prev |-> With(s.prev, s.next[b], s.prev[b])]

Detach(s, b) ==
  [head |-> s.head, tail |-> s.tail,
   next |-> With(s.next, b, NULL), prev |-> With(s.prev, b, NULL)]

_removeFromList(s, b) ==
  LET left == LeaveHead(s, b)
  IN Detach(IF b = left.tail THEN LeaveTail(left, b) ELSE LeaveMiddle(left, b), b)

----------------------------------------------------------------------------
(* What it means that the links of s are those of the blocks of S          *)

\* n is the block of S that follows b, or NULL.
Follows(S, b, n) ==
  IF n = NULL THEN \A c \in S : c <= b
  ELSE n \in S /\ b < n /\ \A c \in S : c <= b \/ n <= c

Precedes(S, b, p) ==
  IF p = NULL THEN \A c \in S : b <= c
  ELSE p \in S /\ p < b /\ \A c \in S : b <= c \/ c <= p

First(S, h) == IF h = NULL THEN S = {} ELSE h \in S /\ \A c \in S : h <= c
Last(S, t)  == IF t = NULL THEN S = {} ELSE t \in S /\ \A c \in S : c <= t

\* Forwards and backwards alike, the links go through the blocks of S in the
\* order of their addresses, skip none and visit no other.
Forward(s, S)  == First(S, s.head) /\ \A b \in S : Follows(S, b, s.next[b])
Backward(s, S) == Last(S, s.tail) /\ \A b \in S : Precedes(S, b, s.prev[b])
=============================================================================
