--------------------------- MODULE FreeListMachine ---------------------------
(***************************************************************************)
(* The promise of FreeList as a state machine: what a MetadataList answers *)
(* its callers, one step per operation, whatever it is made of.            *)
(***************************************************************************)
EXTENDS FreeList

CONSTANTS Addresses, SizeOf(_)   \* the blocks, and what their size fields say
VARIABLES list, answer

NULL == 0

Init == list = EmptyList /\ answer = NULL

Add(b) ==
  /\ b \notin list.blocks
  /\ list' = _addToList(list, b, SizeOf(b))
  /\ UNCHANGED answer

Remove(b) ==
  /\ b \in list.blocks
  /\ list' = _removeFromList(list, b, SizeOf(b))
  /\ UNCHANGED answer

\* _popHead answers the lowest block and removes it, or NULL.
Pop ==
  /\ ~isEmpty(list)
  /\ answer' = Head(list)
  /\ list' = _removeFromList(list, answer', SizeOf(answer'))

PopNone == isEmpty(list) /\ answer' = NULL /\ UNCHANGED list

\* _exists_in_list answers the block if it is there.
Exists(b) ==
  /\ answer' = IF b \in list.blocks THEN b ELSE NULL
  /\ UNCHANGED list

Next ==
  \/ \E b \in Addresses : Add(b) \/ Remove(b) \/ Exists(b)
  \/ Pop \/ PopNone

Spec == Init /\ [][Next]_<<list, answer>>
=============================================================================
