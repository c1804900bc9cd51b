-------------------------------- MODULE Heap --------------------------------
(***************************************************************************)
(* What any of the allocators promises its client, whatever its design:    *)
(* the client owns regions of memory, no two of them share a byte, and     *)
(* they change only one at a time, when the client asks.  A region is the  *)
(* block with its header, so that no block's payload is another's header.  *)
(***************************************************************************)
EXTENDS Integers, Functions

VARIABLE owned   \* [pointers the client owns -> bytes of their region]

Apart(p, m, q, n) == p + m <= q \/ q + n <= p

\* Region (p, m) shares no byte with the others the client owns.
Fresh(p, m, others) == \A q \in others : Apart(p, m, q, owned[q])

Init == owned = [p \in {} |-> 0]

Give(p, m) ==
  /\ p \notin DOMAIN owned /\ m > 0
  /\ Fresh(p, m, DOMAIN owned)
  /\ owned' = [q \in DOMAIN owned \cup {p} |-> IF q = p THEN m ELSE owned[q]]

TakeBack(p) == owned' = Restrict(owned, DOMAIN owned \ {p})

\* A region is resized in place, or becomes one elsewhere that may overlap
\* its old place and no other.
Replace(p, q, m) ==
  /\ m > 0 /\ q \notin DOMAIN owned \ {p}
  /\ Fresh(q, m, DOMAIN owned \ {p})
  /\ owned' = [r \in (DOMAIN owned \ {p}) \cup {q} |-> IF r = q THEN m ELSE owned[r]]

\* p, q and m range over what the step did, so that TLC can evaluate it.
Next ==
  \/ \E p \in DOMAIN owned : TakeBack(p)
  \/ \E q \in DOMAIN owned' : Give(q, owned'[q])
  \/ \E p \in DOMAIN owned, q \in DOMAIN owned' : Replace(p, q, owned'[q])

Spec == Init /\ [][Next]_owned
=============================================================================
