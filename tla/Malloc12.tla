------------------------------ MODULE Malloc12 ------------------------------
(***************************************************************************)
(* The first-fit and the bump allocator side by side: a process is linked  *)
(* with one of the two, and which one is chosen at the start.              *)
(***************************************************************************)
EXTENDS Malloc2

VARIABLES
  program,        \* 1 or 2
  owned, answer   \* of Malloc1, which shares the break with Malloc2

Bump == INSTANCE Malloc1

all == <<vars, program, owned, answer>>

Init12 == Init /\ Bump!Init /\ program \in {1, 2}

Next12 ==
  \/ program = 2 /\ Next /\ UNCHANGED <<program, owned, answer>>
  \/ /\ program = 1 /\ Bump!Next
     /\ UNCHANGED <<program, headers, free_count, allocated, blockList, held, call>>

Spec12 == Init12 /\ [][Next12]_all /\ WF_all(Step /\ UNCHANGED <<program, owned, answer>>)

\* malloc_1: the regions the client owns never overlap.
BumpImplementsHeap == Bump!ImplementsHeap
=============================================================================
