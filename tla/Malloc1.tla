------------------------------ MODULE Malloc1 ------------------------------
(***************************************************************************)
(* The allocator of src/malloc_1.cpp: every smalloc moves the program      *)
(* break, and nothing is remembered.  Its calls are straight-line code     *)
(* with one system call in it: one step each.                              *)
(***************************************************************************)
EXTENDS Integers, Functions

CONSTANTS
  MAX_SMALLOC_SIZE, \* line 3
  START_BRKS,       \* where the program break may be before the first call
  BRK_LIMIT,        \* bound: the OS refuses to move the break beyond it
  FOREIGN_SBRK,     \* by how much other code of the process moves the break
  SIZES             \* bound: the sizes the client asks for

VARIABLES
  brk,     \* the program break
  owned,   \* ghost: what the client was given, [pointer -> bytes]
  answer   \* what the last call returned

NULL == 0

Init ==
  /\ brk \in START_BRKS
  /\ owned = [p \in {} |-> 0]
  /\ answer = NULL

Valid(n) == 0 < n /\ n <= MAX_SMALLOC_SIZE

SmallocRejects ==
  /\ \E n \in SIZES \cup {0} : ~Valid(n)
  /\ answer' = NULL
  /\ UNCHANGED <<brk, owned>>

\* MUTANT: the new break is answered in place of the old one.
NewBreak(n) == brk + n

\* sbrk returns the old break.
OldBreak(n) == brk

Smalloc ==
  \E n \in SIZES :
    /\ Valid(n) /\ brk + n <= BRK_LIMIT
    /\ brk' = brk + n
    /\ answer' = OldBreak(n)
    /\ owned' = [p \in DOMAIN owned \cup {answer'} |->
                   IF p = answer' THEN n ELSE owned[p]]

SmallocRefused ==
  /\ \E n \in SIZES : Valid(n)
  /\ answer' = NULL
  /\ UNCHANGED <<brk, owned>>

\* Other code of the process moves the break.
ForeignSbrk ==
  /\ \E d \in FOREIGN_SBRK : brk + d <= BRK_LIMIT /\ brk' = brk + d
  /\ UNCHANGED <<owned, answer>>

Next == SmallocRejects \/ Smalloc \/ SmallocRefused \/ ForeignSbrk

Spec == Init /\ [][Next]_<<brk, owned, answer>>

\* The regions the client owns never overlap, whoever else moves the break.
Regions == INSTANCE Heap
ImplementsHeap == Regions!Spec
=============================================================================
