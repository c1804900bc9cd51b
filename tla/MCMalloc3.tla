----------------------------- MODULE MCMalloc3 -----------------------------
(***************************************************************************)
(* Instances of Malloc3 for TLC.  One unit of the model is 16 bytes of the *)
(* code: a block of order 0 has 8 units, 2 of them its header.             *)
(***************************************************************************)
EXTENDS Malloc3

\* The client's bytes look like a block in use, or a free one of order 0.
Bytes == {[size |-> 0, is_free |-> FALSE], [size |-> ORDER_SIZE - META, is_free |-> TRUE]}

(* The findings, each on the sizes that bring it about.                    *)

\* With one top block of 16 units: its payload is 14, and 16 is mapped, so
\* that 15 is the size of lines 219 and 471 that falls between the two.
HoleSizes == {15}

\* A payload of each order.
OrderSizes == {6, 14}

\* Two sizes that are mapped, so that one can shrink to the other.
MappedSizes == {16, 20}
=============================================================================
