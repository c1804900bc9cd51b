--------------------------- MODULE MCMalloc3Links ---------------------------
(***************************************************************************)
(* Instances of Malloc3Links: the client leaves NULL where link fields are *)
(* to be, or bytes that are no pointer.  Units as in MCMalloc3.            *)
(***************************************************************************)
EXTENDS Malloc3Links

\* Payloads of three orders, at and next to their boundaries, and a size that
\* is mapped; 48 is the largest size allowed and 49 is refused.
CoreSizes == {5, 6, 7, 30, 32, 49}

\* The payloads of two orders, and a size that is mapped.
TopSizes == {6, 14, 16}

\* The client's bytes look like a block in use, or a free one of order 0.
Bytes == {[size |-> 0, is_free |-> FALSE], [size |-> ORDER_SIZE - META, is_free |-> TRUE]}

NullLinks    == {NULL}
GarbageLinks == {GARBAGE}
=============================================================================
