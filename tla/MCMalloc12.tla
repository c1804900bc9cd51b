--------------------------- MODULE MCMalloc12 ---------------------------
(***********************************************************************)
(* An instance of Malloc12 for TLC.                                    *)
(***********************************************************************)
EXTENDS Malloc12

\* Two sizes that are served, so that one fits the other's block, and one
\* that is refused.
Sizes == {1, 3, 5}
=========================================================================
