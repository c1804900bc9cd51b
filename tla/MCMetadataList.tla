--------------------------- MODULE MCMetadataList ---------------------------
(***************************************************************************)
(* Five headers, of blocks of two sizes: a list of three has an inside     *)
(* block and places to insert before and after it.                         *)
(***************************************************************************)
EXTENDS MetadataList

Headers == {8, 16, 24, 32, 40}
SizesOf(a) == IF a % 16 = 0 THEN 6 ELSE 14
=============================================================================
