---------------------------- MODULE MCVectorMem -----------------------------
(***************************************************************************)
(* A vector whose client makes five elements of two kinds.                 *)
(***************************************************************************)
EXTENDS VectorMem
=============================================================================
