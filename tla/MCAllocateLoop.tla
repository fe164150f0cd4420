--------------------------- MODULE MCAllocateLoop ---------------------------
(***************************************************************************)
(* Model checking AllocateLoop: a range of ten IDs in blocks of three, so  *)
(* that one ID is left over, and one caller more than there are blocks.    *)
(***************************************************************************)
EXTENDS AllocateLoop, TLC
=============================================================================
