--------------------------- MODULE MCRecomputeHeap ---------------------------
(***************************************************************************)
(* Two nodes and the heights 0 .. 2 of a heap with MaxHeight 2, and one    *)
(* height more to reach when the limit is raised.                          *)
(***************************************************************************)
EXTENDS RecomputeHeap

MCHeights == -1 .. 3
MCNewMaxHeights == {2, 4}
=============================================================================
