----------------------------- MODULE NodeHeights -----------------------------
(***************************************************************************)
(* Node.height, which both heaps of heights read and AdjustHeightsHeap     *)
(* changes.                                                                *)
(***************************************************************************)
CONSTANT Node      \* the nodes

VARIABLE height    \* height[n]: Node.height
=============================================================================
