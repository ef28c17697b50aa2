--------------------------- MODULE MCAdjustHeights ---------------------------
(***************************************************************************)
(* Every graph of a few nodes, with every new edge that makes heights      *)
(* wrong, under a limit that some calls exceed.                            *)
(*                                                                         *)
(* A node's place in the recompute heap changes nothing for the others, so *)
(* it is enough to begin with all nodes queued or with none.               *)
(***************************************************************************)
EXTENDS AdjustHeights

CONSTANT HighestBefore   \* bound on the heights before the call

MCInit ==
  /\ before \in [Node -> 0 .. HighestBefore]
  /\ AdjustInit
  /\ queuedAt \in {before, [n \in Node |-> -1]}

MCSpec == MCInit /\ [][AdjustNext]_adjustVars /\ WF_adjustVars(AdjustNext)
=============================================================================
