--------------------------- MODULE MCUpdateHandlers ---------------------------
(***************************************************************************)
(* One node with two observers, and handlers that each go to one of them   *)
(* or to the node.                                                         *)
(***************************************************************************)
EXTENDS UpdateHandlers, TLC

CONSTANTS n1, o1, o2

MCObserving == [o \in {o1, o2} |-> n1]

\* Handlers and observers of the same node are interchangeable.
Symmetry == Permutations(Handler) \union Permutations(Observer)
=============================================================================
