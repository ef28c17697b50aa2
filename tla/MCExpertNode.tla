---- MODULE MCExpertNode ----
(* Two nodes that a driver adds to and removes from an Expert node.  The    *)
(* children are interchangeable, the driver is not.                        *)
EXTENDS ExpertNode, TLC

CONSTANTS c1, c2

Children == {c1, c2}
Symmetry == Permutations(Children)
====
