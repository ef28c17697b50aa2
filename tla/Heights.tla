------------------------------- MODULE Heights -------------------------------
(***************************************************************************)
(* What the heights of nodes have to satisfy, and the heights that         *)
(* AdjustHeightsHeap::adjust_heights should arrive at.  above[c] is the    *)
(* set of nodes that must be higher than c.                                *)
(***************************************************************************)
EXTENDS Integers

Respected(above, h) ==
  \A c \in DOMAIN above : \A n \in above[c] : h[c] < h[n]

(***************************************************************************)
(* The least heights that respect `above' and are nowhere lower than       *)
(* `before'.  They exist when `above' has no cycle.                        *)
(***************************************************************************)
LeastHeights(above, before) ==
  LET H[n \in DOMAIN above] ==
        LET bounds == {before[n]} \union {H[c] + 1 : c \in {d \in DOMAIN above : n \in above[d]}}
        IN  CHOOSE h \in bounds : \A b \in bounds : b <= h
  IN  H

(***************************************************************************)
(* The set of nodes that must be higher than n, directly or not: the least *)
(* set with above[n] that is closed under `above'.                         *)
(***************************************************************************)
Closed(above, S) == \A c \in S : above[c] \subseteq S

AllAbove(above, n) ==
  {m \in DOMAIN above : \A S \in SUBSET DOMAIN above :
     (above[n] \subseteq S /\ Closed(above, S)) => m \in S}
=============================================================================
