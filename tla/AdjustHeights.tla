---------------------------- MODULE AdjustHeights ----------------------------
(***************************************************************************)
(* AdjustHeightsHeap::adjust_heights: an edge has been added from a parent *)
(* to a child that is not lower, and heights are raised until every node   *)
(* is above its children and above the lhs-change node of the bind that    *)
(* created it.  One turn of the loop is a step.                            *)
(*                                                                         *)
(* above[c] holds what both calls of the loop's body go through: the       *)
(* parents of c (ensure_parent_height_requirements) and, when c is the     *)
(* lhs-change node of a bind, the necessary nodes created on its right     *)
(* side (adjust_heights_bind_lhs_change).  The graph does not change while *)
(* the loop runs.                                                          *)
(*                                                                         *)
(* Node holds the necessary nodes: adjust_heights visits no other.         *)
(* Nodes of one height leave the heap in any order.  A panic unwinds, so   *)
(* nothing is said of the heights it leaves.                               *)
(***************************************************************************)
EXTENDS Heights, NodeHeights

CONSTANT Limit    \* max_height_allowed

ASSUME MaxHeightAssumption == Limit \in Nat

VARIABLES
  above,      \* the graph, with the new edge
  child,      \* original_child
  parent,     \* original_parent
  before,     \* the heights at the call
  inHeap,     \* inHeap[n]: height_in_adjust_heights_heap, -1 when n is not in it
  lowerBound, \* height_lower_bound
  queuedAt,   \* queuedAt[n]: height_in_recompute_heap, -1 when n is not in it
  outcome     \* "called", "running", "returned" or the panic it ended with

call == <<above, child, parent, before>>
loop == <<height, inHeap, lowerBound, queuedAt, outcome>>
adjustVars == <<call, loop>>

HeightRange == 0 .. Limit

(***************************************************************************)
(* Before the call every height was right; the new edge goes to a parent   *)
(* that is not above the child.                                            *)
(***************************************************************************)
AdjustInit ==
  /\ before \in [Node -> HeightRange]
  /\ child \in Node
  /\ parent \in Node
  /\ before[child] >= before[parent]
  /\ \E edges \in SUBSET {e \in Node \X Node : before[e[1]] < before[e[2]]} :
       above = [c \in Node |-> {n \in Node : <<c, n>> \in edges \union {<<child, parent>>}}]
  /\ height = before
  /\ inHeap = [n \in Node |-> -1]
  /\ lowerBound = before[parent]
  /\ queuedAt \in {q \in [Node -> HeightRange \union {-1}] : \A n \in Node : q[n] \in {-1, before[n]}}
  /\ outcome = "called"

\* The members of S that are not higher than c.
TooLow(c, S) == {n \in S : height[c] >= height[n]}

\* set_height would go over the limit for a member of S other than original_child.
TooHigh(c, S) == TooLow(c, S) \ {child} # {} /\ height[c] + 1 > Limit

\* The two panics of ensure_height_requirement; the order of S decides between them.
Panics(c, S) ==
  /\ \/ child \in S /\ outcome' = "cyclic"
     \/ TooHigh(c, S) /\ outcome' = "too high"
  /\ UNCHANGED <<height, inHeap>>

\* Faults for the mutants: a node enters with its new height; a node in the heap
\* is not raised again; a node met a second time is taken for a cycle.
EnsureHeightRequirementsLate(c, S, h) ==
  \/ Panics(c, S)
  \/ /\ child \notin S
     /\ ~TooHigh(c, S)
     /\ height' = [n \in Node |-> IF n \in TooLow(c, S) THEN height[c] + 1 ELSE height[n]]
     /\ inHeap' = [n \in Node |->
          IF n \in TooLow(c, S) /\ h[n] = -1 THEN height[c] + 1 ELSE h[n]]
     /\ outcome' = "running"

EnsureHeightRequirementsUnlessMem(c, S, h) ==
  \/ Panics(c, S)
  \/ /\ child \notin S
     /\ ~TooHigh(c, S)
     /\ height' = [n \in Node |->
          IF n \in TooLow(c, S) /\ h[n] = -1 THEN height[c] + 1 ELSE height[n]]
     /\ inHeap' = [n \in Node |-> IF n \in TooLow(c, S) /\ h[n] = -1 THEN height[n] ELSE h[n]]
     /\ outcome' = "running"

EnsureHeightRequirementsOnce(c, S, h) ==
  \/ Panics(c, S)
  \/ /\ \E n \in S : h[n] # -1
     /\ outcome' = "cyclic"
     /\ UNCHANGED <<height, inHeap>>
  \/ /\ child \notin S
     /\ ~TooHigh(c, S)
     /\ height' = [n \in Node |-> IF n \in TooLow(c, S) THEN height[c] + 1 ELSE height[n]]
     /\ inHeap' = [n \in Node |-> IF n \in TooLow(c, S) /\ h[n] = -1 THEN height[n] ELSE h[n]]
     /\ outcome' = "running"

(***************************************************************************)
(* ensure_height_requirement(child, parent, c, n) for each n in S, with    *)
(* add_unless_mem and set_height.  A node goes in the heap with the height *)
(* it had before it is raised.  h is the heap without c.                   *)
(***************************************************************************)
EnsureHeightRequirements(c, S, h) ==
  \/ Panics(c, S)
  \/ /\ child \notin S
     /\ ~TooHigh(c, S)
     /\ height' = [n \in Node |-> IF n \in TooLow(c, S) THEN height[c] + 1 ELSE height[n]]
     /\ inHeap' = [n \in Node |-> IF n \in TooLow(c, S) /\ h[n] = -1 THEN height[n] ELSE h[n]]
     /\ outcome' = "running"

\* The call, up to the loop.
Begin ==
  /\ outcome = "called"
  /\ EnsureHeightRequirements(child, {parent}, inHeap)
  /\ UNCHANGED <<call, lowerBound, queuedAt>>

\* AdjustHeightsHeap::remove_min returns c.
IsMin(c) == inHeap[c] # -1 /\ \A n \in Node : inHeap[n] # -1 => inHeap[c] <= inHeap[n]

\* Fault: the node stays in the heap.
VisitKept(c) ==
  /\ outcome = "running"
  /\ IsMin(c)
  /\ lowerBound' = inHeap[c]
  /\ queuedAt' = [queuedAt EXCEPT ![c] = IF @ = -1 THEN -1 ELSE height[c]]
  /\ EnsureHeightRequirements(c, above[c], inHeap)
  /\ UNCHANGED call

\* A turn of the loop; RecomputeHeap::increase_height moves c to its new height.
Visit(c) ==
  /\ outcome = "running"
  /\ IsMin(c)
  /\ lowerBound' = inHeap[c]
  /\ queuedAt' = [queuedAt EXCEPT ![c] = IF @ = -1 THEN -1 ELSE height[c]]
  /\ EnsureHeightRequirements(c, above[c], [inHeap EXCEPT ![c] = -1])
  /\ UNCHANGED call

Return ==
  /\ outcome = "running"
  /\ \A n \in Node : inHeap[n] = -1
  /\ outcome' = "returned"
  /\ UNCHANGED <<call, height, inHeap, lowerBound, queuedAt>>

AdjustNext ==
  \/ Begin
  \/ \E c \in Node : Visit(c)
  \/ Return

\* One call on one thread: it goes on until it returns or panics.
AdjustSpec == AdjustInit /\ [][AdjustNext]_adjustVars /\ WF_adjustVars(AdjustNext)

-----------------------------------------------------------------------------
AdjustTypeOK ==
  /\ above \in [Node -> SUBSET Node]
  /\ child \in Node
  /\ parent \in above[child]
  /\ before \in [Node -> HeightRange]
  /\ height \in [Node -> HeightRange]
  /\ inHeap \in [Node -> HeightRange \union {-1}]
  /\ lowerBound \in HeightRange
  /\ queuedAt \in [Node -> HeightRange \union {-1}]
  /\ outcome \in {"called", "running", "returned", "cyclic", "too high"}

(***************************************************************************)
(* When adjust_heights returns, every node is above its children and its   *)
(* scope; no node went down, and one that went up is just above one of     *)
(* them; and the recompute heap files each node under its height: filed    *)
(* too low, it would be recomputed before a child.                         *)
(***************************************************************************)
Raised(n) == height[n] # before[n]

HeightsAreLeast ==
  outcome = "returned" =>
    /\ Respected(above, height)
    /\ \A n \in Node : height[n] >= before[n]
    /\ \A n \in Node : Raised(n) => \E c \in Node : n \in above[c] /\ height[n] = height[c] + 1
    /\ \A n \in Node : queuedAt[n] \in {-1, height[n]}

(***************************************************************************)
(* The panic "adding edge made graph cyclic" tells the truth, and no call  *)
(* that closes a cycle returns.                                            *)
(***************************************************************************)
Cyclic == child = parent \/ child \in AllAbove(above, parent)

CycleNoticed ==
  /\ outcome = "cyclic" => Cyclic
  /\ outcome = "returned" => ~Cyclic

(***************************************************************************)
(* "We process nodes in increasing order of pre-adjusted height": each     *)
(* node enters the heap once, with the height it had at the call, and not  *)
(* below height_lower_bound.                                               *)
(***************************************************************************)
EntersOnceStep ==
  \A n \in Node : (inHeap[n] = -1 /\ inHeap'[n] # -1)
    => inHeap'[n] = before[n] /\ ~Raised(n) /\ inHeap'[n] >= lowerBound'

EntersOnce == [][EntersOnceStep]_adjustVars

\* The call comes to an end, whatever the graph.
AdjustReturns == <>(outcome \notin {"called", "running"})
=============================================================================
