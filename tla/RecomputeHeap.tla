---------------------------- MODULE RecomputeHeap ----------------------------
(***************************************************************************)
(* RecomputeHeap: the nodes to recompute, in one queue per height, with a  *)
(* lower bound for the least height in use that is kept lazily.  Its       *)
(* callers change a node's height on their own, so the height at which a   *)
(* node was queued is kept apart from the height it has.                   *)
(*                                                                         *)
(* The height limit is shared with AdjustHeightsHeap, which also tracks    *)
(* the greatest height ever given to a node.  A call that panics is not a  *)
(* step: its guard is false.  The order inside a queue is left out.        *)
(***************************************************************************)
EXTENDS Integers, FiniteSets, NodeHeights

CONSTANTS
  NoNode,           \* remove_min returned None
  MaxHeight,        \* the argument of RecomputeHeap::new
  Heights,          \* the heights that callers give to nodes
  NewMaxHeights,    \* the arguments of set_max_height_allowed
  DebugAssertions   \* cfg(debug_assertions)

ASSUME NodeAssumption == NoNode \notin Node /\ IsFiniteSet(Node)
ASSUME LimitAssumption ==
  /\ MaxHeight \in Nat
  /\ Heights \subseteq Nat \union {-1}
  /\ NewMaxHeights \subseteq Nat
  /\ DebugAssertions \in BOOLEAN

VARIABLES
  height_in_rch,       \* height_in_rch[n]: Node.height_in_recompute_heap, -1 when out
  numQueues,           \* queues.len(), in both heaps
  queues,              \* queues[h]: the nodes queued at height h
  height_lower_bound,
  length,
  max_height_seen,     \* AdjustHeightsHeap.max_height_seen
  cleared,             \* the State was dropped
  popped,              \* what the last remove_min returned
  lowest               \* what the last min_height returned

heapVars == <<height_in_rch, queues, height_lower_bound, length>>
limitVars == <<numQueues, max_height_seen, cleared>>
vars == <<height, heapVars, limitVars, popped, lowest>>

MaxHeightAllowed == numQueues - 1

IsInHeap(n) == height_in_rch[n] >= 0

Lesser(a, b) == IF a <= b THEN a ELSE b

Init ==
  /\ height = [n \in Node |-> -1]
  /\ height_in_rch = [n \in Node |-> -1]
  /\ numQueues = MaxHeight + 1
  /\ queues = [h \in 0 .. MaxHeight |-> {}]
  /\ height_lower_bound = MaxHeight + 1
  /\ length = 0
  /\ max_height_seen = 0
  /\ cleared = FALSE
  /\ popped = NoNode
  /\ lowest = MaxHeight + 1

(***************************************************************************)
(* State::set_height, AdjustHeightsHeap::set_height: a node becomes        *)
(* necessary (-1 to its height), unnecessary, is invalidated or is raised, *)
(* whether it is in the heap or not.                                       *)
(***************************************************************************)
SetHeight(n, h) ==
  /\ ~cleared
  /\ h > max_height_seen => h <= MaxHeightAllowed
  /\ max_height_seen' = IF h > max_height_seen THEN h ELSE max_height_seen
  /\ height' = [height EXCEPT ![n] = h]
  /\ UNCHANGED <<heapVars, numQueues, cleared, popped, lowest>>

\* Fault for a mutant: the bound is not lowered.
InsertBoundKept(n) ==
  /\ ~cleared
  /\ ~IsInHeap(n)
  /\ height[n] \in 0 .. MaxHeightAllowed
  /\ height_in_rch' = [height_in_rch EXCEPT ![n] = height[n]]
  /\ queues' = [queues EXCEPT ![height[n]] = @ \union {n}]
  /\ length' = length + 1
  /\ UNCHANGED <<height, height_lower_bound, limitVars, popped, lowest>>

\* RecomputeHeap::insert, with link.
Insert(n) ==
  /\ ~cleared
  /\ ~IsInHeap(n)
  /\ height[n] \in 0 .. MaxHeightAllowed
  /\ height_lower_bound' = Lesser(height[n], height_lower_bound)
  /\ height_in_rch' = [height_in_rch EXCEPT ![n] = height[n]]
  /\ queues' = [queues EXCEPT ![height[n]] = @ \union {n}]
  /\ length' = length + 1
  /\ UNCHANGED <<height, limitVars, popped, lowest>>

\* Fault: the node is looked for at the height it has now.
RemoveAtHeight(n) ==
  /\ ~cleared
  /\ IsInHeap(n)
  /\ queues' = [h \in DOMAIN queues |-> IF h = height[n] THEN queues[h] \ {n} ELSE queues[h]]
  /\ height_in_rch' = [height_in_rch EXCEPT ![n] = -1]
  /\ length' = length - 1
  /\ UNCHANGED <<height, height_lower_bound, limitVars, popped, lowest>>

\* RecomputeHeap::remove, with unlink: the node is looked for at the height it
\* was queued at.
Remove(n) ==
  /\ ~cleared
  /\ IsInHeap(n)
  /\ queues' = [queues EXCEPT ![height_in_rch[n]] = @ \ {n}]
  /\ height_in_rch' = [height_in_rch EXCEPT ![n] = -1]
  /\ length' = length - 1
  /\ UNCHANGED <<height, height_lower_bound, limitVars, popped, lowest>>

\* RecomputeHeap::increase_height, called when the height has been raised.
IncreaseHeight(n) ==
  /\ ~cleared
  /\ IsInHeap(n)
  /\ height[n] > height_in_rch[n]
  /\ height[n] <= MaxHeightAllowed
  /\ queues' = [[queues EXCEPT ![height_in_rch[n]] = @ \ {n}] EXCEPT ![height[n]] = @ \union {n}]
  /\ height_in_rch' = [height_in_rch EXCEPT ![n] = height[n]]
  /\ UNCHANGED <<height, height_lower_bound, length, limitVars, popped, lowest>>

(***************************************************************************)
(* Both loops look for the first queue in use from height_lower_bound on;  *)
(* they stop at h when it is one, or when there is no queue h.  (In debug  *)
(* builds remove_min then panics.)                                         *)
(***************************************************************************)
StopsAt(h) ==
  /\ h \in DOMAIN queues => queues[h] # {}
  /\ \A k \in height_lower_bound .. h - 1 : k \in DOMAIN queues /\ queues[k] = {}

PossibleStops == height_lower_bound .. numQueues + 1

\* RecomputeHeap::remove_min.
RemoveMin ==
  /\ ~cleared
  /\ \/ /\ length = 0
        /\ popped' = NoNode
        /\ UNCHANGED heapVars
     \/ /\ length # 0
        /\ \E h \in PossibleStops :
             /\ StopsAt(h)
             /\ height_lower_bound' = h
             /\ popped' \in IF h \in DOMAIN queues THEN queues[h] ELSE {NoNode}
        /\ queues' = [k \in DOMAIN queues |-> queues[k] \ {popped'}]
        /\ height_in_rch' = [n \in Node |-> IF n = popped' THEN -1 ELSE height_in_rch[n]]
        /\ length' = IF popped' = NoNode THEN length ELSE length - 1
  /\ UNCHANGED <<height, limitVars, lowest>>

\* Fault: the bound is returned as it is.
MinHeightNotRaised ==
  /\ ~cleared
  /\ lowest' = height_lower_bound
  /\ UNCHANGED <<height, heapVars, limitVars, popped>>

\* RecomputeHeap::min_height, with raise_min_height.
MinHeight ==
  /\ ~cleared
  /\ \/ length = 0 /\ lowest' = numQueues
     \/ length # 0 /\ \E h \in PossibleStops : StopsAt(h) /\ lowest' = h
  /\ height_lower_bound' = lowest'
  /\ UNCHANGED <<height, height_in_rch, queues, length, limitVars, popped>>

(***************************************************************************)
(* State::set_max_height_allowed.  AdjustHeightsHeap panics when new is    *)
(* below the greatest height seen, RecomputeHeap (in debug builds) when it *)
(* drops more than one queue.  The queues from new on are dropped with     *)
(* what they hold.                                                         *)
(***************************************************************************)
SetMaxHeightAllowed(new) ==
  /\ ~cleared
  /\ new >= max_height_seen
  /\ DebugAssertions => new + 1 >= numQueues
  /\ numQueues' = new
  /\ queues' = [h \in 0 .. new - 1 |-> IF h < numQueues THEN queues[h] ELSE {}]
  /\ height_lower_bound' = Lesser(height_lower_bound, new + 1)
  /\ UNCHANGED <<height, height_in_rch, length, max_height_seen, cleared, popped, lowest>>

I32Max == 2147483647

\* RecomputeHeap::clear, called by State::destroy.
Clear ==
  /\ ~cleared
  /\ cleared' = TRUE
  /\ queues' = [h \in DOMAIN queues |-> {}]
  /\ length' = 0
  /\ height_lower_bound' = I32Max
  /\ UNCHANGED <<height, height_in_rch, numQueues, max_height_seen, popped, lowest>>

Next ==
  \/ \E n \in Node :
       Insert(n) \/ Remove(n) \/ IncreaseHeight(n) \/ \E h \in Heights : SetHeight(n, h)
  \/ RemoveMin
  \/ MinHeight
  \/ \E new \in NewMaxHeights : SetMaxHeightAllowed(new)
  \/ Clear

Spec == Init /\ [][Next]_vars

(***************************************************************************)
(* The same for a program that keeps the argument of set_max_height_allowed*)
(* above every height seen.                                                *)
(***************************************************************************)
RoomForSeen == max_height_seen < numQueues'

RoomySpec == Init /\ [][Next /\ RoomForSeen]_vars

-----------------------------------------------------------------------------
\* The type of every variable.
TypeOK ==
  /\ height \in [Node -> Nat \union {-1}]
  /\ height_in_rch \in [Node -> Nat \union {-1}]
  /\ numQueues \in Nat
  /\ queues \in [0 .. numQueues - 1 -> SUBSET Node]
  /\ height_lower_bound \in Nat
  /\ length \in Int
  /\ max_height_seen \in Nat
  /\ cleared \in BOOLEAN
  /\ popped \in Node \union {NoNode}
  /\ lowest \in Nat

(***************************************************************************)
(* No queued node is below height_lower_bound, although increase_height,   *)
(* remove and the lowering of a node's height leave the bound alone:       *)
(* otherwise remove_min would not find the node, and stabilise would       *)
(* return with it still stale.                                             *)
(***************************************************************************)
LowerBound == \A h \in DOMAIN queues : h < height_lower_bound => queues[h] = {}

InQueue == {n \in Node : \E h \in DOMAIN queues : n \in queues[h]}

(***************************************************************************)
(* The three records of what is queued agree: a node is in the queue of    *)
(* its height_in_recompute_heap and no other, and length counts the queued *)
(* nodes (is_empty, which ends stabilise, reads length).                   *)
(***************************************************************************)
QueuesAgree ==
  ~cleared =>
    /\ \A n \in Node : \A h \in DOMAIN queues : n \in queues[h] <=> height_in_rch[n] = h
    /\ \A n \in Node : IsInHeap(n) => n \in InQueue
    /\ length = Cardinality(InQueue)

(***************************************************************************)
(* The heap is a priority queue.                                           *)
(***************************************************************************)
Queue == INSTANCE PriorityQueue WITH
  prio <- [n \in Node |-> IF n \in InQueue THEN height_in_rch[n] ELSE -1],
  limit <- MaxHeightAllowed

ImplementsQueue == Queue!Spec
=============================================================================
