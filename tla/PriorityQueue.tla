---------------------------- MODULE PriorityQueue ----------------------------
(***************************************************************************)
(* What stabilise relies on in the recompute heap: a node put in with a    *)
(* height stays until it is removed, remove_min takes out a node of the    *)
(* least height, and finds none only when there is none; min_height is     *)
(* that least height.  Changing the height limit loses nothing.            *)
(***************************************************************************)
EXTENDS Integers

CONSTANTS
  Node,        \* the nodes that can be queued
  NoNode,      \* remove_min returned None
  MaxHeight    \* the first height limit

VARIABLES
  prio,     \* prio[n]: the height n is queued at, Absent when it is not
  limit,    \* no node is queued above it
  popped,   \* what the last remove_min returned
  lowest    \* what the last min_height returned

queueVars == <<prio, limit, popped, lowest>>

Absent == -1

Queued == {n \in Node : prio[n] # Absent}

Least(n) == n \in Queued /\ \A m \in Queued : prio[n] <= prio[m]

Init ==
  /\ prio = [n \in Node |-> Absent]
  /\ limit = MaxHeight
  /\ popped = NoNode
  /\ lowest = MaxHeight + 1

Insert(n) ==
  /\ n \notin Queued
  /\ \E h \in 0 .. limit : prio' = [prio EXCEPT ![n] = h]
  /\ UNCHANGED <<limit, popped, lowest>>

Remove(n) ==
  /\ n \in Queued
  /\ prio' = [prio EXCEPT ![n] = Absent]
  /\ UNCHANGED <<limit, popped, lowest>>

Increase(n) ==
  /\ n \in Queued
  /\ \E h \in 0 .. limit : h > prio[n] /\ prio' = [prio EXCEPT ![n] = h]
  /\ UNCHANGED <<limit, popped, lowest>>

RemoveMin ==
  /\ \/ /\ Queued = {}
        /\ popped' = NoNode
        /\ UNCHANGED prio
     \/ \E n \in Node :
          /\ Least(n)
          /\ popped' = n
          /\ prio' = [prio EXCEPT ![n] = Absent]
  /\ UNCHANGED <<limit, lowest>>

MinHeight ==
  /\ \/ Queued = {} /\ lowest' = limit + 1
     \/ \E n \in Node : Least(n) /\ lowest' = prio[n]
  /\ UNCHANGED <<prio, limit, popped>>

SetLimit ==
  /\ limit' \in Int
  /\ \A n \in Queued : prio[n] <= limit'
  /\ UNCHANGED <<prio, popped, lowest>>

\* The State is dropped.
Clear ==
  /\ prio' = [n \in Node |-> Absent]
  /\ UNCHANGED <<limit, popped, lowest>>

Next ==
  \/ \E n \in Node : Insert(n) \/ Remove(n) \/ Increase(n)
  \/ RemoveMin
  \/ MinHeight
  \/ SetLimit
  \/ Clear

Spec == Init /\ [][Next]_queueVars
=============================================================================
