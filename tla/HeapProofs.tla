----------------------------- MODULE HeapProofs ------------------------------
(***************************************************************************)
(* Proofs about the two heaps of heights.                                  *)
(*                                                                         *)
(* RecomputeHeap, for every set of nodes, every height limit and every     *)
(* sequence of calls that keeps the limit above the heights seen: the      *)
(* lower bound is one, the records of what is queued agree, and the heap   *)
(* is a priority queue.                                                    *)
(*                                                                         *)
(* AdjustHeights, for any graph and any height limit.  The argument is the *)
(* comment of the loop: nodes leave the heap in increasing order of the    *)
(* height they had at the call, and what a node requires is asked of nodes *)
(* that were higher than it then, so none is raised after it has been      *)
(* visited.                                                                *)
(***************************************************************************)
EXTENDS RecomputeHeap, AdjustHeights, FiniteSetTheorems, TLAPS

-----------------------------------------------------------------------------
(***************************************************************************)
(* The recompute heap.                                                     *)
(***************************************************************************)

Members == {n \in Node : height_in_rch[n] >= 0}

(***************************************************************************)
(* Every height in use was seen, and there is a queue for every height     *)
(* seen: that is why set_max_height_allowed drops only empty queues.       *)
(***************************************************************************)
HeightsSeen ==
  /\ \A n \in Node : height[n] <= max_height_seen /\ height_in_rch[n] <= max_height_seen
  /\ max_height_seen < numQueues

\* QueuesAgree in the form that the steps preserve.
Placed == \A n \in Node : \A h \in 0 .. numQueues - 1 : n \in queues[h] <=> height_in_rch[n] = h

IInv ==
  /\ TypeOK
  /\ LowerBound
  /\ HeightsSeen
  /\ ~cleared => Placed /\ length = Cardinality(Members)

-----------------------------------------------------------------------------
\* While the State lives, the nodes in the queues are those that is_in_recompute_heap
\* holds of.
LEMMA InQueueIsMembers ==
  ASSUME TypeOK, HeightsSeen, Placed
  PROVE  InQueue = Members
<1>1. DOMAIN queues = 0 .. numQueues - 1
  BY DEF TypeOK
<1>2. \A n \in Node : height_in_rch[n] >= 0 => height_in_rch[n] \in 0 .. numQueues - 1
  BY DEF TypeOK, HeightsSeen
<1> QED
  BY <1>1, <1>2 DEF InQueue, Members, Placed, TypeOK

LEMMA MembersFinite == IsFiniteSet(Members)
BY NodeAssumption, FS_Subset DEF Members

\* The invariant says of the records what QueuesAgree says.
LEMMA AgreeFromInv == IInv => QueuesAgree
<1> SUFFICES ASSUME IInv, ~cleared
             PROVE  /\ \A n \in Node : \A h \in DOMAIN queues : n \in queues[h] <=> height_in_rch[n] = h
                    /\ \A n \in Node : IsInHeap(n) => n \in InQueue
                    /\ length = Cardinality(InQueue)
  BY DEF QueuesAgree
<1>1. InQueue = Members
  BY InQueueIsMembers DEF IInv
<1>2. DOMAIN queues = 0 .. numQueues - 1
  BY DEF IInv, TypeOK
<1>3. Placed /\ length = Cardinality(Members)
  BY DEF IInv
<1>4. \A n \in Node : IsInHeap(n) => n \in InQueue
  BY <1>1 DEF Members, IsInHeap
<1>5. length = Cardinality(InQueue)
  BY <1>1, <1>3
<1> QED
  BY <1>2, <1>3, <1>4, <1>5 DEF Placed

LEMMA InitInv == Init => IInv
<1> SUFFICES ASSUME Init PROVE IInv
  OBVIOUS
<1> USE NodeAssumption, LimitAssumption DEF Init
<1>1. TypeOK
  <2>1. 0 .. numQueues - 1 = 0 .. MaxHeight
    OBVIOUS
  <2>2. queues \in [0 .. numQueues - 1 -> SUBSET Node]
    BY <2>1
  <2>3. numQueues \in Nat /\ height_lower_bound \in Nat /\ lowest \in Nat
    OBVIOUS
  <2>4. -1 \in Nat \union {-1}
    OBVIOUS
  <2>5. /\ height \in [Node -> Nat \union {-1}]
        /\ height_in_rch \in [Node -> Nat \union {-1}]
    BY <2>4
  <2>6. length \in Int /\ max_height_seen \in Nat
    OBVIOUS
  <2>7. cleared \in BOOLEAN /\ popped \in Node \union {NoNode}
    OBVIOUS
  <2> HIDE DEF Init
  <2> QED BY <2>2, <2>3, <2>5, <2>6, <2>7 DEF TypeOK
<1>2. LowerBound /\ HeightsSeen
  BY DEF LowerBound, HeightsSeen
<1>3. Placed
  BY DEF Placed
<1>4. Members = {}
  BY DEF Members
<1>5. length = Cardinality(Members)
  BY <1>4, FS_EmptySet
<1> QED
  BY <1>1, <1>2, <1>3, <1>5 DEF IInv

-----------------------------------------------------------------------------
\* Where the search for the first queue in use stops: at a queue in use, and no
\* queue before it is.
LEMMA StopFound ==
  ASSUME TypeOK, LowerBound, HeightsSeen, Placed, length = Cardinality(Members),
         length # 0, NEW h \in PossibleStops, StopsAt(h)
  PROVE  /\ h \in 0 .. numQueues - 1
         /\ queues[h] # {}
         /\ \A k \in 0 .. numQueues - 1 : k < h => queues[k] = {}
<1>1. DOMAIN queues = 0 .. numQueues - 1 /\ h \in Nat /\ h >= height_lower_bound
  BY DEF TypeOK, PossibleStops
<1>2. \A k \in 0 .. numQueues - 1 : k < h => queues[k] = {}
  <2> SUFFICES ASSUME NEW k \in 0 .. numQueues - 1, k < h PROVE queues[k] = {}
    OBVIOUS
  <2>1. CASE k < height_lower_bound
    BY <1>1, <2>1 DEF LowerBound
  <2>2. CASE k >= height_lower_bound
    <3>1. k \in height_lower_bound .. h - 1
      BY <1>1, <2>2 DEF TypeOK
    <3> QED BY <3>1 DEF StopsAt
  <2> QED BY <2>1, <2>2, <1>1 DEF TypeOK
<1>3. PICK n \in Node : height_in_rch[n] >= 0
  <2>1. Members # {}
    BY FS_EmptySet
  <2> QED BY <2>1 DEF Members
<1>4. /\ height_in_rch[n] \in 0 .. numQueues - 1
      /\ n \in queues[height_in_rch[n]]
  BY <1>3 DEF TypeOK, HeightsSeen, Placed
<1>5. height_in_rch[n] >= h
  BY <1>2, <1>4, <1>1
<1>6. h \in 0 .. numQueues - 1
  BY <1>4, <1>5, <1>1 DEF TypeOK
<1> QED
  BY <1>1, <1>2, <1>6 DEF StopsAt

-----------------------------------------------------------------------------
LEMMA SetHeightInv ==
  ASSUME IInv, NEW n \in Node, NEW h \in Heights, SetHeight(n, h)
  PROVE  IInv'
<1> USE DEF IInv, SetHeight, heapVars, MaxHeightAllowed
<1>1. h \in Nat \union {-1}
  BY LimitAssumption
<1>2. TypeOK'
  BY <1>1 DEF TypeOK
<1>3. LowerBound'
  BY DEF LowerBound
<1>4. HeightsSeen'
  BY <1>1 DEF HeightsSeen, TypeOK
<1>5. Placed' /\ length' = Cardinality(Members')
  BY DEF Placed, Members
<1> QED BY <1>2, <1>3, <1>4, <1>5

LEMMA InsertInv ==
  ASSUME IInv, NEW n \in Node, Insert(n)
  PROVE  IInv'
<1> USE DEF IInv, Insert, limitVars, MaxHeightAllowed, IsInHeap
<1>1. DOMAIN queues = 0 .. numQueues - 1 /\ height[n] \in 0 .. numQueues - 1
  BY DEF TypeOK
<1>2. TypeOK'
  BY <1>1 DEF TypeOK, Lesser
<1>3. LowerBound'
  BY <1>1 DEF LowerBound, TypeOK, Lesser
<1>4. HeightsSeen'
  BY DEF HeightsSeen, TypeOK
<1>5. Placed'
  <2> SUFFICES ASSUME NEW m \in Node, NEW h \in 0 .. numQueues - 1
               PROVE  m \in queues'[h] <=> height_in_rch'[m] = h
    BY DEF Placed
  <2>1. m \in queues[h] <=> height_in_rch[m] = h
    BY DEF Placed
  <2>2. queues'[h] = IF h = height[n] THEN queues[h] \union {n} ELSE queues[h]
    BY <1>1 DEF TypeOK
  <2>3. height_in_rch'[m] = IF m = n THEN height[n] ELSE height_in_rch[m]
    BY DEF TypeOK
  <2>4. height_in_rch[n] # h
    BY DEF TypeOK
  <2> QED BY <2>1, <2>2, <2>3, <2>4
<1>6. Members' = Members \union {n} /\ n \notin Members
  BY <1>1 DEF Members, TypeOK
<1>7. length' = Cardinality(Members')
  BY <1>6, MembersFinite, FS_AddElement
<1> QED BY <1>2, <1>3, <1>4, <1>5, <1>7

LEMMA RemoveInv ==
  ASSUME IInv, NEW n \in Node, Remove(n)
  PROVE  IInv'
<1> USE DEF IInv, Remove, limitVars, IsInHeap
<1>1. /\ DOMAIN queues = 0 .. numQueues - 1
      /\ height_in_rch[n] \in 0 .. numQueues - 1
  BY DEF TypeOK, HeightsSeen
<1>2. TypeOK'
  BY <1>1 DEF TypeOK
<1>3. LowerBound'
  BY <1>1 DEF LowerBound, TypeOK
<1>4. HeightsSeen'
  BY DEF HeightsSeen, TypeOK
<1>5. Placed'
  <2> SUFFICES ASSUME NEW m \in Node, NEW h \in 0 .. numQueues - 1
               PROVE  m \in queues'[h] <=> height_in_rch'[m] = h
    BY DEF Placed
  <2>1. m \in queues[h] <=> height_in_rch[m] = h
    BY DEF Placed
  <2>2. queues'[h] = IF h = height_in_rch[n] THEN queues[h] \ {n} ELSE queues[h]
    BY <1>1 DEF TypeOK
  <2>3. height_in_rch'[m] = IF m = n THEN -1 ELSE height_in_rch[m]
    BY DEF TypeOK
  <2> QED BY <2>1, <2>2, <2>3
<1>6. Members' = Members \ {n} /\ n \in Members
  BY <1>1 DEF Members, TypeOK
<1>7. length' = Cardinality(Members')
  BY <1>6, MembersFinite, FS_RemoveElement
<1> QED BY <1>2, <1>3, <1>4, <1>5, <1>7

LEMMA IncreaseHeightInv ==
  ASSUME IInv, NEW n \in Node, IncreaseHeight(n)
  PROVE  IInv'
<1> USE DEF IInv, IncreaseHeight, limitVars, IsInHeap, MaxHeightAllowed
<1>1. /\ DOMAIN queues = 0 .. numQueues - 1
      /\ height_in_rch[n] \in 0 .. numQueues - 1
      /\ height[n] \in 0 .. numQueues - 1
      /\ height[n] > height_in_rch[n]
  BY DEF TypeOK, HeightsSeen
<1>2. \A h \in 0 .. numQueues - 1 :
        queues'[h] = IF h = height_in_rch[n] THEN queues[h] \ {n}
                     ELSE IF h = height[n] THEN queues[h] \union {n} ELSE queues[h]
  <2> DEFINE out == [queues EXCEPT ![height_in_rch[n]] = @ \ {n}]
  <2>1. \A h \in 0 .. numQueues - 1 :
          out[h] = IF h = height_in_rch[n] THEN queues[h] \ {n} ELSE queues[h]
    BY <1>1
  <2>2. DOMAIN out = 0 .. numQueues - 1
    BY <1>1
  <2>3. queues' = [out EXCEPT ![height[n]] = @ \union {n}]
    OBVIOUS
  <2> HIDE DEF out
  <2>4. \A h \in 0 .. numQueues - 1 : queues'[h] = IF h = height[n] THEN out[h] \union {n} ELSE out[h]
    BY <2>2, <2>3
  <2>5. height[n] # height_in_rch[n]
    BY <1>1 DEF TypeOK
  <2> QED BY <2>1, <2>4, <2>5
<1>3. TypeOK'
  BY <1>1 DEF TypeOK
<1>4. LowerBound'
  <2>1. height_in_rch[n] >= height_lower_bound
    BY <1>1 DEF LowerBound, Placed, TypeOK
  <2>2. DOMAIN queues' = 0 .. numQueues - 1
    BY <1>1
  <2> SUFFICES ASSUME NEW h \in 0 .. numQueues - 1, h < height_lower_bound
               PROVE  queues'[h] = {}
    BY <2>2 DEF LowerBound
  <2>3. h # height_in_rch[n] /\ h # height[n]
    BY <1>1, <2>1 DEF TypeOK
  <2> QED BY <1>1, <1>2, <2>3 DEF LowerBound
<1>5. HeightsSeen'
  BY DEF HeightsSeen, TypeOK
<1>6. Placed'
  <2> SUFFICES ASSUME NEW m \in Node, NEW h \in 0 .. numQueues - 1
               PROVE  m \in queues'[h] <=> height_in_rch'[m] = h
    BY DEF Placed
  <2>1. m \in queues[h] <=> height_in_rch[m] = h
    BY DEF Placed
  <2>2. height_in_rch'[m] = IF m = n THEN height[n] ELSE height_in_rch[m]
    BY DEF TypeOK
  <2>3. CASE h = height_in_rch[n]
    BY <1>1, <1>2, <2>1, <2>2, <2>3
  <2>4. CASE h = height[n]
    BY <1>1, <1>2, <2>1, <2>2, <2>4
  <2>5. CASE h # height_in_rch[n] /\ h # height[n]
    BY <1>2, <2>1, <2>2, <2>5
  <2> QED BY <2>3, <2>4, <2>5
<1>7. Members' = Members
  BY <1>1 DEF Members, TypeOK
<1> QED BY <1>3, <1>4, <1>5, <1>6, <1>7

LEMMA RemoveMinInv ==
  ASSUME IInv, RemoveMin
  PROVE  IInv'
<1> USE DEF IInv, RemoveMin, limitVars
<1>1. CASE length = 0
  <2>1. UNCHANGED <<height, heapVars, limitVars, lowest>> /\ popped' = NoNode
    BY <1>1
  <2>2. TypeOK'
    BY <2>1 DEF TypeOK, heapVars
  <2>3. (LowerBound /\ HeightsSeen /\ Placed)' /\ Members' = Members
    BY <2>1 DEF LowerBound, HeightsSeen, Placed, Members, heapVars
  <2> QED BY <2>1, <2>2, <2>3 DEF heapVars
<1>2. CASE length # 0
  <2>1. PICK h \in PossibleStops :
          /\ StopsAt(h)
          /\ height_lower_bound' = h
          /\ popped' \in IF h \in DOMAIN queues THEN queues[h] ELSE {NoNode}
    BY <1>2
  <2>2. /\ h \in 0 .. numQueues - 1
        /\ \A k \in 0 .. numQueues - 1 : k < h => queues[k] = {}
    BY <1>2, <2>1, StopFound
  <2>3. DOMAIN queues = 0 .. numQueues - 1
    BY DEF TypeOK
  <2>4. /\ popped' \in Node /\ popped' # NoNode
        /\ popped' \in queues[h]
        /\ height_in_rch[popped'] = h
    BY <2>1, <2>2, <2>3, NodeAssumption DEF TypeOK, Placed
  <2>5. /\ queues' = [k \in 0 .. numQueues - 1 |-> queues[k] \ {popped'}]
        /\ height_in_rch' = [n \in Node |-> IF n = popped' THEN -1 ELSE height_in_rch[n]]
        /\ length' = length - 1
    BY <1>2, <2>3, <2>4
  <2>6. TypeOK'
    BY <2>1, <2>2, <2>4, <2>5 DEF TypeOK
  <2>7. LowerBound'
    BY <2>1, <2>2, <2>5 DEF LowerBound
  <2>8. HeightsSeen'
    BY <2>5 DEF HeightsSeen, TypeOK
  <2>9. Placed'
    <3> SUFFICES ASSUME NEW m \in Node, NEW k \in 0 .. numQueues - 1
                 PROVE  m \in queues'[k] <=> height_in_rch'[m] = k
      BY DEF Placed
    <3>1. m \in queues[k] <=> height_in_rch[m] = k
      BY DEF Placed
    <3> QED BY <2>5, <3>1
  <2>10. Members' = Members \ {popped'} /\ popped' \in Members
    BY <2>2, <2>4, <2>5 DEF Members, TypeOK
  <2>11. length' = Cardinality(Members')
    BY <2>5, <2>10, MembersFinite, FS_RemoveElement
  <2> QED BY <2>6, <2>7, <2>8, <2>9, <2>11
<1> QED BY <1>1, <1>2

LEMMA MinHeightInv ==
  ASSUME IInv, MinHeight
  PROVE  IInv'
<1> USE DEF IInv, MinHeight, limitVars
<1>1. DOMAIN queues = 0 .. numQueues - 1
  BY DEF TypeOK
<1>2. lowest' \in Nat /\ \A k \in 0 .. numQueues - 1 : k < lowest' => queues[k] = {}
  <2>1. CASE length = 0
    <3>1. Members = {}
      BY <2>1, MembersFinite, FS_EmptySet
    <3>2. \A k \in 0 .. numQueues - 1 : queues[k] = {}
      BY <3>1 DEF Members, Placed, TypeOK
    <3> QED BY <2>1, <3>2 DEF TypeOK
  <2>2. CASE length # 0
    BY <2>2, StopFound
  <2> QED BY <2>1, <2>2
<1>3. TypeOK'
  BY <1>2 DEF TypeOK
<1>4. LowerBound'
  BY <1>1, <1>2 DEF LowerBound
<1>5. HeightsSeen' /\ Placed' /\ Members' = Members
  BY DEF HeightsSeen, Placed, Members
<1> QED BY <1>3, <1>4, <1>5

LEMMA SetMaxHeightAllowedInv ==
  ASSUME IInv, NEW new \in NewMaxHeights, SetMaxHeightAllowed(new), RoomForSeen
  PROVE  IInv'
<1> USE DEF IInv, SetMaxHeightAllowed, RoomForSeen
<1>1. new \in Nat /\ numQueues' = new
  BY LimitAssumption
<1>2. DOMAIN queues = 0 .. numQueues - 1 /\ DOMAIN queues' = 0 .. new - 1
  BY DEF TypeOK
<1>3. TypeOK'
  BY <1>1, <1>2 DEF TypeOK, Lesser
<1>4. LowerBound'
  BY <1>1, <1>2 DEF LowerBound, Lesser, TypeOK
<1>5. HeightsSeen'
  BY <1>1 DEF HeightsSeen
<1>6. Placed'
  <2> SUFFICES ASSUME NEW m \in Node, NEW h \in 0 .. new - 1
               PROVE  m \in queues'[h] <=> height_in_rch'[m] = h
    BY <1>1 DEF Placed
  <2>1. CASE h < numQueues
    <3>1. m \in queues[h] <=> height_in_rch[m] = h
      BY <2>1, <1>1 DEF Placed, TypeOK
    <3> QED BY <2>1, <3>1
  <2>2. CASE ~(h < numQueues)
    <3>1. height_in_rch[m] < numQueues
      BY DEF HeightsSeen, TypeOK
    <3> QED BY <2>2, <3>1
  <2> QED BY <2>1, <2>2
<1>7. Members' = Members
  BY DEF Members
<1> QED BY <1>3, <1>4, <1>5, <1>6, <1>7

LEMMA ClearInv ==
  ASSUME IInv, Clear
  PROVE  IInv'
<1> USE DEF IInv, Clear
<1>1. TypeOK' /\ cleared'
  BY DEF TypeOK, I32Max
<1>2. LowerBound' /\ HeightsSeen'
  BY DEF LowerBound, HeightsSeen
<1> QED BY <1>1, <1>2

LEMMA StepInv == IInv /\ [Next /\ RoomForSeen]_vars => IInv'
<1> SUFFICES ASSUME IInv, [Next /\ RoomForSeen]_vars PROVE IInv'
  OBVIOUS
<1>1. ASSUME NEW n \in Node, Insert(n) PROVE IInv'
  BY <1>1, InsertInv
<1>2. ASSUME NEW n \in Node, Remove(n) PROVE IInv'
  BY <1>2, RemoveInv
<1>3. ASSUME NEW n \in Node, IncreaseHeight(n) PROVE IInv'
  BY <1>3, IncreaseHeightInv
<1>4. ASSUME NEW n \in Node, NEW h \in Heights, SetHeight(n, h) PROVE IInv'
  BY <1>4, SetHeightInv
<1>5. CASE RemoveMin
  BY <1>5, RemoveMinInv
<1>6. CASE MinHeight
  BY <1>6, MinHeightInv
<1>7. ASSUME NEW new \in NewMaxHeights, SetMaxHeightAllowed(new), RoomForSeen PROVE IInv'
  BY <1>7, SetMaxHeightAllowedInv
<1>8. CASE Clear
  BY <1>8, ClearInv
<1>9. CASE UNCHANGED vars
  BY <1>9 DEF IInv, TypeOK, LowerBound, HeightsSeen, Placed, Members, vars, heapVars, limitVars
<1> QED
  BY <1>1, <1>2, <1>3, <1>4, <1>5, <1>6, <1>7, <1>8, <1>9 DEF Next

THEOREM Invariant == RoomySpec => []IInv
<1> QED
  BY InitInv, StepInv, PTL DEF RoomySpec

(***************************************************************************)
(* No queued node is below the bound that the searches start from, for     *)
(* every interleaving of inserts, removals and height changes.             *)
(***************************************************************************)
THEOREM NothingBelowBound == RoomySpec => []LowerBound
<1>1. IInv => LowerBound
  BY DEF IInv
<1> QED BY <1>1, Invariant, PTL

(***************************************************************************)
(* The queues, the heights recorded in the nodes and the length agree.     *)
(***************************************************************************)
THEOREM RecordsAgree == RoomySpec => []QueuesAgree
<1> QED BY AgreeFromInv, Invariant, PTL

-----------------------------------------------------------------------------
(***************************************************************************)
(* The refinement.  prio is the height that a node in a queue has recorded;*)
(* by the invariant that is height_in_recompute_heap itself until Clear.   *)
(***************************************************************************)
prioOf == [n \in Node |-> IF n \in InQueue THEN height_in_rch[n] ELSE -1]

LEMMA PrioIsRecorded == IInv /\ ~cleared => prioOf = height_in_rch
<1> SUFFICES ASSUME IInv, ~cleared PROVE prioOf = height_in_rch
  OBVIOUS
<1>1. InQueue = Members
  BY InQueueIsMembers DEF IInv
<1>2. \A n \in Node : n \notin InQueue => height_in_rch[n] = -1
  BY <1>1 DEF Members, IInv, TypeOK
<1> QED
  BY <1>2 DEF prioOf, IInv, TypeOK

LEMMA InitRefines == Init => Queue!Init
<1> SUFFICES ASSUME Init PROVE Queue!Init
  OBVIOUS
<1>1. InQueue = {}
  BY LimitAssumption DEF Init, InQueue
<1>2. [n \in Node |-> IF n \in InQueue THEN height_in_rch[n] ELSE -1] = [n \in Node |-> -1]
  BY <1>1
<1>3. MaxHeightAllowed = MaxHeight
  BY LimitAssumption DEF Init, MaxHeightAllowed
<1> QED
  BY <1>2, <1>3 DEF Init, Queue!Init, Queue!Absent

\* The abstract node of least height is one at the head of the first queue in use.
LEMMA FirstIsLeast ==
  ASSUME IInv, ~cleared, prioOf = height_in_rch, length # 0,
         NEW h \in PossibleStops, StopsAt(h), NEW n \in Node, height_in_rch[n] = h
  PROVE  Queue!Least(n)
<1>1. \A k \in 0 .. numQueues - 1 : k < h => queues[k] = {}
  BY StopFound DEF IInv
<1>2. h \in Nat
  BY StopFound DEF IInv
<1>3. ASSUME NEW m \in Node, height_in_rch[m] # -1
      PROVE  h <= height_in_rch[m]
  <2>1. height_in_rch[m] \in 0 .. numQueues - 1 /\ m \in queues[height_in_rch[m]]
    BY <1>3 DEF IInv, TypeOK, HeightsSeen, Placed
  <2> QED BY <1>1, <1>2, <2>1
<1> QED
  BY <1>2, <1>3 DEF Queue!Least, Queue!Queued, Queue!Absent, prioOf

LEMMA StepRefines == IInv /\ IInv' /\ [Next]_vars => [Queue!Next]_(Queue!queueVars)
<1> SUFFICES ASSUME IInv, IInv', [Next]_vars
             PROVE  Queue!Next \/ UNCHANGED Queue!queueVars
  OBVIOUS
<1> DEFINE P == [n \in Node |-> IF n \in InQueue THEN height_in_rch[n] ELSE -1]
<1>1. ~cleared => P = height_in_rch
  BY PrioIsRecorded DEF prioOf
<1>2. ~cleared' => P' = height_in_rch'
  <2>1. (IInv /\ ~cleared => prioOf = height_in_rch)'
    BY PrioIsRecorded, PTL
  <2> QED BY <2>1 DEF prioOf
<1>3. TypeOK /\ HeightsSeen /\ HeightsSeen'
  BY DEF IInv
<1> USE DEF limitVars, MaxHeightAllowed, Queue!Absent, Queue!Queued
<1> HIDE DEF P
<1>4. ASSUME NEW n \in Node, NEW h \in Heights, SetHeight(n, h)
      PROVE  UNCHANGED Queue!queueVars
  <2>1. P' = P
    BY <1>1, <1>2, <1>4 DEF SetHeight, heapVars
  <2> QED BY <1>4, <2>1 DEF SetHeight, Queue!queueVars, P
<1>5. ASSUME NEW n \in Node, Insert(n) PROVE Queue!Insert(n)
  <2>1. height[n] \in 0 .. MaxHeightAllowed /\ height_in_rch[n] = -1
    BY <1>3, <1>5 DEF Insert, IsInHeap, TypeOK
  <2>2. P[n] = -1 /\ P' = [P EXCEPT ![n] = height[n]]
    BY <1>1, <1>2, <1>5, <2>1 DEF Insert
  <2> QED BY <1>5, <2>1, <2>2 DEF Insert, Queue!Insert, P
<1>6. ASSUME NEW n \in Node, Remove(n) PROVE Queue!Remove(n)
  <2>1. P[n] # -1 /\ P' = [P EXCEPT ![n] = -1]
    BY <1>1, <1>2, <1>3, <1>6 DEF Remove, IsInHeap, TypeOK
  <2> QED BY <1>6, <2>1 DEF Remove, Queue!Remove, P
<1>7. ASSUME NEW n \in Node, IncreaseHeight(n) PROVE Queue!Increase(n)
  <2>1. /\ height[n] \in 0 .. MaxHeightAllowed
        /\ height_in_rch[n] # -1
        /\ height[n] > height_in_rch[n]
    BY <1>3, <1>7 DEF IncreaseHeight, IsInHeap, TypeOK
  <2>2. P[n] = height_in_rch[n] /\ P' = [P EXCEPT ![n] = height[n]]
    BY <1>1, <1>2, <1>7 DEF IncreaseHeight
  <2> QED BY <1>7, <2>1, <2>2 DEF IncreaseHeight, Queue!Increase, P
<1>8. CASE RemoveMin
  <2>1. ~cleared /\ ~cleared' /\ UNCHANGED <<numQueues, lowest>>
    BY <1>8 DEF RemoveMin
  <2>2. CASE length = 0
    <3>1. P' = P /\ popped' = NoNode
      BY <1>1, <1>2, <1>8, <2>1, <2>2 DEF RemoveMin, heapVars
    <3>2. Members = {}
      BY <2>1, <2>2, MembersFinite, FS_EmptySet DEF IInv
    <3>3. \A n \in Node : P[n] = -1
      BY <1>1, <1>3, <2>1, <3>2 DEF Members, TypeOK
    <3> QED BY <2>1, <3>1, <3>3 DEF Queue!Next, Queue!RemoveMin, P
  <2>3. CASE length # 0
    <3>1. PICK h \in PossibleStops :
            /\ StopsAt(h)
            /\ popped' \in IF h \in DOMAIN queues THEN queues[h] ELSE {NoNode}
      BY <1>8, <2>3 DEF RemoveMin
    <3>2. h \in DOMAIN queues /\ Placed
      BY <2>1, <2>3, <3>1, StopFound DEF IInv, TypeOK
    <3>3. popped' \in Node /\ height_in_rch[popped'] = h
      BY <1>3, <3>1, <3>2 DEF TypeOK, Placed
    <3>4. Queue!Least(popped')
      BY <1>1, <2>1, <2>3, <3>1, <3>3, FirstIsLeast DEF P, prioOf
    <3>5. P' = [P EXCEPT ![popped'] = -1]
      BY <1>1, <1>2, <1>3, <1>8, <2>1, <2>3, <3>3 DEF RemoveMin, TypeOK
    <3> QED BY <2>1, <3>3, <3>4, <3>5 DEF Queue!Next, Queue!RemoveMin, P
  <2> QED BY <2>2, <2>3
<1>9. CASE MinHeight
  <2>1. ~cleared /\ ~cleared' /\ UNCHANGED <<numQueues, popped>>
    BY <1>9 DEF MinHeight
  <2>2. P' = P
    BY <1>1, <1>2, <1>9, <2>1 DEF MinHeight
  <2>3. CASE length = 0
    <3>1. Members = {}
      BY <2>1, <2>3, MembersFinite, FS_EmptySet DEF IInv
    <3>2. \A n \in Node : P[n] = -1
      BY <1>1, <1>3, <2>1, <3>1 DEF Members, TypeOK
    <3>3. lowest' = MaxHeightAllowed + 1
      BY <1>3, <1>9, <2>3 DEF MinHeight, TypeOK
    <3> QED BY <2>1, <2>2, <3>2, <3>3 DEF Queue!Next, Queue!MinHeight, P
  <2>4. CASE length # 0
    <3>1. PICK h \in PossibleStops : StopsAt(h) /\ lowest' = h
      BY <1>9, <2>4 DEF MinHeight
    <3>2. h \in DOMAIN queues /\ queues[h] # {} /\ Placed
      BY <2>1, <2>4, <3>1, StopFound DEF IInv, TypeOK
    <3>3. PICK n \in Node : height_in_rch[n] = h
      BY <1>3, <3>2 DEF TypeOK, Placed
    <3>4. Queue!Least(n)
      BY <1>1, <2>1, <2>4, <3>1, <3>3, FirstIsLeast DEF P, prioOf
    <3>5. lowest' = P[n]
      BY <1>1, <2>1, <3>1, <3>3
    <3> QED BY <2>1, <2>2, <3>4, <3>5 DEF Queue!Next, Queue!MinHeight, P
  <2> QED BY <2>3, <2>4
<1>10. ASSUME NEW new \in NewMaxHeights, SetMaxHeightAllowed(new) PROVE Queue!SetLimit
  <2>1. P = height_in_rch /\ P' = P /\ UNCHANGED <<popped, lowest>>
    BY <1>1, <1>2, <1>10 DEF SetMaxHeightAllowed
  <2>2. MaxHeightAllowed' \in Int
    BY DEF IInv, TypeOK
  <2>3. \A n \in Node : height_in_rch[n] <= MaxHeightAllowed'
    <3>1. height_in_rch' = height_in_rch /\ TypeOK' /\ HeightsSeen'
      BY <1>10 DEF SetMaxHeightAllowed, IInv
    <3> QED BY <3>1 DEF HeightsSeen, TypeOK
  <2> QED BY <2>1, <2>2, <2>3 DEF Queue!SetLimit, P
<1>11. CASE Clear
  <2>1. InQueue' = {}
    BY <1>3, <1>11 DEF Clear, InQueue, TypeOK
  <2>2. P' = [n \in Node |-> -1]
    BY <2>1 DEF P
  <2> QED BY <1>11, <2>2 DEF Clear, Queue!Next, Queue!Clear, P
<1>12. CASE UNCHANGED vars
  <2>1. InQueue' = InQueue
    BY <1>12 DEF vars, heapVars, InQueue
  <2>2. P' = P
    BY <1>12, <2>1 DEF vars, heapVars, P
  <2> QED BY <1>12, <2>2 DEF vars, Queue!queueVars, P
<1> QED
  BY <1>4, <1>5, <1>6, <1>7, <1>8, <1>9, <1>10, <1>11, <1>12 DEF Next, Queue!Next

(***************************************************************************)
(* The lazily bounded array of queues is a priority queue: remove_min      *)
(* returns a node of the least height whenever one is queued, and nothing  *)
(* queued is lost when the limit changes.                                  *)
(***************************************************************************)
THEOREM Refinement == RoomySpec => ImplementsQueue
<1>1. IInv /\ IInv' /\ [Next /\ RoomForSeen]_vars => [Queue!Next]_(Queue!queueVars)
  BY StepRefines
<1> QED
  BY <1>1, InitRefines, Invariant, PTL DEF RoomySpec, ImplementsQueue, Queue!Spec

-----------------------------------------------------------------------------
(***************************************************************************)
(* The adjust-heights heap.                                                *)
(***************************************************************************)
\* All edges but the new one were right at the call.
EdgesRise ==
  \A c \in Node : \A n \in above[c] : (c = child /\ n = parent) \/ before[c] < before[n]

NewEdge == before[child] >= before[parent]

\* Before the loop nothing is raised.
AtCall ==
  outcome = "called" =>
    /\ height = before
    /\ lowerBound = before[parent]
    /\ \A n \in Node : inHeap[n] = -1

\* What is in the heap is raised and to be visited, what is raised and not in it was visited.
HeapOrder ==
  \A n \in Node :
    /\ height[n] >= before[n]
    /\ inHeap[n] # -1 => inHeap[n] = before[n] /\ before[n] >= lowerBound /\ Raised(n)
    /\ inHeap[n] = -1 /\ Raised(n) => before[n] <= lowerBound

\* Raising original_child would be a cycle.
ChildStays == ~Raised(child) /\ inHeap[child] = -1

\* A node whose height is final.
Final(c) == c = child \/ (Raised(c) /\ inHeap[c] = -1)

\* A raised node is just above one whose height is final.
RaisedForCause ==
  \A n \in Node : Raised(n) => \E c \in Node :
    n \in above[c] /\ height[n] = height[c] + 1 /\ Final(c)

\* What is not respected yet is asked for by a node in the heap.
RespectedByVisited ==
  outcome \in {"running", "returned"} =>
    \A c \in Node : inHeap[c] = -1 => \A n \in above[c] : height[c] < height[n]

QueuedByVisited == \A n \in Node : inHeap[n] = -1 => queuedAt[n] \in {-1, height[n]}

RaisedAboveParent == \A n \in Node : Raised(n) => n = parent \/ n \in AllAbove(above, parent)

EmptyAtReturn == outcome = "returned" => \A n \in Node : inHeap[n] = -1

\* The inductive invariant.
AdjustIInv ==
  /\ AdjustTypeOK
  /\ EdgesRise
  /\ NewEdge
  /\ AtCall
  /\ HeapOrder
  /\ ChildStays
  /\ RaisedForCause
  /\ RespectedByVisited
  /\ QueuedByVisited
  /\ RaisedAboveParent
  /\ EmptyAtReturn
  /\ outcome = "cyclic" => Cyclic

-----------------------------------------------------------------------------
\* What is above a node above p, or above p, is above p.
LEMMA AllAboveClosed ==
  ASSUME NEW p \in Node, NEW c \in Node, NEW n \in above[c], above \in [Node -> SUBSET Node],
         c = p \/ c \in AllAbove(above, p)
  PROVE  n \in AllAbove(above, p)
<1> SUFFICES ASSUME NEW S \in SUBSET Node, above[p] \subseteq S, Closed(above, S)
             PROVE  n \in S
  BY DEF AllAbove
<1>1. CASE c = p
  BY <1>1
<1>2. CASE c \in AllAbove(above, p)
  <2>1. c \in S
    BY <1>2 DEF AllAbove
  <2> QED BY <2>1 DEF Closed
<1> QED BY <1>1, <1>2

\* Heights and queue numbers are integers, and no height is negative.
LEMMA HeightsAreIntegers ==
  ASSUME AdjustTypeOK
  PROVE  \A n \in Node : height[n] \in Int /\ before[n] \in Int /\ height[n] >= 0 /\ inHeap[n] \in Int
<1>1. HeightRange \subseteq Int /\ \A h \in HeightRange : h >= 0
  BY MaxHeightAssumption DEF HeightRange
<1>2. height \in [Node -> HeightRange] /\ before \in [Node -> HeightRange]
      /\ inHeap \in [Node -> HeightRange \union {-1}]
  BY DEF AdjustTypeOK
<1>3. \A h \in HeightRange \union {-1} : h \in Int
  BY <1>1
<1> QED BY <1>1, <1>2, <1>3

\* The heights forbid what they respect to be a cycle.
LEMMA RespectedIsAcyclic ==
  ASSUME AdjustTypeOK, Respected(above, height)
  PROVE  ~Cyclic
<1>1. above \in [Node -> SUBSET Node] /\ child \in Node /\ parent \in above[child]
  BY DEF AdjustTypeOK
<1>2. parent \in Node /\ DOMAIN above = Node
  BY <1>1
<1>3. \A n \in Node : height[n] \in Int
  BY HeightsAreIntegers
<1>4. \A c \in Node : \A n \in above[c] : n \in Node /\ height[c] < height[n]
  BY <1>1, <1>2 DEF Respected
<1> DEFINE S == {m \in Node : height[parent] < height[m]}
<1>5. above[parent] \subseteq S /\ S \in SUBSET DOMAIN above
  BY <1>2, <1>4
<1>6. Closed(above, S)
  <2> SUFFICES ASSUME NEW c \in S, NEW n \in above[c] PROVE n \in S
    BY DEF Closed
  <2> QED BY <1>2, <1>3, <1>4
<1>7. child \notin S /\ child # parent
  BY <1>1, <1>2, <1>3, <1>4
<1> HIDE DEF S
<1>8. child \notin AllAbove(above, parent)
  BY <1>5, <1>6, <1>7 DEF AllAbove
<1> QED BY <1>7, <1>8 DEF Cyclic

\* Every call that can be made starts in a state of the invariant.
LEMMA AdjustInitInv == AdjustInit => AdjustIInv
<1> SUFFICES ASSUME AdjustInit PROVE AdjustIInv
  OBVIOUS
<1> USE DEF AdjustInit
<1>1. PICK edges \in SUBSET {e \in Node \X Node : before[e[1]] < before[e[2]]} :
        above = [c \in Node |-> {n \in Node : <<c, n>> \in edges \union {<<child, parent>>}}]
  OBVIOUS
<1>2. AdjustTypeOK
  <2>1. above \in [Node -> SUBSET Node] /\ parent \in above[child]
    BY <1>1
  <2>2. lowerBound \in HeightRange /\ height \in [Node -> HeightRange]
    OBVIOUS
  <2>3. inHeap \in [Node -> HeightRange \union {-1}]
    OBVIOUS
  <2>4. queuedAt \in [Node -> HeightRange \union {-1}]
    OBVIOUS
  <2> QED BY <2>1, <2>2, <2>3, <2>4 DEF AdjustTypeOK
<1>3. EdgesRise
  BY <1>1 DEF EdgesRise
<1>4. \A n \in Node : ~Raised(n) /\ inHeap[n] = -1 /\ height[n] \in Int
  BY MaxHeightAssumption DEF Raised, HeightRange
<1> QED BY <1>2, <1>3, <1>4 DEF AdjustIInv, NewEdge, AtCall, HeapOrder, ChildStays, RaisedForCause,
             RespectedByVisited, QueuedByVisited, RaisedAboveParent, EmptyAtReturn, Raised,
             HeightRange

\* What ensure_height_requirement does for the nodes of S when it does not panic.
LEMMA EnsureEffect ==
  ASSUME NEW c, NEW S, NEW h, EnsureHeightRequirements(c, S, h), outcome' = "running"
  PROVE  /\ child \notin S
         /\ TooLow(c, S) # {} => ~(height[c] + 1 > Limit)
         /\ height' = [n \in Node |-> IF n \in TooLow(c, S) THEN height[c] + 1 ELSE height[n]]
         /\ inHeap' = [n \in Node |-> IF n \in TooLow(c, S) /\ h[n] = -1 THEN height[n] ELSE h[n]]
<1>1. ~Panics(c, S)
  BY DEF Panics
<1>2. child \notin S
  BY <1>1 DEF EnsureHeightRequirements
<1>3. child \notin TooLow(c, S)
  BY <1>2 DEF TooLow
<1>4. ~TooHigh(c, S) /\ TooLow(c, S) \ {child} = TooLow(c, S)
  BY <1>1, <1>3 DEF EnsureHeightRequirements
<1> QED BY <1>1, <1>2, <1>4 DEF EnsureHeightRequirements, TooHigh

(***************************************************************************)
(* The first ensure_height_requirement, for the new edge: it raises the    *)
(* parent alone, or panics.                                                *)
(***************************************************************************)
LEMMA BeginInv == AdjustIInv /\ Begin => AdjustIInv'
<1> SUFFICES ASSUME AdjustIInv, Begin PROVE AdjustIInv'
  OBVIOUS
<1>1. /\ outcome = "called" /\ height = before /\ lowerBound = before[parent]
      /\ \A n \in Node : inHeap[n] = -1
  BY DEF AdjustIInv, AtCall, Begin
<1>2. UNCHANGED <<above, child, parent, before, lowerBound, queuedAt>>
  BY DEF Begin, call
<1>3. AdjustTypeOK /\ child \in Node /\ parent \in Node /\ parent \in above[child]
  BY DEF AdjustIInv, AdjustTypeOK
<1>4. \A n \in Node : height[n] \in Int /\ before[n] \in Int /\ height[n] >= 0
  BY <1>3, HeightsAreIntegers
<1>5. EdgesRise'
  BY <1>2 DEF AdjustIInv, EdgesRise
<1>6. CASE outcome' \in {"cyclic", "too high"} /\ UNCHANGED <<height, inHeap>>
  <2>1. AdjustTypeOK'
    BY <1>2, <1>3, <1>6 DEF AdjustTypeOK
  <2>2. outcome' = "cyclic" => Cyclic'
    BY <1>2, <1>3, <1>6 DEF Begin, EnsureHeightRequirements, Panics, Cyclic
  <2> QED
    BY <2>1, <2>2, <1>2, <1>5, <1>6 DEF AdjustIInv, NewEdge, AtCall, HeapOrder, ChildStays, RaisedForCause, Final,
         RespectedByVisited, QueuedByVisited, RaisedAboveParent, EmptyAtReturn, Raised
<1>7. CASE outcome' = "running"
  <2>1. /\ child # parent
        /\ TooLow(child, {parent}) # {} => ~(height[child] + 1 > Limit)
        /\ height' = [n \in Node |-> IF n \in TooLow(child, {parent}) THEN height[child] + 1
                                     ELSE height[n]]
        /\ inHeap' = [n \in Node |-> IF n \in TooLow(child, {parent}) /\ inHeap[n] = -1
                                     THEN height[n] ELSE inHeap[n]]
    BY <1>7, EnsureEffect DEF Begin
  <2>2. TooLow(child, {parent}) = {parent}
    BY <1>1, <1>3, <1>4 DEF AdjustIInv, TooLow, NewEdge
  <2>3. \A n \in Node :
          /\ height'[n] = IF n = parent THEN height[child] + 1 ELSE height[n]
          /\ inHeap'[n] = IF n = parent THEN height[n] ELSE -1
    BY <2>2, <2>1, <1>1
  <2>4. height[parent] < height'[parent] /\ height'[parent] \in HeightRange
    <3>1. ~(height[child] + 1 > Limit)
      BY <2>2, <2>1
    <3>2. height[parent] <= height[child]
      BY <1>1, <1>3, <1>4 DEF AdjustIInv, NewEdge
    <3> QED BY <3>1, <3>2, <2>3, <1>3, <1>4, MaxHeightAssumption DEF HeightRange
  <2>5. AdjustTypeOK'
    <3>1. height' \in [Node -> HeightRange]
      BY <2>1, <2>3, <2>4, <1>3 DEF AdjustTypeOK
    <3>2. inHeap' \in [Node -> HeightRange \union {-1}]
      BY <2>1, <2>3, <1>3 DEF AdjustTypeOK
    <3> QED BY <3>1, <3>2, <1>2, <1>3, <1>7 DEF AdjustTypeOK
  <2>6. \A n \in Node : Raised(n)' <=> n = parent
    BY <1>1, <1>2, <1>3, <1>4, <2>3, <2>4 DEF Raised
  <2>7. HeapOrder'
    BY <1>1, <1>2, <1>3, <1>4, <2>3, <2>4, <2>6 DEF HeapOrder
  <2>8. ChildStays'
    BY <1>2, <1>3, <2>1, <2>3, <2>6 DEF ChildStays
  <2>9. RaisedForCause'
    BY <1>2, <1>3, <2>1, <2>3, <2>6 DEF RaisedForCause, Final
  <2>10. RespectedByVisited'
    <3> SUFFICES ASSUME NEW c \in Node, inHeap'[c] = -1, NEW n \in above[c]
                 PROVE  height'[c] < height'[n]
      BY <1>2 DEF RespectedByVisited
    <3>1. n \in Node
      BY <1>3 DEF AdjustTypeOK
    <3>2. c # parent
      BY <3>1, <1>3, <1>4, <2>3
    <3>3. CASE c = child /\ n = parent
      BY <3>1, <3>2, <3>3, <2>3, <1>3, <1>4
    <3>4. CASE before[c] < before[n]
      BY <3>1, <3>2, <3>4, <2>3, <2>4, <1>1, <1>3, <1>4
    <3> QED BY <3>3, <3>4 DEF AdjustIInv, EdgesRise
  <2>11. QueuedByVisited'
    BY <1>1, <1>2, <2>3 DEF AdjustIInv, QueuedByVisited
  <2>12. RaisedAboveParent'
    BY <1>2, <2>6 DEF RaisedAboveParent
  <2> QED BY <1>2, <1>5, <1>7, <2>5, <2>7, <2>8, <2>9, <2>10, <2>11, <2>12
          DEF AdjustIInv, AtCall, EmptyAtReturn, NewEdge
<1> QED BY <1>6, <1>7 DEF Begin, EnsureHeightRequirements, Panics

(***************************************************************************)
(* One turn of the loop: the node taken out of the heap raises the nodes   *)
(* above it that are too low.  None of them has been visited, because they *)
(* were higher than it at the call.                                        *)
(***************************************************************************)
LEMMA VisitInv == ASSUME AdjustIInv, NEW c \in Node, Visit(c) PROVE AdjustIInv'
<1> DEFINE T == TooLow(c, above[c])
<1>1. /\ outcome = "running" /\ lowerBound' = before[c] /\ inHeap[c] = before[c] /\ Raised(c)
      /\ before[c] >= lowerBound
      /\ \A n \in Node : inHeap[n] # -1 => before[c] <= before[n]
  BY DEF AdjustIInv, HeapOrder, Visit, IsMin
<1>2. UNCHANGED <<above, child, parent, before>>
  BY DEF Visit, call
<1>3. AdjustTypeOK /\ child \in Node /\ parent \in Node /\ parent \in above[child]
  BY DEF AdjustIInv, AdjustTypeOK
<1>4. \A n \in Node : height[n] \in Int /\ before[n] \in Int /\ height[n] >= 0 /\ inHeap[n] \in Int
  BY <1>3, HeightsAreIntegers
<1>5. EdgesRise' /\ NewEdge'
  BY <1>2 DEF AdjustIInv, EdgesRise, NewEdge
<1>6. c # child
  BY <1>1 DEF AdjustIInv, ChildStays
<1>7. \A n \in above[c] : n \in Node /\ before[c] < before[n]
  BY <1>3, <1>6 DEF AdjustIInv, EdgesRise, AdjustTypeOK
<1>8. lowerBound \in Int /\ before[c] \in HeightRange
  <2>1. lowerBound \in HeightRange /\ before \in [Node -> HeightRange]
    BY <1>3 DEF AdjustTypeOK
  <2>2. HeightRange \subseteq Int
    BY MaxHeightAssumption DEF HeightRange
  <2> QED BY <2>1, <2>2
<1>9. /\ queuedAt' \in [Node -> HeightRange \union {-1}]
      /\ \A n \in Node : queuedAt'[n] = IF n = c /\ queuedAt[n] # -1 THEN height[n] ELSE queuedAt[n]
  BY <1>3 DEF AdjustTypeOK, Visit
<1>10. CASE outcome' \in {"cyclic", "too high"} /\ UNCHANGED <<height, inHeap>>
  <2>1. AdjustTypeOK'
    BY <1>1, <1>2, <1>3, <1>8, <1>9, <1>10 DEF AdjustTypeOK
  <2>2. outcome' = "cyclic" => Cyclic'
    <3> SUFFICES ASSUME outcome' = "cyclic" PROVE Cyclic
      BY <1>2 DEF Cyclic
    <3>1. child \in above[c]
      BY DEF Visit, EnsureHeightRequirements, Panics
    <3>2. c = parent \/ c \in AllAbove(above, parent)
      BY <1>1 DEF AdjustIInv, RaisedAboveParent
    <3> QED BY <3>1, <3>2, <1>3, AllAboveClosed DEF AdjustTypeOK, Cyclic
  <2>3. HeapOrder'
    <3> SUFFICES ASSUME NEW n \in Node
                 PROVE  /\ height[n] >= before[n]
                        /\ inHeap[n] # -1 => inHeap[n] = before[n] /\ before[n] >= before[c] /\ Raised(n)
                        /\ inHeap[n] = -1 /\ Raised(n) => before[n] <= before[c]
      BY <1>1, <1>2, <1>10 DEF HeapOrder, Raised
    <3> QED BY <1>1, <1>4, <1>8 DEF AdjustIInv, HeapOrder
  <2>4. QueuedByVisited'
    BY <1>1, <1>4, <1>9, <1>10 DEF AdjustIInv, QueuedByVisited, HeapOrder
  <2> QED
    BY <2>1, <2>2, <2>3, <2>4, <1>2, <1>5, <1>10 DEF AdjustIInv, AtCall, ChildStays, RaisedForCause,
         Final, RespectedByVisited, RaisedAboveParent, EmptyAtReturn, Raised
<1>11. CASE outcome' = "running"
  <2>1. /\ child \notin above[c]
        /\ T # {} => ~(height[c] + 1 > Limit)
        /\ height' = [n \in Node |-> IF n \in T THEN height[c] + 1 ELSE height[n]]
        /\ inHeap' = [n \in Node |-> IF n \in T /\ [inHeap EXCEPT ![c] = -1][n] = -1
                                     THEN height[n] ELSE [inHeap EXCEPT ![c] = -1][n]]
    <3> DEFINE h == [inHeap EXCEPT ![c] = -1]
    <3>1. EnsureHeightRequirements(c, above[c], h)
      BY DEF Visit
    <3> HIDE DEF h
    <3>2. /\ child \notin above[c]
          /\ T # {} => ~(height[c] + 1 > Limit)
          /\ height' = [n \in Node |-> IF n \in T THEN height[c] + 1 ELSE height[n]]
          /\ inHeap' = [n \in Node |-> IF n \in T /\ h[n] = -1 THEN height[n] ELSE h[n]]
      BY <1>11, <3>1, EnsureEffect
    <3> QED BY <3>2 DEF h
  <2>2. \A n \in T : n \in Node /\ n \in above[c] /\ n # c /\ n # child /\ height[c] >= height[n]
    BY <1>4, <1>7, <2>1 DEF TooLow
  <2>3. \A n \in Node :
          /\ height'[n] = IF n \in T THEN height[c] + 1 ELSE height[n]
          /\ height'[n] >= height[n] /\ height'[n] \in Int
          /\ inHeap'[n] = IF n = c THEN -1
                          ELSE IF n \in T /\ inHeap[n] = -1 THEN height[n] ELSE inHeap[n]
    <3>1. inHeap \in [Node -> HeightRange \union {-1}]
      BY <1>3 DEF AdjustTypeOK
    <3>2. \A n \in Node : [inHeap EXCEPT ![c] = -1][n] = IF n = c THEN -1 ELSE inHeap[n]
      BY <3>1
    <3> HIDE DEF T
    <3> QED BY <3>2, <2>1, <2>2, <1>4
  <2> HIDE DEF T
  <2>4. \A n \in T : Raised(n)' /\ inHeap'[n] # -1
    BY <1>2, <1>4, <2>2, <2>3 DEF AdjustIInv, HeapOrder, Raised
  <2>5. \A n \in T : inHeap[n] = -1 => ~Raised(n)
    BY <1>1, <1>4, <1>7, <1>8, <2>2 DEF AdjustIInv, HeapOrder
  <2>6. \A n \in Node : n \notin T => (Raised(n)' <=> Raised(n))
    BY <1>2, <2>3 DEF Raised
  <2>7. AdjustTypeOK'
    <3>1. T # {} => height[c] + 1 \in HeightRange
      BY <2>1, <1>4, MaxHeightAssumption DEF HeightRange
    <3>2. height' \in [Node -> HeightRange]
      BY <2>1, <2>2, <3>1, <1>3 DEF AdjustTypeOK
    <3>3. inHeap' \in [Node -> HeightRange \union {-1}]
      BY <2>1, <1>3 DEF AdjustTypeOK
    <3> QED BY <3>2, <3>3, <1>1, <1>2, <1>3, <1>8, <1>9, <1>11 DEF AdjustTypeOK
  <2>8. HeapOrder'
    <3> SUFFICES ASSUME NEW n \in Node
                 PROVE  /\ height'[n] >= before[n]
                        /\ inHeap'[n] # -1 => inHeap'[n] = before[n] /\ before[n] >= before[c] /\ Raised(n)'
                        /\ inHeap'[n] = -1 /\ Raised(n)' => before[n] <= before[c]
      BY <1>1, <1>2 DEF HeapOrder
    <3>1. height'[n] >= before[n]
      BY <2>3, <1>4 DEF AdjustIInv, HeapOrder
    <3>2. CASE n \in T
      <4>1. inHeap'[n] = before[n]
        BY <2>2, <2>3, <2>5, <3>2 DEF AdjustIInv, HeapOrder, Raised
      <4> QED BY <4>1, <3>1, <3>2, <2>2, <2>4, <1>4, <1>7
    <3>3. CASE n \notin T
      BY <3>1, <3>3, <2>3, <2>6, <1>1, <1>4, <1>8 DEF AdjustIInv, HeapOrder
    <3> QED BY <3>2, <3>3
  <2>9. ChildStays'
    BY <1>2, <1>3, <1>6, <2>2, <2>3, <2>6 DEF AdjustIInv, ChildStays
  <2>10. \A d \in Node : Final(d) \/ d = c => Final(d)' /\ height'[d] = height[d]
    <3>1. \A d \in T : ~Final(d)
      BY <2>2, <2>5 DEF Final
    <3> QED BY <3>1, <2>2, <2>3, <2>6, <1>1, <1>2 DEF Final
  <2>11. RaisedForCause'
    <3> SUFFICES ASSUME NEW n \in Node, Raised(n)'
                 PROVE  \E d \in Node : n \in above[d] /\ height'[n] = height'[d] + 1 /\ Final(d)'
      BY <1>2 DEF RaisedForCause
    <3>1. CASE n \in T
      BY <3>1, <2>2, <2>3, <2>10
    <3>2. CASE n \notin T
      <4>1. PICK d \in Node : n \in above[d] /\ height[n] = height[d] + 1 /\ Final(d)
        BY <3>2, <2>6 DEF AdjustIInv, RaisedForCause
      <4> QED BY <4>1, <3>2, <2>3, <2>10
    <3> QED BY <3>1, <3>2
  <2>12. RespectedByVisited'
    <3> SUFFICES ASSUME NEW d \in Node, inHeap'[d] = -1, NEW n \in above[d]
                 PROVE  height'[d] < height'[n]
      BY <1>2 DEF RespectedByVisited
    <3>1. n \in Node /\ d \notin T
      BY <1>3, <2>4 DEF AdjustTypeOK
    <3>2. CASE d = c
      <4>1. height[c] < height'[n]
        <5>1. CASE n \in T
          BY <5>1, <2>3, <3>1, <1>4
        <5>2. CASE n \notin T
          BY <5>2, <2>3, <3>1, <3>2, <1>4 DEF TooLow, T
        <5> QED BY <5>1, <5>2
      <4> QED BY <4>1, <3>1, <3>2, <2>3
    <3>3. CASE d # c
      <4>1. height[d] < height[n]
        BY <3>1, <3>3, <2>3, <1>1 DEF AdjustIInv, RespectedByVisited
      <4> QED BY <4>1, <3>1, <2>3, <1>4
    <3> QED BY <3>2, <3>3
  <2>13. QueuedByVisited'
    BY <2>2, <2>3, <2>4, <1>1, <1>9 DEF AdjustIInv, QueuedByVisited
  <2>14. RaisedAboveParent'
    <3> SUFFICES ASSUME NEW n \in Node, Raised(n)'
                 PROVE  n = parent \/ n \in AllAbove(above, parent)
      BY <1>2 DEF RaisedAboveParent
    <3>1. c = parent \/ c \in AllAbove(above, parent)
      BY <1>1 DEF AdjustIInv, RaisedAboveParent
    <3>2. CASE n \in T
      BY <3>1, <3>2, <2>2, <1>3, AllAboveClosed DEF AdjustTypeOK
    <3>3. CASE n \notin T
      BY <3>3, <2>6 DEF AdjustIInv, RaisedAboveParent
    <3> QED BY <3>2, <3>3
  <2> QED BY <1>2, <1>5, <1>11, <2>7, <2>8, <2>9, <2>11, <2>12, <2>13, <2>14
          DEF AdjustIInv, AtCall, EmptyAtReturn
<1> QED BY <1>10, <1>11 DEF Visit, EnsureHeightRequirements, Panics

\* The loop ends when the heap is empty, and nothing else changes.
LEMMA ReturnInv == AdjustIInv /\ Return => AdjustIInv'
<1> SUFFICES ASSUME AdjustIInv, Return PROVE AdjustIInv'
  OBVIOUS
<1>1. UNCHANGED <<above, child, parent, before, height, inHeap, lowerBound, queuedAt>>
  BY DEF Return, call
<1>2. outcome = "running" /\ outcome' = "returned" /\ \A n \in Node : inHeap[n] = -1
  BY DEF Return
<1>3. AdjustTypeOK' /\ EdgesRise' /\ NewEdge' /\ AtCall'
  BY <1>1, <1>2 DEF AdjustIInv, AdjustTypeOK, EdgesRise, NewEdge, AtCall
<1>4. HeapOrder' /\ ChildStays'
  BY <1>1, <1>2 DEF AdjustIInv, HeapOrder, ChildStays, Raised
<1>5. RaisedForCause' /\ RespectedByVisited'
  BY <1>1, <1>2 DEF AdjustIInv, RaisedForCause, RespectedByVisited, Final, Raised
<1>6. QueuedByVisited' /\ RaisedAboveParent' /\ EmptyAtReturn'
  BY <1>1, <1>2 DEF AdjustIInv, QueuedByVisited, RaisedAboveParent, EmptyAtReturn, Raised
<1> QED BY <1>2, <1>3, <1>4, <1>5, <1>6 DEF AdjustIInv

\* The invariant is inductive.
LEMMA AdjustNextInv == AdjustIInv /\ [AdjustNext]_adjustVars => AdjustIInv'
<1>1. AdjustIInv /\ UNCHANGED adjustVars => AdjustIInv'
  <2> SUFFICES ASSUME AdjustIInv, UNCHANGED adjustVars PROVE AdjustIInv'
    OBVIOUS
  <2>1. UNCHANGED <<above, child, parent, before, height, inHeap, lowerBound, queuedAt, outcome>>
    BY DEF adjustVars, call, loop
  <2>2. AdjustTypeOK' /\ EdgesRise' /\ NewEdge' /\ AtCall'
    BY <2>1 DEF AdjustIInv, AdjustTypeOK, EdgesRise, NewEdge, AtCall
  <2>3. HeapOrder' /\ ChildStays'
    BY <2>1 DEF AdjustIInv, HeapOrder, ChildStays, Raised
  <2>4. RaisedForCause' /\ RespectedByVisited'
    BY <2>1 DEF AdjustIInv, RaisedForCause, RespectedByVisited, Final, Raised
  <2>5. QueuedByVisited' /\ RaisedAboveParent' /\ EmptyAtReturn'
    BY <2>1 DEF AdjustIInv, QueuedByVisited, RaisedAboveParent, EmptyAtReturn, Raised
  <2>6. outcome' = "cyclic" => Cyclic'
    BY <2>1 DEF AdjustIInv, Cyclic
  <2> QED BY <2>2, <2>3, <2>4, <2>5, <2>6 DEF AdjustIInv
<1> QED BY <1>1, BeginInv, VisitInv, ReturnInv DEF AdjustNext

\* IInv holds in every state.
THEOREM AdjustInvariance == AdjustSpec => []AdjustIInv
BY AdjustInitInv, AdjustNextInv, PTL DEF AdjustSpec

\* The call's arguments and the loop's state have their types throughout.
THEOREM AdjustTypeCorrect == AdjustSpec => []AdjustTypeOK
<1>1. AdjustIInv => AdjustTypeOK
  BY DEF AdjustIInv
<1> QED BY <1>1, AdjustInvariance, PTL

\* When the heap is empty, every edge rises.
LEMMA ReturnedRespected == AdjustIInv /\ outcome = "returned" => Respected(above, height)
  BY DEF AdjustIInv, EmptyAtReturn, RespectedByVisited, Respected, AdjustTypeOK

(***************************************************************************)
(* When adjust_heights returns, the heights are the least that are right,  *)
(* and the recompute heap agrees with them.                                *)
(***************************************************************************)
THEOREM HeightsLeast == AdjustSpec => []HeightsAreLeast
<1>1. AdjustIInv => HeightsAreLeast
  BY ReturnedRespected
     DEF AdjustIInv, EmptyAtReturn, HeapOrder, RaisedForCause, QueuedByVisited, HeightsAreLeast
<1> QED BY <1>1, AdjustInvariance, PTL

\* The call panics with a cycle only if there is one, and returns only if there is none.
THEOREM CyclesNoticed == AdjustSpec => []CycleNoticed
<1>1. AdjustIInv => CycleNoticed
  BY ReturnedRespected, RespectedIsAcyclic DEF AdjustIInv, CycleNoticed
<1> QED BY <1>1, AdjustInvariance, PTL

\* Each node is visited once, in the order of the heights at the call.
THEOREM EnteredOnce == AdjustSpec => EntersOnce
<1>1. AdjustIInv /\ [AdjustNext]_adjustVars => [EntersOnceStep]_adjustVars
  <2> SUFFICES ASSUME AdjustIInv, AdjustIInv', AdjustNext, NEW n \in Node, inHeap[n] = -1, inHeap'[n] # -1
               PROVE  inHeap'[n] = before[n] /\ ~Raised(n) /\ inHeap'[n] >= lowerBound'
    BY AdjustNextInv DEF EntersOnceStep
  <2>1. UNCHANGED before
    BY DEF AdjustNext, Begin, Visit, Return, call
  <2>2. inHeap'[n] = before[n] /\ inHeap'[n] >= lowerBound'
    BY <2>1 DEF AdjustIInv, HeapOrder
  <2>3. inHeap'[n] = height[n]
    <3>1. CASE Begin
      <4>1. outcome' = "running"
        BY <3>1 DEF Begin, EnsureHeightRequirements, Panics
      <4> QED BY <3>1, <4>1, EnsureEffect DEF Begin
    <3>2. CASE \E c \in Node : Visit(c)
      <4>1. PICK c \in Node : Visit(c)
        BY <3>2
      <4>2. outcome' = "running"
        BY <4>1 DEF Visit, EnsureHeightRequirements, Panics
      <4>3. inHeap' = [m \in Node |->
              IF m \in TooLow(c, above[c]) /\ [inHeap EXCEPT ![c] = -1][m] = -1
                THEN height[m] ELSE [inHeap EXCEPT ![c] = -1][m]]
        <5> DEFINE h == [inHeap EXCEPT ![c] = -1]
        <5>1. EnsureHeightRequirements(c, above[c], h)
          BY <4>1 DEF Visit
        <5> HIDE DEF h
        <5>2. inHeap' = [m \in Node |-> IF m \in TooLow(c, above[c]) /\ h[m] = -1
                                       THEN height[m] ELSE h[m]]
          BY <4>2, <5>1, EnsureEffect
        <5> QED BY <5>2 DEF h
      <4>4. [inHeap EXCEPT ![c] = -1][n] = -1
        BY DEF AdjustIInv, AdjustTypeOK
      <4> QED BY <4>3, <4>4
    <3>3. CASE Return
      BY <3>3 DEF Return
    <3> QED BY <3>1, <3>2, <3>3 DEF AdjustNext
  <2> QED BY <2>2, <2>3 DEF Raised
<1> QED BY <1>1, AdjustInvariance, PTL DEF EntersOnce, EntersOnceStep, AdjustSpec
=============================================================================
