-------------------------- MODULE PropagationProofs --------------------------
(***************************************************************************)
(* Proofs about Propagation, for every graph, every user function and any  *)
(* number of variables, observers and stabilisations.                      *)
(***************************************************************************)
EXTENDS Propagation, TLAPS

(***************************************************************************)
(* Facts about reachability in the graph.                                  *)
(***************************************************************************)

\* The children of a node are nodes.
LEMMA ChildrenAreNodes ==
  ASSUME NEW n \in Node
  PROVE  ChildSet(n) \subseteq Node
BY GraphAssumption DEF ChildSet

\* Below[n] is a set of nodes.
LEMMA BelowType ==
  ASSUME NEW n \in Node
  PROVE  Below[n] \subseteq Node
BY DEF Below

\* A child is below its parent, and so is everything below the child.
LEMMA BelowContains ==
  ASSUME NEW n \in Node
  PROVE  /\ ChildSet(n) \subseteq Below[n]
         /\ \A m \in Below[n] : ChildSet(m) \subseteq Below[n]
<1>1. ASSUME NEW c \in ChildSet(n) PROVE c \in Below[n]
  BY <1>1, ChildrenAreNodes DEF Below
<1>2. ASSUME NEW m \in Below[n], NEW c \in ChildSet(m) PROVE c \in Below[n]
  <2>1. m \in Node /\ c \in Node
    BY BelowType, ChildrenAreNodes
  <2>2. SUFFICES ASSUME NEW S \in SUBSET Node, ChildSet(n) \subseteq S, ClosedUnderChildren(S)
                 PROVE  c \in S
    BY <2>1 DEF Below
  <2>3. m \in S
    BY <2>2 DEF Below
  <2>4. QED BY <2>2, <2>3 DEF ClosedUnderChildren
<1>3. QED BY <1>1, <1>2

\* Below[n] is the least set with that property.
LEMMA BelowLeast ==
  ASSUME NEW n \in Node, NEW S \in SUBSET Node,
         ChildSet(n) \subseteq S, ClosedUnderChildren(S)
  PROVE  Below[n] \subseteq S
BY DEF Below

\* Heights fall along Below, so that no node is below itself.
LEMMA BelowIsLower ==
  ASSUME NEW n \in Node, NEW m \in Below[n]
  PROVE  Height[m] < Height[n]
<1> DEFINE S == {k \in Node : Height[k] < Height[n]}
<1>1. ChildSet(n) \subseteq S
  BY ChildrenAreNodes, HeightAssumption
<1>2. ASSUME NEW k \in S, NEW c \in ChildSet(k) PROVE c \in S
  <2>1. c \in Node /\ Height[c] < Height[k] /\ Height[k] < Height[n]
    BY ChildrenAreNodes, HeightAssumption
  <2>2. Height[c] \in Nat /\ Height[k] \in Nat /\ Height[n] \in Nat
    BY <2>1, HeightAssumption
  <2>3. QED BY <2>1, <2>2
<1>3. ClosedUnderChildren(S)
  BY <1>2 DEF ClosedUnderChildren
<1>4. Below[n] \subseteq S
  <2> HIDE DEF S
  <2>1. S \in SUBSET Node BY DEF S
  <2>2. QED BY <1>1, <1>3, <2>1, BelowLeast
<1>5. QED BY <1>4

\* What is below a node is one of its children or below one of them.
LEMMA BelowUnfolds ==
  ASSUME NEW n \in Node, NEW m \in Below[n]
  PROVE  \E c \in ChildSet(n) : m = c \/ m \in Below[c]
<1> DEFINE S == {k \in Node : \E c \in ChildSet(n) : k = c \/ k \in Below[c]}
<1>1. ChildSet(n) \subseteq S
  BY ChildrenAreNodes
<1>2. ASSUME NEW k \in S, NEW d \in ChildSet(k) PROVE d \in S
  <2>1. PICK c \in ChildSet(n) : k = c \/ k \in Below[c]
    BY DEF S
  <2>2. c \in Node /\ k \in Node /\ d \in Node
    BY ChildrenAreNodes
  <2>3. d \in Below[c]
    BY <2>1, <2>2, BelowContains
  <2>4. QED BY <2>2, <2>3
<1>3. ClosedUnderChildren(S)
  BY <1>2 DEF ClosedUnderChildren
<1>4. Below[n] \subseteq S
  <2> HIDE DEF S
  <2>1. S \in SUBSET Node BY DEF S
  <2>2. QED BY <1>1, <1>3, <2>1, BelowLeast
<1>5. QED BY <1>4

\* A cone is closed: the children of a necessary node are necessary.
LEMMA ConeClosed ==
  ASSUME NEW R \in SUBSET Node
  PROVE  /\ R \subseteq Cone(R)
         /\ Cone(R) \subseteq Node
         /\ \A n \in Cone(R) : ChildSet(n) \subseteq Cone(R)
<1>1. R \subseteq Cone(R) BY DEF Cone
<1>2. Cone(R) \subseteq Node BY BelowType DEF Cone
<1>3. ASSUME NEW n \in Cone(R), NEW c \in ChildSet(n) PROVE c \in Cone(R)
  <2>1. CASE n \in R
    BY <2>1, BelowContains DEF Cone
  <2>2. CASE \E r \in R : n \in Below[r]
    <3>1. PICK r \in R : n \in Below[r] BY <2>2
    <3>2. c \in Below[r] BY <3>1, BelowContains
    <3>3. QED BY <3>1, <3>2 DEF Cone
  <2>3. QED BY <2>1, <2>2 DEF Cone
<1>4. QED BY <1>1, <1>2, <1>3

\* More roots keep more nodes necessary.
LEMMA ConeMonotone ==
  ASSUME NEW R, NEW T, R \subseteq T
  PROVE  Cone(R) \subseteq Cone(T)
BY DEF Cone

-----------------------------------------------------------------------------

(***************************************************************************)
(* The stamps on nodes and variables are not ahead of the current          *)
(* stabilisation, and only the nodes recomputed by it carry its number.    *)
(***************************************************************************)
Clock ==
  /\ \A v \in VarNode : setAt[v] <= stabilisation_num
  /\ \A n \in Node : changedAt[n] <= recomputedAt[n] /\ recomputedAt[n] <= stabilisation_num
  /\ status # "Stabilising" => \A n \in Node : recomputedAt[n] < stabilisation_num

\* Between stabilisations only variables wait to be recomputed.
Quiet ==
  status # "Stabilising" =>
    /\ direct = {}
    /\ \A n \in Necessary : Stale(n) => n \in VarNode

\* A node that has been recomputed has a value.
HasValue == \A n \in Node : recomputedAt[n] # Never => ValueOf(n) \in Value

\* A node that is not stale has the value it should have.
UpToDate ==
  \A n \in Node : ~Stale(n) =>
    /\ n \in VarNode => value[n] = varValue[n]
    /\ n \notin VarNode /\ ExactInputs(n) => Agrees(n)

\* The inductive invariant.
IInv ==
  /\ TypeOK
  /\ Clock
  /\ Quiet
  /\ heap \intersect direct = {}
  /\ StaleIsScheduled
  /\ OnlyStaleScheduled
  /\ BelowSettled
  /\ HasValue
  /\ UpToDate

-----------------------------------------------------------------------------
\* The parents of n that are linked to it.
LinkedParents(n) == {p \in Necessary : n \in ChildSet(p)}

LEMMA WatchedType ==
  ASSUME NEW os
  PROVE  /\ WatchedIn(os) \in SUBSET Node
         /\ NecessaryIn(os) \subseteq Node
         /\ \A n \in NecessaryIn(os) : ChildSet(n) \subseteq NecessaryIn(os)
<1>1. WatchedIn(os) \in SUBSET Node
  BY ObserverAssumption DEF WatchedIn
<1>2. QED BY <1>1, ConeClosed DEF NecessaryIn

LEMMA NecessaryType ==
  /\ Necessary \subseteq Node
  /\ \A n \in Necessary : ChildSet(n) \subseteq Necessary
BY WatchedType DEF Necessary

LEMMA NecessaryUnchanged ==
  ASSUME WatchedIn(obsState') = WatchedIn(obsState)
  PROVE  Necessary' = Necessary
BY DEF Necessary, NecessaryIn

\* A linked parent has an entry in the parents vector, and conversely.
LEMMA EdgesAndParents ==
  ASSUME NEW n \in Node
  PROVE  /\ \A e \in ParentEdges(n) : e[1] \in LinkedParents(n)
         /\ \A p \in LinkedParents(n) : \E e \in ParentEdges(n) : e[1] = p
<1>1. ASSUME NEW e \in ParentEdges(n) PROVE e[1] \in LinkedParents(n)
  <2>1. PICK p \in Necessary : e \in {<<p, i>> : i \in {j \in DOMAIN Children[p] : Children[p][j] = n}}
    BY DEF ParentEdges
  <2>2. PICK i \in DOMAIN Children[p] : Children[p][i] = n /\ e = <<p, i>>
    BY <2>1
  <2>3. QED BY <2>2 DEF LinkedParents, ChildSet
<1>2. ASSUME NEW p \in LinkedParents(n) PROVE \E e \in ParentEdges(n) : e[1] = p
  <2>1. PICK i \in DOMAIN Children[p] : Children[p][i] = n
    BY DEF LinkedParents, ChildSet
  <2>2. <<p, i>> \in ParentEdges(n)
    BY <2>1 DEF ParentEdges, LinkedParents
  <2>3. <<p, i>>[1] = p
    OBVIOUS
  <2>4. QED BY <2>2, <2>3
<1>3. QED BY <1>1, <1>2

(***************************************************************************)
(* What maybe_change_value_manual leaves scheduled: the heap as it was     *)
(* and, if n changed, every linked parent.  The one recomputed directly    *)
(* has no other child, or nothing in the heap is lower.                    *)
(***************************************************************************)
LEMMA PropagateSchedules ==
  ASSUME NEW n \in Node, NEW changed \in BOOLEAN, NEW q \in SUBSET Node,
         Propagate(n, changed, q)
  PROVE  /\ heap' \union direct' = q \union (IF changed THEN LinkedParents(n) ELSE {})
         /\ heap' \intersect direct' = {}
         /\ \A m1, m2 \in direct' : m1 = m2
         /\ \A p \in direct' : /\ changed
                               /\ p \in LinkedParents(n)
                               /\ \/ ChildSet(p) = {n}
                                  \/ \A m \in heap' : Height[p] <= Height[m]
<1>1. CASE ~changed \/ ParentEdges(n) = {}
  <2>1. changed => LinkedParents(n) = {}
    BY <1>1, EdgesAndParents
  <2>2. heap' = q /\ direct' = {}
    BY <1>1 DEF Propagate
  <2>3. QED BY <2>1, <2>2
<1>2. CASE changed /\ ParentEdges(n) # {}
  <2>1. PICK first \in ParentEdges(n) :
          LET p      == first[1]
              others == q \union {e[1] : e \in ParentEdges(n) \ {first}}
          IN  IF p \notin others /\ CanRecomputeNow(p, n, others)
                THEN heap' = others /\ direct' = {p}
                ELSE heap' = others \union {p} /\ direct' = {}
    BY <1>2 DEF Propagate
  <2> DEFINE p == first[1]
             others == q \union {e[1] : e \in ParentEdges(n) \ {first}}
  <2>2. others \union {p} = q \union LinkedParents(n)
    BY EdgesAndParents
  <2>3. p \in LinkedParents(n)
    BY EdgesAndParents
  <2>4. heap' \union direct' = others \union {p}
    BY <2>1
  <2>5. heap' \intersect direct' = {}
    BY <2>1
  <2>6. ASSUME NEW r \in direct'
        PROVE  r = p /\ CanRecomputeNow(p, n, heap')
    BY <2>1
  <2>7. CanRecomputeNow(p, n, heap') =>
          ChildSet(p) = {n} \/ \A m \in heap' : Height[p] <= Height[m]
    <3>1. SUFFICES ASSUME Kind[p] \in SingleChildKinds PROVE ChildSet(p) = {n}
      BY DEF CanRecomputeNow
    <3>2. p \in Node /\ n \in ChildSet(p)
      BY <2>3, NecessaryType DEF LinkedParents
    <3>3. Len(Children[p]) = 1 /\ Children[p] \in Seq(Node)
      BY <3>1, <3>2, GraphAssumption
    <3>4. ChildSet(p) = {Children[p][1]}
      BY <3>3 DEF ChildSet
    <3>5. QED BY <3>2, <3>4
  <2> HIDE DEF p, others
  <2>8. QED BY <1>2, <2>2, <2>3, <2>4, <2>5, <2>6, <2>7
<1>3. QED BY <1>1, <1>2

-----------------------------------------------------------------------------
\* A node that is up to date has been recomputed, hence has a value.
LEMMA FreshHasValue ==
  ASSUME TypeOK, HasValue, NEW n \in Node, ~Stale(n)
  PROVE  recomputedAt[n] # Never /\ ValueOf(n) \in Value
<1>1. recomputedAt[n] # Never
  <2>1. CASE Kind[n] = "Var"
    <3>1. n \in VarNode BY <2>1 DEF VarNode
    <3>2. setAt[n] \in Nat /\ recomputedAt[n] \in Nat \union {Never} BY <3>1 DEF TypeOK
    <3>3. ~(setAt[n] > recomputedAt[n]) BY <2>1 DEF Stale
    <3>4. QED BY <3>2, <3>3 DEF Never
  <2>2. CASE Kind[n] = "Const" BY <2>2 DEF Stale
  <2>3. CASE Kind[n] # "Var" /\ Kind[n] # "Const" BY <2>3 DEF Stale
  <2>4. QED BY <2>1, <2>2, <2>3
<1>2. QED BY <1>1 DEF HasValue

(***************************************************************************)
(* When a node's turn comes, its children are up to date and the closure   *)
(* is called with values.                                                  *)
(***************************************************************************)
LEMMA ReadyInputs ==
  ASSUME TypeOK, HasValue, StaleIsScheduled, OnlyStaleScheduled,
         NEW n \in Pending, Below[n] \intersect Pending = {}
  PROVE  /\ n \in Node /\ n \in Necessary /\ Stale(n)
         /\ \A c \in ChildSet(n) : /\ c \in Node /\ c # n /\ c \in Below[n]
                                   /\ ~Stale(c) /\ ValueOf(c) \in Value
         /\ NewValue(n) \in Value
<1>1. n \in Node /\ n \in Necessary /\ Stale(n)
  BY NecessaryType DEF OnlyStaleScheduled
<1>2. ASSUME NEW c \in ChildSet(n)
      PROVE  c \in Node /\ c # n /\ c \in Below[n] /\ ~Stale(c) /\ ValueOf(c) \in Value
  <2>1. c \in Node /\ c \in Below[n] /\ c \in Necessary
    BY <1>1, ChildrenAreNodes, BelowContains, NecessaryType
  <2>2. c # n
    BY <1>1, <2>1, BelowIsLower, HeightAssumption
  <2>3. ~Stale(c)
    BY <2>1 DEF StaleIsScheduled
  <2>4. QED BY <2>1, <2>2, <2>3, FreshHasValue
<1>3. NewValue(n) \in Value
  <2>1. CASE n \in VarNode
    BY <2>1 DEF NewValue, TypeOK
  <2>2. CASE n \notin VarNode
    <3>1. \A i \in DOMAIN Children[n] : ValueOf(Children[n][i]) \in Value
      BY <1>2 DEF ChildSet
    <3>2. Args(n) \in [DOMAIN Children[n] -> Value]
      BY <3>1 DEF Args
    <3>3. Compute(n, Args(n)) \in Value
      BY <1>1, <2>2, <3>2, ValueAssumption
    <3>4. QED BY <2>2, <3>3 DEF NewValue
  <2>3. QED BY <2>1, <2>2
<1>4. QED BY <1>1, <1>2, <1>3

\* Staleness only depends on a node's own stamps and its children's.
LEMMA StaleUnchanged ==
  ASSUME NEW n \in Node,
         recomputedAt'[n] = recomputedAt[n],
         n \in VarNode => setAt'[n] = setAt[n],
         \A c \in ChildSet(n) : changedAt'[c] = changedAt[c]
  PROVE  Stale(n)' <=> Stale(n)
<1>1. CASE Kind[n] = "Var"
  BY <1>1 DEF Stale, VarNode
<1>2. CASE Kind[n] # "Var"
  BY <1>2 DEF Stale
<1>3. QED BY <1>1, <1>2

\* The value of a node only depends on its own value, or its child's for a MapRef.
LEMMA ValueOfUnchanged ==
  ASSUME NEW n \in Node, value' = value
  PROVE  ValueOf(n)' = ValueOf(n) /\ Args(n)' = Args(n) /\ (Agrees(n)' <=> Agrees(n))
<1>1. \A m : ValueOf(m)' = ValueOf(m)
  BY DEF ValueOf
<1>2. Args(n)' = Args(n)
  BY <1>1 DEF Args
<1>3. QED BY <1>1, <1>2 DEF Agrees

(***************************************************************************)
(* Recomputing a node whose descendants are all settled preserves the      *)
(* invariant.  q is the heap without the node, which is either the lowest  *)
(* of the heap or the one recomputed directly.                             *)
(***************************************************************************)
LEMMA RecomputePreserves ==
  ASSUME IInv, status = "Stabilising",
         NEW n \in Pending, NEW q \in SUBSET Node,
         Pending = q \union {n}, n \notin q,
         Below[n] \intersect Pending = {},
         RecomputeOne(n, q)
  PROVE  IInv'
<1> DEFINE num == stabilisation_num
<1>1. /\ n \in Node /\ n \in Necessary /\ Stale(n)
      /\ \A c \in ChildSet(n) : /\ c \in Node /\ c # n /\ c \in Below[n]
                                /\ ~Stale(c) /\ ValueOf(c) \in Value
      /\ NewValue(n) \in Value
  BY ReadyInputs DEF IInv
<1>2. PICK changed \in BOOLEAN :
        /\ MayReport(n, changed)
        /\ recomputedAt' = [recomputedAt EXCEPT ![n] = num]
        /\ changedAt' = [changedAt EXCEPT ![n] = IF changed THEN num ELSE @]
        /\ Propagate(n, changed, q)
        /\ IF Kind[n] = "MapRef"
             THEN UNCHANGED <<value, didChange>>
             ELSE /\ value' = [value EXCEPT ![n] = NewValue(n)]
                  /\ ChildChanged(n, changed, OldValue(n), NewValue(n))
        /\ UNCHANGED <<status, stabilisation_num, varValue, setAt, setDuring, obsState>>
  BY DEF RecomputeOne
<1>3. TypeOK /\ num \in Nat
  BY DEF IInv, TypeOK
<1>4. Necessary' = Necessary /\ VarNode' = VarNode
  BY <1>2, NecessaryUnchanged DEF VarNode
<1>5. /\ Pending' = q \union (IF changed THEN LinkedParents(n) ELSE {})
      /\ heap' \intersect direct' = {}
      /\ \A m1, m2 \in direct' : m1 = m2
      /\ \A p \in direct' : /\ changed
                            /\ p \in LinkedParents(n)
                            /\ \/ ChildSet(p) = {n}
                               \/ \A m \in heap' : Height[p] <= Height[m]
  <2>1. Propagate(n, changed, q) /\ n \in Node BY <1>1, <1>2
  <2>2. Pending' = heap' \union direct' BY DEF Pending
  <2>3. QED BY <2>1, <2>2, PropagateSchedules
<1>6. \A m \in Node : /\ recomputedAt'[m] = IF m = n THEN num ELSE recomputedAt[m]
                      /\ changedAt'[m] = IF m = n /\ changed THEN num ELSE changedAt[m]
  BY <1>1, <1>2, <1>3 DEF TypeOK
<1>7. \A m \in Node : value'[m] = IF m = n /\ Kind[n] # "MapRef" THEN NewValue(n) ELSE value[m]
  BY <1>1, <1>2, <1>3 DEF TypeOK
<1>8. \A m \in Node : /\ recomputedAt[m] \in Nat \union {Never}
                      /\ changedAt[m] \in Nat \union {Never}
                      /\ changedAt[m] <= recomputedAt[m]
                      /\ recomputedAt[m] <= num
  BY <1>3 DEF TypeOK, IInv, Clock
<1>9. \A m \in Node : n \in Below[m] => recomputedAt[m] < num
  <2>1. SUFFICES ASSUME NEW m \in Node, n \in Below[m], recomputedAt[m] = num PROVE FALSE
    BY <1>3, <1>8 DEF Never
  <2>2. Below[m] \intersect Pending = {}
    BY <2>1 DEF IInv, BelowSettled
  <2>3. QED BY <2>1, <2>2
<1>10. \A m \in Node : n \in ChildSet(m) => recomputedAt[m] < num /\ m # n
  BY <1>1, <1>9, BelowContains
<1>11. ~Stale(n)'
  <2>1. recomputedAt'[n] = num /\ num # Never
    BY <1>1, <1>3, <1>6 DEF Never
  <2>2. CASE Kind[n] = "Var"
    <3>1. n \in VarNode BY <1>1, <2>2 DEF VarNode
    <3>2. setAt[n] <= num /\ setAt[n] \in Nat BY <3>1, <1>3 DEF IInv, Clock, TypeOK
    <3>3. setAt'[n] = setAt[n] BY <1>2
    <3>4. QED BY <2>1, <2>2, <3>2, <3>3, <1>3 DEF Stale
  <2>3. CASE Kind[n] # "Var"
    <3>1. \A c \in ChildSet(n) : changedAt'[c] = changedAt[c] /\ changedAt[c] <= num
      BY <1>1, <1>3, <1>6, <1>8 DEF Never
    <3>2. \A c \in ChildSet(n) : ~(changedAt'[c] > num)
      BY <1>1, <1>3, <1>8, <3>1 DEF Never
    <3>3. QED BY <2>1, <2>3, <3>2 DEF Stale
  <2>4. QED BY <2>2, <2>3
<1>12. ASSUME NEW m \in Node, m # n
       PROVE  /\ Stale(m) => Stale(m)'
              /\ Stale(m)' /\ ~Stale(m) => changed /\ n \in ChildSet(m)
              /\ changed /\ n \in ChildSet(m) => Stale(m)'
  <2>1. recomputedAt'[m] = recomputedAt[m] /\ setAt' = setAt
    BY <1>2, <1>6, <1>12
  <2>2. CASE ~changed \/ n \notin ChildSet(m)
    <3>1. \A c \in ChildSet(m) : changedAt'[c] = changedAt[c]
      BY <1>6, <2>2, ChildrenAreNodes
    <3>2. Stale(m)' <=> Stale(m)
      BY <2>1, <3>1, StaleUnchanged
    <3>3. QED BY <2>2, <3>2
  <2>3. CASE changed /\ n \in ChildSet(m)
    <3>1. Kind[m] # "Var" /\ Kind[m] # "Const"
      BY <2>3, GraphAssumption
    <3>2. changedAt'[n] = num /\ recomputedAt'[m] < num
      BY <1>1, <1>6, <1>10, <2>1, <2>3
    <3>3. changedAt'[n] > recomputedAt'[m]
      BY <3>2, <2>1, <1>3, <1>8 DEF Never
    <3>4. Stale(m)'
      BY <2>3, <3>1, <3>3 DEF Stale
    <3>5. QED BY <2>3, <3>4
  <2>4. QED BY <2>2, <2>3
<1>13. TypeOK'
  <2>1. didChange' \in [Node -> BOOLEAN]
    BY <1>2, <1>3 DEF TypeOK, ChildChanged
  <2>2. heap' \subseteq Node /\ direct' \subseteq Node
    BY <1>5, NecessaryType DEF Pending, LinkedParents
  <2>3. value' \in [Node -> Value \union {NoValue}]
    BY <1>1, <1>2, <1>3 DEF TypeOK
  <2>4. /\ recomputedAt' \in [Node -> Nat \union {Never}]
        /\ changedAt' \in [Node -> Nat \union {Never}]
    BY <1>2, <1>3 DEF TypeOK
  <2>5. QED BY <1>2, <1>3, <1>5, <2>1, <2>2, <2>3, <2>4 DEF TypeOK
<1>14. Clock' /\ Quiet'
  <2>1. \A v \in VarNode : setAt'[v] <= stabilisation_num'
    BY <1>2 DEF IInv, Clock
  <2>2. \A m \in Node : /\ changedAt'[m] <= recomputedAt'[m]
                        /\ recomputedAt'[m] <= stabilisation_num'
    BY <1>2, <1>3, <1>6, <1>8 DEF Never
  <2>3. status' = "Stabilising"
    BY <1>2
  <2>4. QED BY <1>4, <2>1, <2>2, <2>3 DEF Clock, Quiet
<1>15. StaleIsScheduled'
  <2>1. SUFFICES ASSUME NEW m \in Necessary, Stale(m)' PROVE m \in Pending'
    BY <1>4 DEF StaleIsScheduled
  <2>2. m \in Node /\ m # n
    BY <1>11, <2>1, NecessaryType
  <2>3. CASE Stale(m)
    BY <1>5, <2>2, <2>3 DEF IInv, StaleIsScheduled
  <2>4. CASE ~Stale(m)
    BY <1>5, <1>12, <2>1, <2>2, <2>4 DEF LinkedParents
  <2>5. QED BY <2>3, <2>4
<1>16. OnlyStaleScheduled'
  <2>1. SUFFICES ASSUME NEW m \in Pending' PROVE m \in Necessary /\ Stale(m)'
    BY <1>4 DEF OnlyStaleScheduled
  <2>2. CASE m \in q
    <3>1. m \in Necessary /\ Stale(m) /\ m # n
      BY <2>2 DEF IInv, OnlyStaleScheduled
    <3>2. QED BY <1>12, <3>1, NecessaryType
  <2>3. CASE changed /\ m \in LinkedParents(n)
    <3>1. m \in Necessary /\ m \in Node /\ n \in ChildSet(m)
      BY <2>3, NecessaryType DEF LinkedParents
    <3>2. QED BY <1>10, <1>12, <2>3, <3>1
  <2>4. QED BY <1>5, <2>1, <2>2, <2>3
<1>17. BelowSettled'
  <2>1. SUFFICES ASSUME NEW m \in Node, recomputedAt'[m] = num \/ m \in direct',
                        NEW d \in Below[m], d \in Pending'
                 PROVE  FALSE
    BY <1>2 DEF BelowSettled
  <2>2. d \in q \/ (changed /\ d \in LinkedParents(n))
    BY <1>5, <2>1
  <2>3. d \in Node /\ d \notin Below[d]
    BY <2>1, BelowType, BelowIsLower, HeightAssumption
  <2>4. ASSUME d \in LinkedParents(n) PROVE n \in Below[d] /\ n \in Below[m]
    BY <2>1, <2>3, <2>4, BelowContains DEF LinkedParents
  <2>5. d \notin Below[n]
    <3>1. ASSUME d \in LinkedParents(n), d \in Below[n] PROVE FALSE
      <4>1. Height[n] < Height[d] /\ Height[d] < Height[n]
        BY <1>1, <2>3, <2>4, <3>1, BelowIsLower
      <4>2. QED BY <1>1, <2>3, <4>1, HeightAssumption
    <3>2. ASSUME d \in q, d \in Below[n] PROVE FALSE
      BY <3>2
    <3>3. QED BY <2>2, <3>1, <3>2
  <2>6. CASE m = n
    BY <2>1, <2>5, <2>6
  <2>7. CASE m # n /\ recomputedAt[m] = num
    <3>1. Below[m] \intersect Pending = {}
      BY <2>7 DEF IInv, BelowSettled
    <3>2. QED BY <2>1, <2>2, <2>4, <3>1
  <2>8. CASE m # n /\ m \in direct'
    <3>1. CASE ChildSet(m) = {n}
      <4>1. d = n
        BY <2>1, <2>5, <3>1, BelowUnfolds
      <4>2. QED BY <1>1, <1>10, <2>2, <4>1 DEF LinkedParents
    <3>2. CASE \A h \in heap' : Height[m] <= Height[h]
      <4>1. Height[d] < Height[m] /\ Height[d] \in Nat /\ Height[m] \in Nat
        BY <2>1, <2>3, BelowIsLower, HeightAssumption
      <4>2. d \notin heap'
        BY <3>2, <4>1
      <4>3. d = m
        BY <1>5, <2>1, <2>8, <4>2 DEF Pending
      <4>4. QED BY <4>1, <4>3
    <3>3. QED BY <1>5, <2>8, <3>1, <3>2
  <2>9. QED BY <1>6, <2>1, <2>6, <2>7, <2>8
<1>18. HasValue'
  <2>1. SUFFICES ASSUME NEW m \in Node, recomputedAt'[m] # Never PROVE ValueOf(m)' \in Value
    BY DEF HasValue
  <2>2. CASE Kind[m] # "MapRef"
    <3>1. m # n => value[m] \in Value
      BY <1>6, <2>1, <2>2 DEF IInv, HasValue, ValueOf
    <3>2. value'[m] \in Value
      BY <1>1, <1>7, <2>2, <3>1
    <3>3. QED BY <2>2, <3>2 DEF ValueOf
  <2>3. CASE Kind[m] = "MapRef"
    <3> DEFINE c == Children[m][1]
    <3>1. Len(Children[m]) = 1 /\ Children[m] \in Seq(Node) /\ m \notin VarNode
      BY <2>3, GraphAssumption DEF SingleChildKinds, VarNode
    <3>2. c \in ChildSet(m) /\ c \in Node /\ DOMAIN Children[m] = 1 .. 1
      BY <3>1 DEF ChildSet
    <3>3. Kind[c] # "MapRef"
      BY <2>3, <3>2, MapRefAssumption
    <3>4. value[c] # NoValue
      <4>1. CASE m = n
        <5>1. ValueOf(c) \in Value BY <1>1, <3>2, <4>1
        <5>2. QED BY <3>3, <5>1, ValueAssumption DEF ValueOf
      <4>2. CASE m # n
        <5>1. ValueOf(m) \in Value BY <1>6, <2>1, <4>2 DEF IInv, HasValue
        <5>2. QED BY <2>3, <5>1, ValueAssumption DEF ValueOf
      <4>3. QED BY <4>1, <4>2
    <3>5. value'[c] \in Value
      BY <1>1, <1>3, <1>7, <3>2, <3>4 DEF TypeOK
    <3>6. <<value'[c]>> \in [DOMAIN Children[m] -> Value]
      BY <3>2, <3>5
    <3>7. Compute(m, <<value'[c]>>) \in Value
      BY <3>1, <3>6, ValueAssumption
    <3>8. QED BY <2>3, <3>5, <3>7, ValueAssumption DEF ValueOf
  <2>4. QED BY <2>2, <2>3
<1>19. UpToDate'
  <2>1. SUFFICES ASSUME NEW m \in Node, ~Stale(m)'
                 PROVE  /\ m \in VarNode => value'[m] = varValue'[m]
                        /\ m \notin VarNode /\ ExactInputs(m) => Agrees(m)'
    BY <1>4 DEF UpToDate, ExactInputs
  <2>2. CASE m \in VarNode
    <3>1. m # n => ~Stale(m)
      BY <1>12, <2>1
    <3>2. Kind[m] # "MapRef"
      BY <2>2 DEF VarNode
    <3>3. m = n => value'[m] = varValue[m]
      BY <1>7, <2>2, <3>2 DEF NewValue
    <3>4. m # n => value'[m] = varValue[m]
      BY <1>7, <2>2, <3>1 DEF IInv, UpToDate
    <3>5. QED BY <1>2, <2>2, <3>3, <3>4
  <2>3. CASE m \notin VarNode /\ ExactInputs(m)
    <3>1. \A c \in ChildSet(m) : c \in Node /\ Kind[c] # "MapRef"
      BY <2>3, ChildrenAreNodes DEF ExactInputs
    <3>2. \A c \in ChildSet(m) : value'[c] = value[c]
      <4>1. SUFFICES ASSUME n \in ChildSet(m) PROVE value'[n] = value[n]
        BY <1>7, <3>1
      <4>2. m # n
        BY <1>10, <4>1
      <4>3. ~changed
        BY <1>12, <2>1, <4>1, <4>2
      <4>4. CASE Kind[n] = "MapWithOld"
        BY <1>1, <1>2, <1>7, <4>3, <4>4 DEF MayReport
      <4>5. CASE Kind[n] # "MapWithOld"
        <5>1. value[n] # NoValue /\ ShouldCutoff(n, value[n], NewValue(n))
          BY <1>2, <3>1, <4>1, <4>3, <4>5 DEF MayReport
        <5>2. ExactCutoff(n)
          BY <2>3, <4>1, <4>5 DEF ExactInputs
        <5>3. value[n] = NewValue(n)
          BY <1>1, <1>3, <5>1, <5>2 DEF ExactCutoff, TypeOK
        <5>4. QED BY <1>1, <1>7, <5>3
      <4>6. QED BY <4>4, <4>5
    <3>3. \A i \in DOMAIN Children[m] : /\ ValueOf(Children[m][i]) = value[Children[m][i]]
                                        /\ ValueOf(Children[m][i])' = value[Children[m][i]]
      BY <3>1, <3>2 DEF ValueOf, ChildSet
    <3>4. Args(m)' = Args(m) /\ Args(m) = [i \in DOMAIN Children[m] |-> value[Children[m][i]]]
      BY <3>3 DEF Args
    <3>5. CASE Kind[m] = "MapRef"
      <4>1. ValueOf(m)' \in Value /\ recomputedAt'[m] # Never
        <5>1. recomputedAt'[m] # Never
          BY <2>1, <3>5 DEF Stale
        <5>2. QED BY <1>18, <5>1 DEF HasValue
      <4>2. Len(Children[m]) = 1 /\ Children[m] \in Seq(Node)
        BY <3>5, GraphAssumption DEF SingleChildKinds
      <4>3. Children[m][1] \in ChildSet(m) /\ DOMAIN Children[m] = 1 .. 1
        BY <4>2 DEF ChildSet
      <4>4. Args(m)' = <<value'[Children[m][1]]>>
        BY <3>2, <3>4, <4>3
      <4>5. ValueOf(m)' = Compute(m, <<value'[Children[m][1]]>>)
        BY <3>5, <4>1, ValueAssumption DEF ValueOf
      <4>6. QED BY <2>3, <4>4, <4>5 DEF Agrees
    <3>6. CASE Kind[m] # "MapRef" /\ m = n
      <4>1. ValueOf(m)' = NewValue(m)
        BY <1>7, <3>6 DEF ValueOf
      <4>2. NewValue(m) = Compute(m, Args(m))
        BY <2>3 DEF NewValue
      <4>3. QED BY <2>3, <3>4, <4>1, <4>2 DEF Agrees
    <3>7. CASE Kind[m] # "MapRef" /\ m # n
      <4>1. Agrees(m)
        BY <1>12, <2>1, <2>3, <3>7 DEF IInv, UpToDate
      <4>2. ValueOf(m)' = ValueOf(m)
        BY <1>7, <3>7 DEF ValueOf
      <4>3. QED BY <2>3, <3>4, <4>1, <4>2 DEF Agrees
    <3>8. QED BY <3>5, <3>6, <3>7
  <2>4. QED BY <2>2, <2>3
<1>20. QED BY <1>5, <1>13, <1>14, <1>15, <1>16, <1>17, <1>18, <1>19 DEF IInv

-----------------------------------------------------------------------------
LEMMA InitEstablishes == Init => IInv
<1> SUFFICES ASSUME Init PROVE IInv
  OBVIOUS
<1>1. WatchedIn(obsState) = {} /\ Necessary = {}
  BY DEF Init, WatchedIn, Necessary, NecessaryIn, Cone
<1>2. \A n \in Node : recomputedAt[n] = -1 /\ changedAt[n] = -1
  BY DEF Init, Never
<1>3. \A v \in VarNode : setAt[v] = 0 /\ v \in Node
  BY DEF Init, VarNode
<1>4. TypeOK
  BY DEF Init, TypeOK, Status, ObserverState, Never
<1>5. Clock /\ HasValue
  BY <1>2, <1>3 DEF Init, Clock, HasValue, Never
<1>6. ASSUME NEW n \in Node PROVE Stale(n)
  <2>1. CASE n \in VarNode
    BY <1>2, <1>3, <2>1 DEF Stale, VarNode
  <2>2. CASE n \notin VarNode
    BY <1>2, <2>2 DEF Stale, VarNode, Never
  <2>3. QED BY <2>1, <2>2
<1>7. status = "NotStabilising" /\ heap = {} /\ direct = {} /\ Pending = {}
  BY DEF Init, Pending
<1>8. Quiet /\ StaleIsScheduled /\ OnlyStaleScheduled /\ BelowSettled
  BY <1>1, <1>7 DEF Quiet, StaleIsScheduled, OnlyStaleScheduled, BelowSettled
<1>9. UpToDate
  BY <1>6 DEF UpToDate
<1>10. QED BY <1>4, <1>5, <1>7, <1>8, <1>9 DEF IInv

(***************************************************************************)
(* Setting a set S of variables, which makes each of them stale: the part  *)
(* that Var::set and the end of a stabilisation have in common.            *)
(***************************************************************************)
LEMMA SetPreserves ==
  ASSUME TypeOK, StaleIsScheduled, OnlyStaleScheduled, UpToDate,
         direct = {}, NEW S \in SUBSET VarNode, NEW now \in Nat,
         \A v \in VarNode : setAt[v] <= now,
         \A n \in Node : recomputedAt[n] < now,
         DidSetVars(S, now),
         UNCHANGED <<obsState, value, recomputedAt, changedAt, direct>>,
         \A v \in VarNode \ S : varValue'[v] = varValue[v]
  PROVE  /\ setAt' \in [VarNode -> Nat] /\ \A v \in VarNode : setAt'[v] <= now
         /\ heap' \subseteq Node
         /\ \A n \in Node \ VarNode : Stale(n)' <=> Stale(n)
         /\ StaleIsScheduled' /\ OnlyStaleScheduled' /\ UpToDate'
<1>1. \A v \in VarNode : setAt'[v] = IF v \in S /\ setAt[v] < now THEN now ELSE setAt[v]
  BY DEF DidSetVars
<1>2. setAt' \in [VarNode -> Nat] /\ \A v \in VarNode : setAt'[v] <= now
  BY <1>1 DEF DidSetVars, TypeOK
<1>3. Necessary' = Necessary
  BY NecessaryUnchanged
<1>4. heap' = heap \union ({v \in S : setAt[v] < now} \intersect Necessary)
  BY DEF DidSetVars
<1>5. heap' \subseteq Node /\ VarNode \subseteq Node
  BY <1>4, NecessaryType DEF TypeOK, VarNode
<1>6. \A n \in Node \ VarNode : Stale(n)' <=> Stale(n)
  BY StaleUnchanged
<1>7. \A v \in VarNode : Stale(v)' <=> setAt'[v] > recomputedAt[v]
  BY DEF Stale, VarNode
<1>8. \A v \in VarNode : Stale(v) <=> setAt[v] > recomputedAt[v]
  BY DEF Stale, VarNode
<1>9. \A v \in VarNode : recomputedAt[v] \in Nat \union {Never} /\ setAt[v] \in Nat
  BY <1>5 DEF TypeOK
<1>10. \A v \in S : Stale(v)'
  <2>1. SUFFICES ASSUME NEW v \in S PROVE setAt'[v] > recomputedAt[v]
    BY <1>7
  <2>2. setAt'[v] = now
    BY <1>1, <1>9
  <2>3. recomputedAt[v] < now
    BY <1>5
  <2>4. QED BY <1>9, <2>2, <2>3 DEF Never
<1>11. \A v \in VarNode : /\ Stale(v) => Stale(v)'
                          /\ Stale(v)' /\ ~Stale(v) => v \in S /\ setAt[v] < now
  BY <1>1, <1>7, <1>8, <1>9, <1>10
<1>12. StaleIsScheduled'
  <2>1. SUFFICES ASSUME NEW n \in Necessary, Stale(n)' PROVE n \in heap'
    BY <1>3 DEF StaleIsScheduled, Pending
  <2>2. CASE Stale(n)
    BY <1>4, <2>2 DEF StaleIsScheduled, Pending
  <2>3. CASE ~Stale(n)
    <3>1. n \in VarNode BY <1>6, <2>1, <2>3, NecessaryType
    <3>2. QED BY <1>4, <1>11, <2>1, <2>3, <3>1
  <2>4. QED BY <2>2, <2>3
<1>13. OnlyStaleScheduled'
  <2>1. SUFFICES ASSUME NEW n \in heap' PROVE n \in Necessary /\ Stale(n)'
    BY <1>3 DEF OnlyStaleScheduled, Pending
  <2>2. CASE n \in heap
    <3>1. n \in Necessary /\ Stale(n) /\ n \in Node
      BY <2>2, NecessaryType DEF OnlyStaleScheduled, Pending
    <3>2. QED BY <1>6, <1>11, <3>1
  <2>3. CASE n \in S /\ n \in Necessary
    BY <1>10, <2>3
  <2>4. QED BY <1>4, <2>2, <2>3
<1>14. UpToDate'
  <2>1. SUFFICES ASSUME NEW n \in Node, ~Stale(n)'
                 PROVE  /\ n \in VarNode => value'[n] = varValue'[n]
                        /\ n \notin VarNode /\ ExactInputs(n) => Agrees(n)'
    BY DEF UpToDate, ExactInputs, VarNode
  <2>2. ~Stale(n)
    BY <1>6, <1>11, <2>1
  <2>3. n \in VarNode => n \notin S
    BY <1>10, <2>1
  <2>4. QED BY <2>2, <2>3, ValueOfUnchanged DEF UpToDate
<1>15. QED BY <1>2, <1>5, <1>6, <1>12, <1>13, <1>14

\* Steps that leave the engine and the watched nodes alone preserve the invariant.
LEMMA ObserverStepPreserves ==
  ASSUME IInv, WatchedIn(obsState') = WatchedIn(obsState),
         obsState' \in [Observer -> ObserverState],
         setDuring' \in [VarNode -> Value \union {NoValue}],
         status' \in Status, status' = "Stabilising" <=> status = "Stabilising",
         UNCHANGED <<stabilisation_num, varValue, setAt, engine>>
  PROVE  IInv'
<1>1. Necessary' = Necessary /\ VarNode' = VarNode
  BY NecessaryUnchanged DEF VarNode
<1>2. \A n \in Node : Stale(n)' <=> Stale(n)
  BY StaleUnchanged DEF engine
<1>3. \A n \in Node : ValueOf(n)' = ValueOf(n) /\ (Agrees(n)' <=> Agrees(n))
  BY ValueOfUnchanged DEF engine
<1>4. Pending' = Pending
  BY DEF Pending, engine
<1>5. TypeOK'
  BY DEF IInv, TypeOK, engine
<1>6. Clock' /\ BelowSettled'
  BY <1>1, <1>4 DEF IInv, Clock, BelowSettled, engine
<1>7. Quiet' /\ StaleIsScheduled' /\ OnlyStaleScheduled'
  BY <1>1, <1>2, <1>4, NecessaryType DEF IInv, Quiet, StaleIsScheduled, OnlyStaleScheduled, engine
<1>8. HasValue' /\ UpToDate'
  BY <1>1, <1>2, <1>3 DEF IInv, HasValue, UpToDate, ExactInputs, engine
<1>9. QED BY <1>5, <1>6, <1>7, <1>8 DEF IInv, engine

\* Every step preserves the invariant.
LEMMA NextPreserves == IInv /\ [Next]_vars => IInv'
<1> SUFFICES ASSUME IInv, [Next]_vars PROVE IInv'
  OBVIOUS
<1>1. /\ TypeOK /\ stabilisation_num \in Nat
      /\ \A v \in VarNode : setAt[v] \in Nat /\ setAt[v] <= stabilisation_num
      /\ \A n \in Node : /\ recomputedAt[n] \in Nat \union {Never}
                         /\ recomputedAt[n] <= stabilisation_num
  BY DEF IInv, TypeOK, Clock, VarNode
<1>2. ASSUME NEW v \in VarNode, NEW x \in Value, SetVar(v, x) PROVE IInv'
  <2>1. direct = {} /\ \A n \in Node : recomputedAt[n] < stabilisation_num
    BY <1>2 DEF IInv, Quiet, Clock, SetVar
  <2>2. /\ setAt' \in [VarNode -> Nat] /\ \A w \in VarNode : setAt'[w] <= stabilisation_num
        /\ heap' \subseteq Node
        /\ \A n \in Node \ VarNode : Stale(n)' <=> Stale(n)
        /\ StaleIsScheduled' /\ OnlyStaleScheduled' /\ UpToDate'
    <3>1. {v} \in SUBSET VarNode
      OBVIOUS
    <3>2. \A w \in VarNode \ {v} : varValue'[w] = varValue[w]
      BY <1>1, <1>2 DEF SetVar, TypeOK
    <3>3. DidSetVars({v}, stabilisation_num)
      BY <1>2 DEF SetVar
    <3>4. UNCHANGED <<obsState, value, recomputedAt, changedAt, direct>>
      BY <1>2 DEF SetVar
    <3>5. QED BY <1>1, <2>1, <3>1, <3>2, <3>3, <3>4, SetPreserves DEF IInv
  <2>3. Necessary' = Necessary /\ VarNode' = VarNode
    BY <1>2, NecessaryUnchanged DEF SetVar, VarNode
  <2>4. TypeOK'
    BY <1>1, <1>2, <2>2 DEF SetVar, TypeOK
  <2>5. Clock' /\ BelowSettled'
    BY <1>2, <2>2, <2>3 DEF SetVar, IInv, Clock, BelowSettled
  <2>6. Quiet'
    BY <1>2, <2>1, <2>2, <2>3, NecessaryType DEF SetVar, IInv, Quiet
  <2>7. HasValue'
    BY <1>2, ValueOfUnchanged DEF SetVar, IInv, HasValue
  <2>8. heap' \intersect direct' = {}
    BY <1>2, <2>1 DEF SetVar
  <2>9. QED BY <2>2, <2>4, <2>5, <2>6, <2>7, <2>8 DEF IInv
<1>3. ASSUME NEW v \in VarNode, NEW x \in Value, SetVarDuringStabilisation(v, x) PROVE IInv'
  <2>1. setDuring' \in [VarNode -> Value \union {NoValue}]
    BY <1>1, <1>3 DEF SetVarDuringStabilisation, TypeOK
  <2>2. QED BY <1>1, <1>3, <2>1, ObserverStepPreserves DEF SetVarDuringStabilisation, TypeOK
<1>4. ASSUME NEW o \in Observer, Observe(o) PROVE IInv'
  <2>1. obsState' = [obsState EXCEPT ![o] = "Created"] /\ obsState[o] = "Unused"
    BY <1>4 DEF Observe
  <2>2. WatchedIn(obsState') = WatchedIn(obsState)
    BY <1>1, <2>1 DEF WatchedIn, TypeOK
  <2>3. obsState' \in [Observer -> ObserverState]
    BY <1>1, <2>1 DEF TypeOK, ObserverState
  <2>4. QED BY <1>1, <1>4, <2>2, <2>3, ObserverStepPreserves DEF Observe, TypeOK
<1>5. ASSUME NEW o \in Observer, DisallowFutureUse(o) PROVE IInv'
  <2>1. /\ obsState[o] \in {"Created", "InUse"}
        /\ obsState' = [obsState EXCEPT
             ![o] = IF obsState[o] = "Created" THEN "Unlinked" ELSE "Disallowed"]
    BY <1>5 DEF DisallowFutureUse
  <2>2. WatchedIn(obsState') = WatchedIn(obsState)
    BY <1>1, <2>1 DEF WatchedIn, TypeOK
  <2>3. obsState' \in [Observer -> ObserverState]
    BY <1>1, <2>1 DEF TypeOK, ObserverState
  <2>4. QED BY <1>1, <1>5, <2>2, <2>3, ObserverStepPreserves DEF DisallowFutureUse, TypeOK
<1>6. CASE StabiliseStart
  <2> DEFINE added    == AddNewObservers(obsState)
             linked   == NecessaryIn(added) \ Necessary
             unlinked == UnlinkDisallowedObservers(added)
  <2>1. /\ status = "NotStabilising" /\ status' = "Stabilising"
        /\ obsState' = unlinked
        /\ heap' = (heap \union {n \in linked : Stale(n)}) \intersect NecessaryIn(unlinked)
        /\ UNCHANGED <<stabilisation_num, varValue, setAt, setDuring,
                       value, recomputedAt, changedAt, didChange, direct>>
    BY <1>6 DEF StabiliseStart
  <2>2. direct = {} /\ \A n \in Node : recomputedAt[n] < stabilisation_num
    BY <2>1 DEF IInv, Quiet, Clock
  <2>3. Necessary' = NecessaryIn(unlinked)
    BY <2>1 DEF Necessary
  <2>4. NecessaryIn(unlinked) \subseteq NecessaryIn(added)
    <3>1. WatchedIn(unlinked) \subseteq WatchedIn(added)
      BY DEF WatchedIn, UnlinkDisallowedObservers
    <3>2. QED BY <3>1, ConeMonotone DEF NecessaryIn
  <2>5. \A n \in Node : Stale(n)' <=> Stale(n)
    BY <2>1, StaleUnchanged
  <2>6. \A n \in Node : ValueOf(n)' = ValueOf(n) /\ (Agrees(n)' <=> Agrees(n))
    BY <2>1, ValueOfUnchanged
  <2>7. NecessaryIn(unlinked) \subseteq Node
    BY WatchedType
  <2>8. obsState' \in [Observer -> ObserverState]
    BY <1>1, <2>1 DEF TypeOK, ObserverState, AddNewObservers, UnlinkDisallowedObservers
  <2>9. TypeOK'
    BY <1>1, <2>1, <2>7, <2>8 DEF TypeOK, Status
  <2>10. Clock' /\ Quiet' /\ BelowSettled' /\ heap' \intersect direct' = {}
    <3>1. Clock'
      BY <2>1 DEF IInv, Clock
    <3>2. \A n \in Node : recomputedAt'[n] # stabilisation_num'
      BY <1>1, <2>1, <2>2 DEF Never
    <3>3. QED BY <2>1, <2>2, <3>1, <3>2 DEF Quiet, BelowSettled
  <2>11. StaleIsScheduled'
    <3>1. SUFFICES ASSUME NEW n \in NecessaryIn(unlinked), Stale(n)' PROVE n \in heap'
      BY <2>3 DEF StaleIsScheduled, Pending
    <3>2. Stale(n) /\ n \in NecessaryIn(added)
      BY <2>4, <2>5, <2>7, <3>1
    <3>3. CASE n \in Necessary
      BY <2>1, <2>2, <3>1, <3>2, <3>3 DEF IInv, StaleIsScheduled, Pending
    <3>4. CASE n \notin Necessary
      BY <2>1, <3>1, <3>2, <3>4
    <3>5. QED BY <3>3, <3>4
  <2>12. OnlyStaleScheduled'
    <3>1. SUFFICES ASSUME NEW n \in heap' PROVE n \in NecessaryIn(unlinked) /\ Stale(n)'
      BY <2>1, <2>2, <2>3 DEF OnlyStaleScheduled, Pending
    <3>2. n \in NecessaryIn(unlinked) /\ Stale(n)
      BY <2>1, <3>1 DEF IInv, OnlyStaleScheduled, Pending
    <3>3. QED BY <2>5, <2>7, <3>2
  <2>13. HasValue'
    BY <2>1, <2>6 DEF IInv, HasValue
  <2>14. UpToDate'
    BY <2>1, <2>5, <2>6 DEF IInv, UpToDate, ExactInputs, VarNode
  <2>15. QED BY <2>9, <2>10, <2>11, <2>12, <2>13, <2>14 DEF IInv
<1>7. ASSUME NEW n \in Node, RecomputeMin(n) PROVE IInv'
  <2>1. /\ status = "Stabilising" /\ direct = {} /\ n \in heap
        /\ \A m \in heap : Height[n] <= Height[m]
        /\ RecomputeOne(n, heap \ {n})
    BY <1>7 DEF RecomputeMin
  <2>2. Pending = (heap \ {n}) \union {n} /\ heap \ {n} \in SUBSET Node
    BY <1>1, <2>1 DEF Pending, TypeOK
  <2>3. Below[n] \intersect Pending = {}
    <3>1. SUFFICES ASSUME NEW m \in Below[n], m \in heap PROVE FALSE
      BY <2>1 DEF Pending
    <3>2. Height[m] < Height[n] /\ m \in Node
      BY <1>1, <3>1, BelowIsLower DEF TypeOK
    <3>3. QED BY <2>1, <3>1, <3>2, HeightAssumption
  <2>4. QED BY <2>1, <2>2, <2>3, RecomputePreserves
<1>8. ASSUME NEW n \in Node, RecomputeDirect(n) PROVE IInv'
  <2>1. status = "Stabilising" /\ n \in direct /\ RecomputeOne(n, heap)
    BY <1>8 DEF RecomputeDirect
  <2>2. Pending = heap \union {n} /\ n \notin heap /\ heap \in SUBSET Node
    BY <1>1, <2>1 DEF IInv, Pending, TypeOK
  <2>3. Below[n] \intersect Pending = {}
    BY <2>1 DEF IInv, BelowSettled
  <2>4. QED BY <2>1, <2>2, <2>3, RecomputePreserves
<1>9. CASE StabiliseEnd
  <2> DEFINE S   == {v \in VarNode : setDuring[v] # NoValue}
             now == stabilisation_num + 1
  <2>1. /\ status = "Stabilising" /\ Pending = {}
        /\ status' = "RunningOnUpdateHandlers" /\ stabilisation_num' = now
        /\ varValue' = [v \in VarNode |->
             IF setDuring[v] = NoValue THEN varValue[v] ELSE setDuring[v]]
        /\ setDuring' = [v \in VarNode |-> NoValue]
        /\ DidSetVars(S, now)
        /\ UNCHANGED <<obsState, value, recomputedAt, changedAt, didChange, direct>>
    BY <1>9 DEF StabiliseEnd
  <2>2. direct = {} /\ now \in Nat /\ \A n \in Node : recomputedAt[n] < now
    BY <1>1, <2>1 DEF Pending, Never
  <2>3. /\ setAt' \in [VarNode -> Nat] /\ \A w \in VarNode : setAt'[w] <= now
        /\ heap' \subseteq Node
        /\ \A n \in Node \ VarNode : Stale(n)' <=> Stale(n)
        /\ StaleIsScheduled' /\ OnlyStaleScheduled' /\ UpToDate'
    <3>1. \A v \in VarNode \ S : varValue'[v] = varValue[v]
      BY <2>1
    <3>2. \A v \in VarNode : setAt[v] <= now
      BY <1>1
    <3>3. S \in SUBSET VarNode
      OBVIOUS
    <3> HIDE DEF S, now
    <3>4. QED BY <1>1, <2>1, <2>2, <3>1, <3>2, <3>3, SetPreserves DEF IInv
  <2>4. Necessary' = Necessary /\ VarNode' = VarNode
    BY <2>1, NecessaryUnchanged DEF VarNode
  <2>5. TypeOK'
    BY <1>1, <2>1, <2>2, <2>3 DEF TypeOK, Status
  <2>6. Clock' /\ BelowSettled'
    <3>1. \A n \in Node : recomputedAt'[n] <= stabilisation_num' /\ recomputedAt'[n] < stabilisation_num'
      BY <1>1, <2>1, <2>2 DEF Never
    <3>2. \A n \in Node : changedAt'[n] <= recomputedAt'[n]
      BY <2>1 DEF IInv, Clock
    <3> HIDE DEF now
    <3>3. \A v \in VarNode : setAt'[v] <= stabilisation_num'
      BY <2>1, <2>3
    <3>4. QED BY <2>1, <2>4, <3>1, <3>2, <3>3 DEF Clock, BelowSettled
  <2>7. Quiet'
    <3>1. \A n \in Necessary : ~Stale(n)
      BY <2>1 DEF IInv, StaleIsScheduled
    <3>2. QED BY <2>1, <2>2, <2>3, <2>4, <3>1, NecessaryType DEF Quiet
  <2>8. HasValue'
    BY <2>1, ValueOfUnchanged DEF IInv, HasValue
  <2>9. heap' \intersect direct' = {}
    BY <2>1, <2>2
  <2>10. QED BY <2>3, <2>5, <2>6, <2>7, <2>8, <2>9 DEF IInv
<1>10. CASE HandlersDone
  <2>1. WatchedIn(obsState') = WatchedIn(obsState)
    BY <1>10 DEF HandlersDone
  <2>2. QED BY <1>1, <1>10, <2>1, ObserverStepPreserves DEF HandlersDone, TypeOK, Status
<1>11. CASE UNCHANGED vars
  <2>1. WatchedIn(obsState') = WatchedIn(obsState)
    BY <1>11 DEF vars
  <2>2. QED BY <1>1, <1>11, <2>1, ObserverStepPreserves DEF vars, TypeOK
<1>12. QED
  BY <1>2, <1>3, <1>4, <1>5, <1>6, <1>7, <1>8, <1>9, <1>10, <1>11
     DEF Next, UserCall, StabiliseStep

\* The invariant holds in every reachable state.
THEOREM Invariant == Spec => []IInv
BY InitEstablishes, NextPreserves, PTL DEF Spec

-----------------------------------------------------------------------------
\* Every variable has its type, and at most one node is recomputed directly.
THEOREM TypeCorrect == Spec => []TypeOK
<1>1. IInv => TypeOK BY DEF IInv
<1>2. QED BY <1>1, Invariant, PTL

(***************************************************************************)
(* The recompute heap and the node recomputed directly are exactly the     *)
(* necessary stale nodes: nothing is forgotten, nothing runs in vain.      *)
(***************************************************************************)
THEOREM NothingForgottenOrInVain == Spec => []ScheduledExactly
<1>1. IInv => ScheduledExactly BY DEF IInv, ScheduledExactly
<1>2. QED BY <1>1, Invariant, PTL

\* Recomputing directly never overtakes a node the value depends on.
THEOREM ChildrenFirst == Spec => []BelowSettled
<1>1. IInv => BelowSettled BY DEF IInv
<1>2. QED BY <1>1, Invariant, PTL

\* A closure runs at most once in a stabilisation.
THEOREM AtMostOnce == Spec => []RunsOnce
<1>1. ASSUME IInv PROVE RunsOnce
  <2>1. SUFFICES ASSUME NEW n \in Pending PROVE recomputedAt[n] < stabilisation_num
    BY DEF RunsOnce
  <2>2. n \in Node /\ Stale(n)
    BY <1>1, <2>1, NecessaryType DEF IInv, OnlyStaleScheduled
  <2>3. /\ recomputedAt[n] \in Nat \union {Never} /\ stabilisation_num \in Nat
        /\ recomputedAt[n] <= stabilisation_num
    BY <1>1, <2>2 DEF IInv, TypeOK, Clock
  <2>4. CASE Kind[n] = "Var"
    <3>1. setAt[n] \in Nat /\ setAt[n] <= stabilisation_num
      BY <1>1, <2>2, <2>4 DEF IInv, TypeOK, Clock, VarNode
    <3>2. QED BY <2>2, <2>3, <2>4, <3>1 DEF Stale, Never
  <2>5. CASE recomputedAt[n] = Never
    BY <2>3, <2>5 DEF Never
  <2>6. CASE \E c \in ChildSet(n) : changedAt[c] > recomputedAt[n]
    <3>1. PICK c \in ChildSet(n) : changedAt[c] > recomputedAt[n]
      BY <2>6
    <3>2. /\ changedAt[c] \in Nat \union {Never} /\ recomputedAt[c] \in Nat \union {Never}
          /\ changedAt[c] <= recomputedAt[c] /\ recomputedAt[c] <= stabilisation_num
      BY <1>1, <2>2, ChildrenAreNodes DEF IInv, TypeOK, Clock
    <3>3. QED BY <2>3, <3>1, <3>2 DEF Never
  <2>7. QED BY <2>2, <2>4, <2>5, <2>6 DEF Stale
<1>2. QED BY <1>1, Invariant, PTL

\* recompute_one never unwraps a missing value.
THEOREM NoMissingInput == Spec => []InputsReady
<1>1. ASSUME IInv PROVE InputsReady
  <2>1. SUFFICES ASSUME status = "Stabilising", NEW n \in Node, NextToRun(n),
                        NEW c \in ChildSet(n)
                 PROVE  ValueOf(c) # NoValue
    BY DEF InputsReady
  <2>2. n \in Pending
    BY <2>1 DEF NextToRun, Pending
  <2>3. Below[n] \intersect Pending = {}
    <3>1. CASE n \in direct
      BY <1>1, <2>1, <3>1 DEF IInv, BelowSettled
    <3>2. CASE n \notin direct
      <4>1. direct = {} /\ \A m \in heap : Height[n] <= Height[m]
        BY <2>1, <3>2 DEF NextToRun
      <4>2. SUFFICES ASSUME NEW m \in Below[n], m \in heap PROVE FALSE
        BY <4>1 DEF Pending
      <4>3. Height[m] < Height[n] /\ m \in Node
        BY <4>2, BelowIsLower, BelowType
      <4>4. QED BY <4>1, <4>2, <4>3, HeightAssumption
    <3>3. QED BY <3>1, <3>2
  <2>4. ValueOf(c) \in Value
    BY <1>1, <2>1, <2>2, <2>3, ReadyInputs DEF IInv
  <2>5. QED BY <2>4, ValueAssumption
<1>2. QED BY <1>1, Invariant, PTL

(***************************************************************************)
(* Between stabilisations, every necessary node whose inputs cannot hide a *)
(* change agrees with its children.                                        *)
(***************************************************************************)
THEOREM NoGlitch == Spec => []GlitchFree
<1>1. ASSUME IInv PROVE GlitchFree
  <2>1. SUFFICES ASSUME status # "Stabilising", NEW n \in Necessary \ VarNode, ExactInputs(n)
                 PROVE  Agrees(n)
    BY DEF GlitchFree
  <2>2. ~Stale(n)
    BY <1>1, <2>1 DEF IInv, Quiet
  <2>3. QED BY <1>1, <2>1, <2>2, NecessaryType DEF IInv, UpToDate
<1>2. QED BY <1>1, Invariant, PTL

(***************************************************************************)
(* When is_stable answers yes between stabilisations, every necessary      *)
(* variable has its last value, and every necessary node whose inputs      *)
(* cannot hide a change agrees with its children: another call of          *)
(* stabilise would change nothing.                                         *)
(***************************************************************************)
THEOREM StableIsCurrent == Spec => []StableMeansCurrent
<1>1. ASSUME IInv PROVE StableMeansCurrent
  <2>1. SUFFICES ASSUME status # "Stabilising", IsStable, NEW n \in Necessary
                 PROVE  IF n \in VarNode THEN value[n] = varValue[n]
                                         ELSE ExactInputs(n) => Agrees(n)
    BY DEF StableMeansCurrent
  <2>2. n \in Node
    BY NecessaryType
  <2>3. n \notin Pending
    BY <1>1, <2>1 DEF IInv, Quiet, IsStable, Pending
  <2>4. ~Stale(n)
    BY <1>1, <2>1, <2>3 DEF IInv, StaleIsScheduled
  <2>5. QED BY <1>1, <2>2, <2>4 DEF IInv, UpToDate
<1>2. QED BY <1>1, Invariant, PTL

-----------------------------------------------------------------------------
(***************************************************************************)
(* Refinement.                                                             *)
(***************************************************************************)

\* The instance of the abstract specification has the same graph.
LEMMA APICone ==
  /\ \A R : API!Cone(R) = Cone(R)
  /\ API!Watched = WatchedIn(obsState)
<1>1. \A n : API!ChildSet(n) = ChildSet(n)
  BY DEF API!ChildSet, ChildSet
<1>2. API!Below = Below
  BY <1>1 DEF API!Below, Below, API!ClosedUnderChildren, ClosedUnderChildren
<1>3. \A R : API!Cone(R) = Cone(R)
  BY <1>2 DEF API!Cone, Cone
<1>4. QED BY <1>3 DEF API!Watched, WatchedIn

LEMMA InitRefines == Init => API!Init
<1> SUFFICES ASSUME Init PROVE API!Init
  OBVIOUS
<1>1. WatchedIn(obsState) = {} /\ status = "NotStabilising"
  BY DEF Init, WatchedIn
<1>2. Seen = [n \in {} |-> NoValue]
  BY <1>1 DEF Seen
<1>3. API!VarNode = VarNode
  BY DEF API!VarNode, VarNode
<1>4. QED BY <1>2, <1>3 DEF Init, API!Init

\* What observers read changes only when a stabilisation starts or ends.
LEMMA SeenUnchanged ==
  ASSUME value' = value, WatchedIn(obsState') = WatchedIn(obsState),
         status' = "Stabilising" <=> status = "Stabilising"
  PROVE  Seen' = Seen
<1>1. \A m : ValueOf(m)' = ValueOf(m)
  BY DEF ValueOf
<1>2. QED BY <1>1 DEF Seen

(***************************************************************************)
(* When the heap is empty the values of the necessary nodes solve the      *)
(* graph's equations.                                                      *)
(***************************************************************************)
LEMMA EndIsSolution ==
  ASSUME IInv, Pending = {}, \A n \in Node : ExactInputs(n)
  PROVE  LET sol == [n \in Necessary |-> ValueOf(n)]
         IN  sol \in [API!Cone(API!Watched) -> Value] /\ API!IsSolution(sol)
<1> DEFINE sol == [n \in Necessary |-> ValueOf(n)]
<1>1. API!Cone(API!Watched) = Necessary
  BY APICone DEF Necessary, NecessaryIn
<1>2. \A n \in Necessary : n \in Node /\ ~Stale(n) /\ ValueOf(n) \in Value
  BY NecessaryType, FreshHasValue DEF IInv, StaleIsScheduled
<1>3. sol \in [Necessary -> Value]
  BY <1>2
<1>4. ASSUME NEW n \in Necessary
      PROVE  sol[n] = IF n \in VarNode
                        THEN varValue[n]
                        ELSE Compute(n, [i \in DOMAIN Children[n] |-> sol[Children[n][i]]])
  <2>1. CASE n \in VarNode
    <3>1. value[n] = varValue[n]
      BY <1>2, <2>1 DEF IInv, UpToDate
    <3>2. QED BY <2>1, <3>1 DEF ValueOf, VarNode
  <2>2. CASE n \notin VarNode
    <3>1. ValueOf(n) = Compute(n, Args(n))
      BY <1>2, <2>2 DEF IInv, UpToDate, Agrees
    <3>2. \A i \in DOMAIN Children[n] : Children[n][i] \in Necessary
      BY NecessaryType DEF ChildSet
    <3>3. Args(n) = [i \in DOMAIN Children[n] |-> sol[Children[n][i]]]
      BY <3>2 DEF Args
    <3>4. QED BY <2>2, <3>1, <3>3
  <2>3. QED BY <2>1, <2>2
<1>5. API!VarNode = VarNode
  BY DEF API!VarNode, VarNode
<1> HIDE DEF sol
<1>6. API!IsSolution(sol)
  BY <1>1, <1>4, <1>5 DEF API!IsSolution
<1>7. QED BY <1>1, <1>3, <1>6 DEF sol

LEMMA StepRefines ==
  ASSUME \A n \in Node : ExactInputs(n)
  PROVE  IInv /\ [Next]_vars => [API!Next]_(API!apiVars)
<1> SUFFICES ASSUME IInv, [Next]_vars PROVE API!Next \/ UNCHANGED API!apiVars
  OBVIOUS
<1>1. API!VarNode = VarNode /\ TypeOK
  BY DEF API!VarNode, VarNode, IInv
<1>2. ASSUME NEW v \in VarNode, NEW x \in Value, SetVar(v, x) PROVE API!Next
  <2>1. Seen' = Seen
    BY <1>2, SeenUnchanged DEF SetVar
  <2>2. API!SetVar(v, x)
    BY <1>2, <2>1 DEF SetVar, API!SetVar
  <2>3. QED BY <1>1, <2>2 DEF API!Next
<1>3. ASSUME NEW v \in VarNode, NEW x \in Value, SetVarDuringStabilisation(v, x) PROVE API!Next
  <2>1. Seen' = Seen
    BY <1>3, SeenUnchanged DEF SetVarDuringStabilisation, engine
  <2>2. API!SetVarDuringStabilisation(v, x)
    BY <1>3, <2>1 DEF SetVarDuringStabilisation, API!SetVarDuringStabilisation
  <2>3. QED BY <1>1, <2>2 DEF API!Next
<1>4. ASSUME NEW o \in Observer, Observe(o) PROVE API!Next
  <2>1. WatchedIn(obsState') = WatchedIn(obsState)
    BY <1>1, <1>4 DEF Observe, WatchedIn, TypeOK
  <2>2. Seen' = Seen
    BY <1>4, <2>1, SeenUnchanged DEF Observe, engine
  <2>3. API!Observe(o)
    BY <1>4, <2>2 DEF Observe, API!Observe
  <2>4. QED BY <2>3 DEF API!Next
<1>5. ASSUME NEW o \in Observer, DisallowFutureUse(o) PROVE API!Next
  <2>1. WatchedIn(obsState') = WatchedIn(obsState)
    BY <1>1, <1>5 DEF DisallowFutureUse, WatchedIn, TypeOK
  <2>2. Seen' = Seen
    BY <1>5, <2>1, SeenUnchanged DEF DisallowFutureUse, engine
  <2>3. API!Disallow(o)
    BY <1>5, <2>2 DEF DisallowFutureUse, API!Disallow
  <2>4. QED BY <2>3 DEF API!Next
<1>6. CASE StabiliseStart
  <2>1. Seen' = [n \in {} |-> NoValue]
    BY <1>6 DEF StabiliseStart, Seen
  <2>2. obsState' = [o \in Observer |->
          CASE obsState[o] = "Created"    -> "InUse"
            [] obsState[o] = "Disallowed" -> "Unlinked"
            [] OTHER                      -> obsState[o]]
    BY <1>6 DEF StabiliseStart, AddNewObservers, UnlinkDisallowedObservers
  <2>3. API!StabiliseStart
    BY <1>6, <2>1, <2>2 DEF StabiliseStart, API!StabiliseStart
  <2>4. QED BY <2>3 DEF API!Next
<1>7. ASSUME NEW n \in Node, RecomputeMin(n) \/ RecomputeDirect(n) PROVE UNCHANGED API!apiVars
  <2>1. /\ status = "Stabilising"
        /\ UNCHANGED <<status, stabilisation_num, varValue, setAt, setDuring, obsState>>
    BY <1>7 DEF RecomputeMin, RecomputeDirect, RecomputeOne
  <2>2. Seen' = Seen
    BY <2>1 DEF Seen
  <2>3. QED BY <2>1, <2>2 DEF API!apiVars
<1>8. CASE StabiliseEnd
  <2> DEFINE sol == [n \in Necessary |-> ValueOf(n)]
  <2>1. sol \in [API!Cone(API!Watched) -> Value] /\ API!IsSolution(sol)
    BY <1>8, EndIsSolution DEF StabiliseEnd
  <2>2. WatchedIn(obsState) \subseteq Necessary
    BY WatchedType, ConeClosed DEF Necessary, NecessaryIn
  <2>3. Seen' = [n \in WatchedIn(obsState) |-> sol[n]]
    <3>1. status' # "Stabilising" /\ obsState' = obsState /\ value' = value
      BY <1>8 DEF StabiliseEnd
    <3>2. \A m : ValueOf(m)' = ValueOf(m)
      BY <3>1 DEF ValueOf
    <3>3. Seen' = [n \in WatchedIn(obsState) |-> ValueOf(n)]
      BY <3>1, <3>2 DEF Seen
    <3>4. QED BY <2>2, <3>3
  <2> HIDE DEF sol
  <2>4. \E s \in [API!Cone(API!Watched) -> Value] :
          API!IsSolution(s) /\ Seen' = [n \in API!Watched |-> s[n]]
    BY <2>1, <2>3, APICone
  <2>5. API!StabiliseEnd
    BY <1>1, <1>8, <2>4 DEF StabiliseEnd, API!StabiliseEnd
  <2>6. QED BY <2>5 DEF API!Next
<1>9. CASE HandlersDone
  <2>1. Seen' = Seen
    BY <1>9, SeenUnchanged DEF HandlersDone, engine
  <2>2. API!HandlersDone
    BY <1>9, <2>1 DEF HandlersDone, API!HandlersDone
  <2>3. QED BY <2>2 DEF API!Next
<1>10. CASE UNCHANGED vars
  <2>1. Seen' = Seen
    BY <1>10, SeenUnchanged DEF vars, engine
  <2>2. QED BY <1>10, <2>1 DEF vars, API!apiVars
<1>11. QED
  BY <1>2, <1>3, <1>4, <1>5, <1>6, <1>7, <1>8, <1>9, <1>10
     DEF Next, UserCall, StabiliseStep

(***************************************************************************)
(* On a graph whose nodes have only inputs that cannot hide a change, the  *)
(* engine implements the abstract specification: what observers read       *)
(* between two stabilisations solves the graph's equations for the values  *)
(* that the variables had when the last one started.                       *)
(***************************************************************************)
THEOREM Refinement ==
  ASSUME \A n \in Node : ExactInputs(n)
  PROVE  Spec => ImplementsAPI
<1>1. IInv /\ [Next]_vars => [API!Next]_(API!apiVars)
  BY StepRefines
<1>2. QED BY <1>1, InitRefines, Invariant, PTL DEF Spec, ImplementsAPI, API!Spec
=============================================================================
