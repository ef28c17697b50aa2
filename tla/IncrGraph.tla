------------------------------ MODULE IncrGraph ------------------------------
(***************************************************************************)
(* The fixed part of a computation graph built with the incremental crate  *)
(* at top scope: its nodes, their kinds and children, the user functions   *)
(* and the cutoffs.  Everything here is a constant, so that what is proved *)
(* holds for every acyclic graph, every value type and every user          *)
(* function.                                                               *)
(*                                                                         *)
(* Binds and Expert nodes, which change the graph while it is recomputed,  *)
(* are not described here.                                                 *)
(***************************************************************************)
EXTENDS Integers, Sequences

CONSTANTS
  Node,                 \* the nodes of the graph
  Value,                \* the values a node can hold
  NoValue,              \* value_opt = None
  Kind,                 \* Kind[n]: the Kind variant of n, see Kinds
  Children,             \* Children[n]: the inputs of n, in order, duplicates allowed
  Height,               \* Height[n]: the height n has while it is necessary
  Compute(_, _),        \* Compute(n, args): the user's closure (or constant) of n
  ShouldCutoff(_, _, _) \* ShouldCutoff(n, old, new): the cutoff of n

(***************************************************************************)
(* MapN stands for Map2 .. Map6 and ArrayFold, the kinds with several      *)
(* children.                                                               *)
(***************************************************************************)
SingleChildKinds == {"Map", "MapRef", "MapWithOld"}
Kinds == {"Var", "Const", "MapN"} \union SingleChildKinds

ChildSet(n) == {Children[n][i] : i \in DOMAIN Children[n]}

VarNode == {n \in Node : Kind[n] = "Var"}

\* Scope::Top.height(); the height of every top-level node is above it.
TopHeight == 0

ASSUME GraphAssumption ==
  /\ Kind \in [Node -> Kinds]
  /\ Children \in [Node -> Seq(Node)]
  /\ \A n \in Node : Kind[n] \in {"Var", "Const"} => ChildSet(n) = {}
  /\ \A n \in Node : Kind[n] \in SingleChildKinds => Len(Children[n]) = 1

(***************************************************************************)
(* became_necessary gives a node a height above that of its scope and of   *)
(* each of its children, which also says that the graph has no cycle.      *)
(***************************************************************************)
ASSUME HeightAssumption ==
  /\ Height \in [Node -> Nat]
  /\ \A n \in Node : Height[n] > TopHeight
  /\ \A n \in Node : \A c \in ChildSet(n) : Height[c] < Height[n]

(***************************************************************************)
(* A MapRef reads through to its child's stored value, so chains of        *)
(* MapRefs are left out: the child of a MapRef stores its own value.       *)
(***************************************************************************)
ASSUME MapRefAssumption ==
  \A n \in Node : Kind[n] = "MapRef" => \A c \in ChildSet(n) : Kind[c] # "MapRef"

ASSUME ValueAssumption ==
  /\ NoValue \notin Value
  /\ \A n \in Node \ VarNode :
       \A args \in [DOMAIN Children[n] -> Value] : Compute(n, args) \in Value
  /\ \A n \in Node : \A old, new \in Value : ShouldCutoff(n, old, new) \in BOOLEAN

-----------------------------------------------------------------------------
(***************************************************************************)
(* Reachability.  Below[n] is the set of strict descendants of n, the      *)
(* nodes its value is computed from: the least set with n's children that  *)
(* contains the children of its members.                                   *)
(***************************************************************************)
ClosedUnderChildren(S) == \A n \in S : ChildSet(n) \subseteq S

Below ==
  [n \in Node |->
     {m \in Node : \A S \in SUBSET Node :
        (ChildSet(n) \subseteq S /\ ClosedUnderChildren(S)) => m \in S}]

(***************************************************************************)
(* The nodes that the nodes in `roots' keep necessary: is_necessary holds  *)
(* of a node with an observer or a parent, and became_necessary makes each *)
(* node it reaches a parent of its children.                               *)
(***************************************************************************)
Cone(roots) == roots \union UNION {Below[n] : n \in roots}

(***************************************************************************)
(* A cutoff that never hides a change: PartialEq and Never, not Always and *)
(* not a comparison that ignores part of the value.                        *)
(***************************************************************************)
ExactCutoff(n) == \A old, new \in Value : ShouldCutoff(n, old, new) => old = new
=============================================================================
