----------------------------- MODULE ParentLinks -----------------------------
(***************************************************************************)
(* How nodes know their parents: Node::parents and the two index vectors   *)
(* of ParentChildIndices, which let an edge be removed without searching.  *)
(*                                                                         *)
(* A node has edges to its children at all times; a child has the edge's   *)
(* other end, an entry in its parents, only while the parent is necessary. *)
(* For the child at index i of p, parentIndex[p][i] is where p stands in   *)
(* that child's parents; the entry there says <<p, i>>.  Entries move when *)
(* another one is removed (swap_remove), edges move when another edge of   *)
(* an Expert node is removed (swap_children), and one child can be there   *)
(* twice.                                                                  *)
(*                                                                         *)
(* A call that makes a node necessary or unnecessary visits its children   *)
(* in order, and each of those that changes visits its own: stack holds    *)
(* these loops, the innermost last, and one turn of a loop is a step.      *)
(*                                                                         *)
(* Indices count from 1 and 0 stands for the code's -1.  Parents and       *)
(* my_child_index_in_parent_at_index, which the code keeps in step, are    *)
(* one sequence of records.                                                *)
(***************************************************************************)
EXTENDS Integers, Sequences, FiniteSets

CONSTANTS
  Node,
  Edge,               \* edges that exist or that a closure can make
  Owner,              \* Owner[e]: the parent
  Child,              \* Child[e]: the node that e makes a child of it
  InitChildren,       \* InitChildren[n]: the edges that n is made with
  ExpertNode,         \* nodes with add_dependency and remove_dependency
  BindMain,           \* nodes whose second child their bind's closure replaces
  CanInvalidate,      \* nodes that invalidate_node is called for
  MaxChildren,        \* bound on the children of a node
  NoNode

Index == 1 .. MaxChildren

ASSUME EdgeAssumption ==
  /\ Owner \in [Edge -> Node]
  /\ Child \in [Edge -> Node]
ASSUME KindAssumption ==
  /\ ExpertNode \subseteq Node
  /\ BindMain \subseteq Node
  /\ CanInvalidate \subseteq Node
  /\ ExpertNode \intersect BindMain = {}
  /\ NoNode \notin Node
ASSUME ChildrenAssumption ==
  /\ MaxChildren \in Nat
  /\ BindMain # {} => MaxChildren >= 2
  /\ InitChildren \in [Node -> Seq(Edge)]
  /\ \A n \in Node :
       /\ Len(InitChildren[n]) <= MaxChildren
       /\ \A i, j \in 1 .. Len(InitChildren[n]) :
            /\ Owner[InitChildren[n][i]] = n
            /\ InitChildren[n][i] = InitChildren[n][j] => i = j
  /\ \A b \in BindMain : Len(InitChildren[b]) \in {1, 2}

VARIABLES
  children,   \* children[n]: the edges of n, those that Node::foreach_child visits
  edgeIndex,  \* edgeIndex[e]: kind::expert::Edge.index, and for other kinds its place
  links,      \* .parents[c]: Node.parents with the child index of each;
              \* .parentIndex[p][i]: my_parent_index_in_child_at_index
  observed,   \* the nodes with an observer
  forced,     \* the node with force_necessary set, or NoNode
  valid,      \* valid[n]: Node.is_valid
  stack,      \* the loops over children that are running
  panicked    \* a RefCell was borrowed twice: the program has stopped

vars == <<children, edgeIndex, links, observed, forced, valid, stack, panicked>>

Link == [parent : Node, index : Index]
Frame == [op : {"link", "unlink"}, node : Node, next : Nat]

-----------------------------------------------------------------------------
(***************************************************************************)
(* The operations on the indices.                                          *)
(***************************************************************************)

\* Fault: the parent whose entry takes the removed one's place is not told.
RemoveParentUntold(L, c, i, p) ==
  LET j == L.parentIndex[p][i]
      last == Len(L.parents[c])
      moved == [k \in 1 .. last - 1 |-> IF k = j THEN L.parents[c][last] ELSE L.parents[c][k]]
  IN  [parents |-> [L.parents EXCEPT ![c] = moved],
       parentIndex |-> [L.parentIndex EXCEPT ![p][i] = 0]]

\* Node::add_parent: c becomes the child of p at index i.
AddParent(L, c, i, p) ==
  [parents |-> [L.parents EXCEPT ![c] = Append(@, [parent |-> p, index |-> i])],
   parentIndex |-> [L.parentIndex EXCEPT ![p][i] = Len(L.parents[c]) + 1]]

\* Node::remove_parent: the last entry takes the place of the one removed.
RemoveParent(L, c, i, p) ==
  LET j == L.parentIndex[p][i]
      last == Len(L.parents[c])
      end == L.parents[c][last]
      moved == [k \in 1 .. last - 1 |-> IF k = j THEN end ELSE L.parents[c][k]]
      unlinked == [L.parentIndex EXCEPT ![p][i] = 0]
  IN  [parents |-> [L.parents EXCEPT ![c] = moved],
       parentIndex |-> IF j < last THEN [unlinked EXCEPT ![end.parent][end.index] = j]
                                   ELSE unlinked]

\* Node::expert_swap_children_except_in_kind: c1 at index i1 of p and c2 at
\* index i2, two nodes, change places.
SwapChildren(L, p, c1, i1, c2, i2) ==
  LET j1 == L.parentIndex[p][i1]
      j2 == L.parentIndex[p][i2]
  IN  [parents |-> [L.parents EXCEPT ![c1][j1].index = i2, ![c2][j2].index = i1],
       parentIndex |-> [L.parentIndex EXCEPT ![p][i1] = j2, ![p][i2] = j1]]

-----------------------------------------------------------------------------
\* Node::is_necessary.
NecessaryIn(L, n) == L.parents[n] # <<>> \/ n \in observed \/ n = forced

Necessary(n) == NecessaryIn(links, n)

\* No call is running.
Idle == stack = <<>> /\ forced = NoNode /\ ~panicked

\* S with the loop of became_necessary or remove_children over the children of n
\* as the innermost one; an invalid node has no children to visit.
Enter(S, op, n) ==
  IF valid[n] THEN Append(S, [op |-> op, node |-> n, next |-> 1]) ELSE S

\* Fault: a child that has lost its last parent keeps its own children.
EnterUnlessNecessaryNever(S, L, c) == S

\* What add_parent_without_adjusting_heights does next for a child c.
EnterIfWasUnnecessary(S, c) == IF Necessary(c) THEN S ELSE Enter(S, "link", c)

\* Node::check_if_unnecessary.
EnterUnlessNecessary(S, L, c) == IF NecessaryIn(L, c) THEN S ELSE Enter(S, "unlink", c)

Init ==
  /\ children = InitChildren
  /\ edgeIndex = [e \in Edge |->
       LET at == {i \in 1 .. Len(InitChildren[Owner[e]]) : InitChildren[Owner[e]][i] = e}
       IN  IF at = {} THEN 0 ELSE CHOOSE i \in at : TRUE]
  /\ links = [parents |-> [n \in Node |-> <<>>],
              parentIndex |-> [n \in Node |-> [i \in Index |-> 0]]]
  /\ observed = {}
  /\ forced = NoNode
  /\ valid = [n \in Node |-> TRUE]
  /\ stack = <<>>
  /\ panicked = FALSE

\* State::add_new_observers for one observer of n.
Observe(n) ==
  /\ Idle
  /\ n \notin observed
  /\ observed' = observed \union {n}
  /\ stack' = EnterIfWasUnnecessary(stack, n)
  /\ UNCHANGED <<children, edgeIndex, links, forced, valid, panicked>>

\* State::unlink_disallowed_observers for the observer of n.
Unobserve(n) ==
  /\ Idle
  /\ n \in observed
  /\ observed' = observed \ {n}
  /\ stack' = IF links.parents[n] # <<>> THEN stack ELSE Enter(stack, "unlink", n)
  /\ UNCHANGED <<children, edgeIndex, links, forced, valid, panicked>>

\* Fault: the handle of the edge that moves keeps its old index.
ExchangeUntold(p, i, last) ==
  /\ children' = [children EXCEPT ![p] =
       [k \in 1 .. last - 1 |-> IF k = i THEN children[p][last] ELSE children[p][k]]]
  /\ edgeIndex' = [edgeIndex EXCEPT ![children[p][i]] = 0]

\* ExpertNode::swap_children and pop_child_edge: the last edge of p takes the
\* place of the one at index i, which is gone.
ExchangeAndPop(p, i, last) ==
  /\ children' = [children EXCEPT ![p] =
       [k \in 1 .. last - 1 |-> IF k = i THEN children[p][last] ELSE children[p][k]]]
  /\ edgeIndex' = [edgeIndex EXCEPT ![children[p][last]] = i, ![children[p][i]] = 0]

\* Node::expert_add_dependency with ExpertNode::add_child_edge.
AddDependency(e) ==
  LET p == Owner[e]
      i == Len(children[p]) + 1
  IN  /\ Idle
      /\ p \in ExpertNode
      /\ valid[p]
      /\ edgeIndex[e] = 0
      /\ i <= MaxChildren
      /\ children' = [children EXCEPT ![p] = Append(@, e)]
      /\ edgeIndex' = [edgeIndex EXCEPT ![e] = i]
      /\ IF Necessary(p)
           THEN /\ links' = AddParent(links, Child[e], i, p)
                /\ stack' = EnterIfWasUnnecessary(stack, Child[e])
           ELSE UNCHANGED <<links, stack>>
      /\ UNCHANGED <<observed, forced, valid, panicked>>

\* expert_swap_children_except_in_kind borrows parent_child_indices of both
\* children mutably at once.
BorrowedTwice(p, e) ==
  LET last == children[p][Len(children[p])]
  IN  e # last /\ Child[e] = Child[last]

\* Node::expert_remove_dependency.
RemoveDependency(e) ==
  LET p == Owner[e]
      i == edgeIndex[e]
      last == Len(children[p])
      swapped == IF i = last THEN links
                 ELSE SwapChildren(links, p, Child[e], i, Child[children[p][last]], last)
  IN  /\ Idle
      /\ p \in ExpertNode
      /\ valid[p]
      /\ i # 0
      /\ Necessary(p) => ~BorrowedTwice(p, e)
      /\ ExchangeAndPop(p, i, last)
      /\ IF Necessary(p)
           THEN /\ links' = RemoveParent(swapped, Child[e], last, p)
                /\ stack' = EnterUnlessNecessary(stack, links', Child[e])
           ELSE UNCHANGED <<links, stack>>
      /\ UNCHANGED <<observed, forced, valid, panicked>>

RemoveDependencyPanics(e) ==
  /\ Idle
  /\ Owner[e] \in ExpertNode
  /\ valid[Owner[e]]
  /\ edgeIndex[e] # 0
  /\ Necessary(Owner[e])
  /\ BorrowedTwice(Owner[e], e)
  /\ panicked' = TRUE
  /\ UNCHANGED <<children, edgeIndex, links, observed, forced, valid, stack>>

(***************************************************************************)
(* Node::change_child_bind_rhs for the edge e to the node that the bind's  *)
(* closure returned.  The old right-hand side is forced to be necessary    *)
(* until the new one has been linked.                                      *)
(***************************************************************************)
ChangeChild(e) ==
  LET b == Owner[e]
      old == children[b][2]
  IN  /\ Idle
      /\ b \in BindMain
      /\ valid[b]
      /\ Necessary(b)
      /\ edgeIndex[e] = 0
      /\ Len(children[b]) = 2 => Child[old] # Child[e]
      /\ IF Len(children[b]) = 1
           THEN /\ children' = [children EXCEPT ![b] = Append(@, e)]
                /\ edgeIndex' = [edgeIndex EXCEPT ![e] = 2]
                /\ links' = AddParent(links, Child[e], 2, b)
                /\ UNCHANGED forced
           ELSE /\ children' = [children EXCEPT ![b] = [@ EXCEPT ![2] = e]]
                /\ edgeIndex' = [edgeIndex EXCEPT ![old] = 0, ![e] = 2]
                /\ links' = AddParent(RemoveParent(links, Child[old], 2, b), Child[e], 2, b)
                /\ forced' = Child[old]
      /\ stack' = EnterIfWasUnnecessary(stack, Child[e])
      /\ UNCHANGED <<observed, valid, panicked>>

\* The end of change_child_bind_rhs: the old right-hand side is let go.
Unforce ==
  /\ stack = <<>>
  /\ forced # NoNode
  /\ forced' = NoNode
  /\ stack' = IF links.parents[forced] # <<>> \/ forced \in observed
                THEN stack ELSE Enter(stack, "unlink", forced)
  /\ UNCHANGED <<children, edgeIndex, links, observed, valid, panicked>>

\* Node::invalidate_node.  The children are let go of before is_valid is unset;
\* nothing reads is_valid of this node in between.
InvalidateNode(n) ==
  /\ Idle
  /\ n \in CanInvalidate
  /\ valid[n]
  /\ valid' = [valid EXCEPT ![n] = FALSE]
  /\ stack' = IF Necessary(n) THEN Enter(stack, "unlink", n) ELSE stack
  /\ UNCHANGED <<children, edgeIndex, links, observed, forced, panicked>>

-----------------------------------------------------------------------------
(***************************************************************************)
(* The loops.                                                              *)
(***************************************************************************)

Depth == Len(stack)
Top == stack[Depth]
Advanced == [stack EXCEPT ![Depth].next = @ + 1]

\* One turn of Node::became_necessary's loop:
\* add_parent_without_adjusting_heights for the next child.
LinkChild ==
  LET c == Child[children[Top.node][Top.next]]
  IN  /\ stack # <<>>
      /\ Top.op = "link"
      /\ Top.next <= Len(children[Top.node])
      /\ links' = AddParent(links, c, Top.next, Top.node)
      /\ stack' = EnterIfWasUnnecessary(Advanced, c)
      /\ UNCHANGED <<children, edgeIndex, observed, forced, valid, panicked>>

\* One turn of Node::remove_children's loop: remove_parent and
\* check_if_unnecessary for the next child.
UnlinkChild ==
  LET c == Child[children[Top.node][Top.next]]
  IN  /\ stack # <<>>
      /\ Top.op = "unlink"
      /\ Top.next <= Len(children[Top.node])
      /\ links' = RemoveParent(links, c, Top.next, Top.node)
      /\ stack' = EnterUnlessNecessary(Advanced, links', c)
      /\ UNCHANGED <<children, edgeIndex, observed, forced, valid, panicked>>

\* The loop has seen every child.
LoopEnds ==
  /\ stack # <<>>
  /\ Top.next > Len(children[Top.node])
  /\ stack' = SubSeq(stack, 1, Depth - 1)
  /\ UNCHANGED <<children, edgeIndex, links, observed, forced, valid, panicked>>

Next ==
  \/ \E n \in Node : Observe(n) \/ Unobserve(n) \/ InvalidateNode(n)
  \/ \E e \in Edge : AddDependency(e) \/ RemoveDependency(e)
                       \/ RemoveDependencyPanics(e) \/ ChangeChild(e)
  \/ Unforce
  \/ LinkChild
  \/ UnlinkChild
  \/ LoopEnds

Spec == Init /\ [][Next]_vars

-----------------------------------------------------------------------------
(***************************************************************************)
(* Properties.                                                             *)
(***************************************************************************)

\* The indices of n's edges whose children have an entry for them.
Linked(n) == {i \in Index : links.parentIndex[n][i] # 0}

\* The variables have the types of the fields they stand for.
TypeOK ==
  /\ children \in [Node -> Seq(Edge)]
  /\ edgeIndex \in [Edge -> 0 .. MaxChildren]
  /\ links.parents \in [Node -> Seq(Link)]
  /\ links.parentIndex \in [Node -> [Index -> Nat]]
  /\ observed \in SUBSET Node
  /\ forced \in Node \union {NoNode}
  /\ valid \in [Node -> BOOLEAN]
  /\ stack \in Seq(Frame)
  /\ panicked \in BOOLEAN

(***************************************************************************)
(* The two index vectors describe the same edges at every moment, in the   *)
(* middle of the loops too: where an edge says it is in its child's        *)
(* parents there is an entry for it, and no entry is for anything else.    *)
(* remove_parent and child_changed use the indices without looking.        *)
(***************************************************************************)
EdgesHaveEntries ==
  \A p \in Node : \A i \in Linked(p) :
    /\ i <= Len(children[p])
    /\ LET entries == links.parents[Child[children[p][i]]]
           j == links.parentIndex[p][i]
       IN  /\ j <= Len(entries)
           /\ entries[j] = [parent |-> p, index |-> i]

EntriesHaveEdges ==
  \A c \in Node : \A j \in DOMAIN links.parents[c] :
    LET entry == links.parents[c][j]
    IN  /\ links.parentIndex[entry.parent][entry.index] = j
        /\ entry.index <= Len(children[entry.parent])
        /\ Child[children[entry.parent][entry.index]] = c

LinksAgree == EdgesHaveEntries /\ EntriesHaveEdges

\* Edge::index, which remove_dependency finds an edge by, is the edge's place in
\* the children of its Expert node, and is unset when it has none.
EdgeIndicesAgree ==
  /\ \A e \in Edge : edgeIndex[e] # 0 =>
       /\ edgeIndex[e] <= Len(children[Owner[e]])
       /\ children[Owner[e]][edgeIndex[e]] = e
  /\ \A n \in Node : \A i \in DOMAIN children[n] :
       /\ Owner[children[n][i]] = n
       /\ edgeIndex[children[n][i]] = i

\* Between calls, every child of a necessary valid node knows it as a parent,
\* once for each edge, and a node that is not necessary is nobody's parent.
LinkedWhenNecessary ==
  Idle => \A n \in Node :
    Linked(n) = IF valid[n] /\ Necessary(n) THEN 1 .. Len(children[n]) ELSE {}

\* Removing any dependency that was added works, for a child that is there twice
\* too: "we don't get BorrowMutError when we have duplicate parents"
\* (Node::remove_parent; tests/expert.rs has such nodes in expert_duplicate_inputs).
DuplicatesCanBeRemoved == ~panicked
=============================================================================
