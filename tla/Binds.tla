-------------------------------- MODULE Binds --------------------------------
(***************************************************************************)
(* Binds: nodes whose closure builds a piece of the graph while it is      *)
(* being recomputed.  Incr::bind makes two nodes.  The lhs-change node has *)
(* the bind's input as its child and runs the closure; the main node has   *)
(* the lhs-change node and the closure's result, the right-hand side, as   *)
(* children and copies the latter's value.  What the closure creates       *)
(* belongs to the bind's scope: when the closure runs again, the nodes of  *)
(* its previous run are invalidated, and whatever depends on them.         *)
(*                                                                         *)
(* The functions that link, unlink, raise and invalidate call one another. *)
(* Each call is a step; `calls' is the stack of those still to be made, so *)
(* that a turn of stabilise begins and ends with an empty stack.           *)
(*                                                                         *)
(* Heights are raised by AdjustHeights, represented here by its result.    *)
(* Nodes have the kinds Var, Map, BindLhsChange and BindMain; Propagation  *)
(* has the others, and what user code does while stabilise runs.           *)
(***************************************************************************)
EXTENDS Heights, SequencesExt, FiniteSets

CONSTANTS
  TopNode,            \* the nodes made at Scope::Top, in order; the user holds them
  Fresh,              \* the nodes that closures can make
  TopKind,            \* TopKind[n]: "Var", "Map", "Lhs" or "Main"
  TopChildren,        \* TopChildren[n]: its children; a main node has only its lhs-change
  TopCode,            \* TopCode[n]: the closure of the lhs-change node n
  Program,            \* Program[c][v]: what closure c does for the value v, see Result
  Observable,         \* the nodes the user may observe, in order
  NoValue, NoNode,
  MaxStabilisations

Top == Range(TopNode)
Node == Top \union Fresh
Bit == {0, 1}
Never == -1
VarNode == {n \in Top : TopKind[n] = "Var"}
LhsNode == {n \in Top : TopKind[n] = "Lhs"}

ASSUME NodeAssumption ==
  /\ IsFiniteSet(Fresh) /\ Top \intersect Fresh = {} /\ NoNode \notin Node /\ NoValue \notin Bit
  /\ TopNode \in Seq(Top)
  /\ \A i, j \in DOMAIN TopNode : TopNode[i] = TopNode[j] => i = j
  /\ Observable \in Seq(Top \ LhsNode)
  /\ MaxStabilisations \in Nat

\* A node's children are made before it, and Incr::bind makes two nodes.
ASSUME TopAssumption ==
  /\ TopKind \in [Top -> {"Var", "Map", "Lhs", "Main"}]
  /\ TopChildren \in [Top -> Seq(Top)]
  /\ \A i \in DOMAIN TopNode : \A c \in Range(TopChildren[TopNode[i]]) :
       \E j \in 1 .. i - 1 : c = TopNode[j]
  /\ \A n \in Top : Len(TopChildren[n]) = IF n \in VarNode THEN 0 ELSE 1
  /\ \A n \in Top \ VarNode : TopChildren[n][1] \in LhsNode <=> TopKind[n] = "Main"
  /\ \A b \in LhsNode : \E m \in Top : TopKind[m] = "Main" /\ TopChildren[m][1] = b
  /\ \A m, k \in Top : TopKind[m] = "Main" /\ TopKind[k] = "Main" /\
       TopChildren[m][1] = TopChildren[k][1] => m = k

\* A closure uses nodes that are older than its bind.
ASSUME ProgramAssumption ==
  /\ TopCode \in [LhsNode -> DOMAIN Program]
  /\ \A c \in DOMAIN Program : \A v \in Bit :
       /\ Program[c][v].op \in {"node", "map", "bind", "rhs", "drop"}
       /\ Program[c][v].of \in Top \ LhsNode
       /\ Program[c][v].op = "bind" => Program[c][v].code \in DOMAIN Program
  /\ \E reach \in [DOMAIN Program -> DOMAIN TopNode] :
       /\ \A b \in LhsNode : \A i \in DOMAIN TopNode :
            TopNode[i] = b => reach[TopCode[b]] <= i
       /\ \A c \in DOMAIN Program : \A v \in Bit :
            /\ \E i \in 1 .. reach[c] - 1 : Program[c][v].of = TopNode[i]
            /\ Program[c][v].op = "bind" => reach[Program[c][v].code] <= reach[c]

VARIABLES
  \* The fields of Node, of a node's kind, and of BindNode for lhs-change nodes.
  kind,               \* "None" for a node that does not exist
  children,           \* of a main node: lhs_change, and rhs when there is one
  scope,              \* created_in: a bind's lhs-change node, or NoNode for Top
  code,               \* the closure of an lhs-change node
  created,            \* all_nodes_created_on_rhs; NoNode for one that was dropped
  valid, value, recomputedAt, changedAt, height, parents,
  \* The fields of State.
  observed,           \* the nodes with an observer that is linked
  forced,             \* the nodes with force_necessary
  heap,               \* the recompute heap
  invalidated,        \* propagate_invalidity
  now,                \* stabilisation_num
  stabilising,
  calls,              \* the calls that the running one has still to make, see Call
  direct,             \* the node recompute_one returned, to recompute next: {} or {n}
  panicked,
  \* The user's variables and observers.
  varValue,           \* varValue[v]: Var.value
  setAt,              \* setAt[v]: Var.set_at
  wanted              \* the nodes with a live observer

made == <<kind, scope, code>>
values == <<value, recomputedAt, changedAt>>
links == <<parents, observed, forced>>
user == <<varValue, setAt, wanted>>
turn == <<now, stabilising, direct>>
vars == <<made, children, created, valid, values, height, links, heap, invalidated, turn,
          calls, panicked, user>>

-----------------------------------------------------------------------------
(***************************************************************************)
(* Reading the graph.                                                      *)
(***************************************************************************)

\* Node::foreach_child: an invalid node has no children.
ChildrenOf(n) == IF valid[n] THEN children[n] ELSE <<>>

\* Node::is_necessary.
Necessary(n) == parents[n] # <<>> \/ n \in observed \union forced

\* BindNode.main, as far as it can be upgraded.
MainOf(b) == {m \in Node : kind[m] = "Main" /\ children[m][1] = b}

\* Scope::height and Scope::is_necessary for the scope n was created in.
ScopeHeight(n) == IF scope[n] = NoNode THEN 0 ELSE height[scope[n]]

ScopeNecessary(n) == scope[n] = NoNode \/ \E m \in MainOf(scope[n]) : Necessary(m)

\* Fault: nodes are stale only until they first run.
StaleInnerUntilRun(n) == recomputedAt[n] = Never

\* Node::is_stale for the kinds with children.
StaleInner(n) ==
  \/ recomputedAt[n] = Never
  \/ \E c \in Range(children[n]) : changedAt[c] > recomputedAt[n]

\* Node::is_stale.
Stale(n) ==
  /\ valid[n]
  /\ IF n \in VarNode THEN setAt[n] > recomputedAt[n] ELSE StaleInner(n)

\* The nodes that adjust_heights puts above each node.
Above ==
  [n \in Node |->
     Range(parents[n]) \union
     IF valid[n] THEN {m \in Range(created[n]) \ {NoNode} : Necessary(m)} ELSE {}]

-----------------------------------------------------------------------------
(***************************************************************************)
(* A call to be made: a function, the node it is a method of, and a node   *)
(* it is given.                                                            *)
(***************************************************************************)
Function ==
  {"add_observer", "remove_observer", "add_parent", "place", "remove_parent", "release",
   "invalidate", "lower", "drain", "mark", "propagate_invalidity",
   "adjust_heights", "queue_if_older", "change", "drop"}

Call == [do : Function, node : Node \union {NoNode}, with : Node \union {NoNode}]

Do(f, n) == [do |-> f, node |-> n, with |-> NoNode]
DoWith(f, n, p) == [do |-> f, node |-> n, with |-> p]

\* f for each node of the sequence s; dropped nodes are passed over.
DoEach(f, s) == [i \in DOMAIN s |-> Do(f, s[i])]
ForChildren(f, n) == [i \in DOMAIN ChildrenOf(n) |-> DoWith(f, ChildrenOf(n)[i], n)]

\* The running call has these to make before the others, and returns when it has none.
Calls(first) == calls' = first \o Tail(calls)
Returns == calls' = Tail(calls)

-----------------------------------------------------------------------------
(***************************************************************************)
(* Linking: edges that make nodes necessary or unnecessary.                *)
(***************************************************************************)

\* Fault: the node starts at the bottom, as if its scope were Top.
StartAtBottom(n) == 1

\* A node that becomes necessary starts above its scope.
StartHeight(n) == ScopeHeight(n) + 1

\* Node::became_necessary links n to its children, and then places it.
BecameNecessary(n, after) ==
  /\ panicked' = (valid[n] /\ ~ScopeNecessary(n))
  /\ height' = [height EXCEPT ![n] = StartHeight(n)]
  /\ Calls(ForChildren("add_parent", n) \o <<Do("place", n)>> \o after)

\* The end of it: n rises above its children, and is queued when it is stale.
Place(n) ==
  LET bounds == {height[n]} \union {height[c] + 1 : c \in Range(ChildrenOf(n))}
  IN  /\ height' = [height EXCEPT ![n] = CHOOSE h \in bounds : \A b \in bounds : b <= h]
      /\ heap' = IF Stale(n) THEN heap \union {n} ELSE heap
      /\ Returns
      /\ UNCHANGED <<made, children, created, valid, values, links, invalidated, turn, panicked,
                     user>>

\* Node::add_parent_without_adjusting_heights.
AddParentWithoutAdjustingHeights(c, p) ==
  /\ parents' = [parents EXCEPT ![c] = Append(@, p)]
  /\ invalidated' = IF valid[c] THEN invalidated ELSE Append(invalidated, p)
  /\ IF Necessary(c) THEN Returns /\ UNCHANGED <<height, panicked>>
                     ELSE BecameNecessary(c, <<>>)
  /\ UNCHANGED <<made, children, created, valid, values, observed, forced, heap, turn, user>>

\* Node::remove_parent: the last parent takes the place of the one removed.
Without(others, p) ==
  LET at == CHOOSE i \in DOMAIN others : others[i] = p
  IN  Front([others EXCEPT ![at] = Last(others)])

\* Node::became_unnecessary.  Nothing looks at the heap while the children are unlinked.
BecameUnnecessary(n) ==
  /\ height' = [height EXCEPT ![n] = -1]
  /\ heap' = heap \ {n}
  /\ Calls(ForChildren("remove_parent", n))

\* Node::check_if_unnecessary, after n's parents or observers have changed.
CheckIfUnnecessary(n) ==
  IF parents'[n] # <<>> \/ n \in observed' \union forced'
    THEN Returns /\ UNCHANGED <<height, heap>>
    ELSE BecameUnnecessary(n)

\* A turn of the loop in Node::remove_children.
RemoveParent(c, p) ==
  /\ parents' = [parents EXCEPT ![c] = Without(@, p)]
  /\ UNCHANGED <<observed, forced>>
  /\ CheckIfUnnecessary(c)
  /\ UNCHANGED <<made, children, created, valid, values, invalidated, turn, panicked, user>>

-----------------------------------------------------------------------------
(***************************************************************************)
(* Node::invalidate_node, in order: forget the value, unlink the children, *)
(* invalidate what a main node's bind created, tell the parents and leave  *)
(* the recompute heap.                                                     *)
(***************************************************************************)
InvalidateNode(n) ==
  IF n = NoNode \/ ~valid[n]
    THEN /\ Returns
         /\ UNCHANGED <<made, children, created, valid, values, height, links, heap, invalidated,
                        turn, panicked, user>>
    ELSE /\ value' = [value EXCEPT ![n] = NoValue]
         /\ changedAt' = [changedAt EXCEPT ![n] = now]
         /\ recomputedAt' = [recomputedAt EXCEPT ![n] = now]
         /\ Calls((IF Necessary(n) THEN Append(ForChildren("remove_parent", n), Do("lower", n))
                                   ELSE <<>>)
                  \o (IF kind[n] = "Main" THEN <<Do("drain", n), Do("mark", n)>>
                                          ELSE <<Do("mark", n)>>))
         /\ UNCHANGED <<made, children, created, valid, height, links, heap, invalidated, turn,
                        panicked, user>>

Lower(n) ==
  /\ height' = [height EXCEPT ![n] = ScopeHeight(n) + 1]
  /\ Returns
  /\ UNCHANGED <<made, children, created, valid, values, links, heap, invalidated, turn, panicked,
                 user>>

\* invalidate_nodes_created_on_rhs, for the bind of the main node n.
Drain(n) ==
  LET b == children[n][1]
  IN  /\ created' = [created EXCEPT ![b] = <<>>]
      /\ Calls(DoEach("invalidate", created[b]))
      /\ UNCHANGED <<made, children, valid, values, height, links, heap, invalidated, turn,
                     panicked, user>>

\* Fault: an invalidated node stays in the recompute heap.
MarkInvalidQueued(n) ==
  /\ valid' = [valid EXCEPT ![n] = FALSE]
  /\ invalidated' = invalidated \o parents[n]
  /\ Returns
  /\ UNCHANGED <<made, children, created, values, height, links, heap, turn, panicked, user>>

MarkInvalid(n) ==
  /\ valid' = [valid EXCEPT ![n] = FALSE]
  /\ invalidated' = invalidated \o parents[n]
  /\ heap' = heap \ {n}
  /\ Returns
  /\ UNCHANGED <<made, children, created, values, height, links, turn, panicked, user>>

\* Fault: a main node does not wait for its closure.
ShouldBeInvalidatedAtOnce(n) == \E c \in Range(children[n]) : ~valid[c]

\* Node::should_be_invalidated.
ShouldBeInvalidated(n) ==
  IF kind[n] = "Main" THEN ~valid[children[n][1]]
                      ELSE \E c \in Range(children[n]) : ~valid[c]

\* RecomputeHeap::insert, which asserts that a node it links has a height.
Insert(n) == heap' = heap \union {n} /\ panicked' = (n \notin heap /\ height[n] < 0)

(***************************************************************************)
(* A turn of the loop of State::propagate_invalidity: a node above an      *)
(* invalid one becomes invalid too, but for a main node, which is queued   *)
(* to see whether its right-hand side has been replaced.                   *)
(***************************************************************************)
PropagateInvalidity ==
  LET n == Last(invalidated)
  IN  /\ UNCHANGED <<made, children, created, valid, values, height, links, turn, user>>
      /\ IF invalidated = <<>>
           THEN Returns /\ UNCHANGED <<heap, panicked, invalidated>>
           ELSE /\ invalidated' = Front(invalidated)
                /\ IF ~valid[n]
                     THEN UNCHANGED <<calls, heap, panicked>>
                   ELSE IF ShouldBeInvalidated(n)
                     THEN calls' = <<Do("invalidate", n)>> \o calls /\ UNCHANGED <<heap, panicked>>
                   ELSE Insert(n) /\ UNCHANGED calls

-----------------------------------------------------------------------------
(***************************************************************************)
(* Replacing the right-hand side.                                          *)
(***************************************************************************)

(***************************************************************************)
(* AdjustHeightsHeap::adjust_heights after p became a parent of c, when c  *)
(* is too high.  It upgrades every node created on the right side of each  *)
(* lhs-change node that it raises.                                         *)
(***************************************************************************)
AdjustHeights(c, p) ==
  LET raised == LeastHeights(Above, height)
      visited == {n \in Node : Necessary(n) /\ raised[n] # height[n]}
  IN  /\ IF height[c] < height[p]
           THEN UNCHANGED <<height, panicked>>
           ELSE /\ height' = [n \in Node |-> IF Necessary(n) THEN raised[n] ELSE height[n]]
                /\ panicked' = \E b \in visited : valid[b] /\ NoNode \in Range(created[b])
      /\ Returns
      /\ UNCHANGED <<made, children, created, valid, values, links, heap, invalidated, turn, user>>

\* The end of Node::state_add_parent.
QueueIfOlder(c, p) ==
  /\ IF recomputedAt[p] = Never \/ changedAt[c] > recomputedAt[p]
       THEN Insert(p) ELSE UNCHANGED <<heap, panicked>>
  /\ Returns
  /\ UNCHANGED <<made, children, created, valid, values, height, links, invalidated, turn, user>>

StateAddParent(c, p) ==
  <<DoWith("add_parent", c, p), DoWith("adjust_heights", c, p), Do("propagate_invalidity", NoNode),
    DoWith("queue_if_older", c, p)>>

\* The end of Node::change_child_bind_rhs: the old right-hand side is no longer forced.
Release(o) ==
  /\ forced' = {}
  /\ UNCHANGED <<parents, observed>>
  /\ CheckIfUnnecessary(o)
  /\ UNCHANGED <<made, children, created, valid, values, invalidated, turn, panicked, user>>

\* Node::change_child_bind_rhs for the main node m, which takes effect at once, and the
\* calls that it makes then; old is a sequence of at most one node.
SameRhs(m, old, new) == ~valid[m] \/ old = <<new>>

ChangeChildBindRhs(m, old, new) ==
  IF SameRhs(m, old, new) \/ old = <<>>
    THEN UNCHANGED <<parents, forced>>
    ELSE /\ parents' = [parents EXCEPT ![old[1]] = Without(@, m)]
         /\ forced' = {old[1]}

ChangeChildCalls(m, old, new) ==
  IF SameRhs(m, old, new) THEN <<>>
  ELSE StateAddParent(new, m) \o DoEach("release", old)

\* Fault: the nodes of the previous run are left as they are.
PurgeCallsNone(old, previous) == <<>>

\* The nodes of the previous run, if there was one, are invalidated.
PurgeCalls(old, previous) ==
  IF old = <<>> THEN <<>>
  ELSE Append(DoEach("invalidate", previous), Do("propagate_invalidity", NoNode))

(***************************************************************************)
(* What the closure of bind b makes in the bind's scope, and returns:      *)
(*   node   it returns a node that exists                                  *)
(*   map    it makes a Map of such a node                                  *)
(*   bind   it makes a bind on such a node, with a closure of its own      *)
(*   rhs    it returns what the closure of its input made, if that is a    *)
(*          bind whose right-hand side was made so, and else a node        *)
(*   drop   it makes a Map that it does not keep, and returns a node       *)
(***************************************************************************)
Unused == {n \in Fresh : kind[n] = "None"}
New1 == CHOOSE n \in Unused : TRUE
New2 == CHOOSE n \in Unused \ {New1} : TRUE

\* Node::create_rc: the closure's new nodes, in order.
Made(do) ==
  CASE do.op = "map"  -> <<New1>>
    [] do.op = "bind" -> <<New1, New2>>
    [] OTHER          -> <<>>

NumberMade(do) == CASE do.op = "map" -> 1 [] do.op = "bind" -> 2 [] OTHER -> 0

OwnRhs(x) == kind[x] = "Main" /\ Len(children[x]) = 2 /\ scope[children[x][2]] = children[x][1]

Result(b, do) ==
  LET x == children[b][1]
  IN  CASE do.op = "map"  -> New1
        [] do.op = "bind" -> New2
        [] do.op = "rhs" /\ OwnRhs(x) -> children[x][2]
        [] OTHER -> do.of

Build(b, do, m) ==
  LET new == Made(do)
  IN  /\ kind' = [n \in Node |-> IF n \notin Range(new) THEN kind[n]
                                 ELSE IF do.op = "map" THEN "Map"
                                 ELSE IF n = New1 THEN "Lhs" ELSE "Main"]
      /\ children' = [n \in Node |-> IF n = m THEN <<b, Result(b, do)>>
                                     ELSE IF n \notin Range(new) THEN children[n]
                                     ELSE IF n = New1 THEN <<do.of>> ELSE <<New1>>]
      /\ scope' = [n \in Node |-> IF n \in Range(new) THEN b ELSE scope[n]]
      /\ code' = [n \in Node |-> IF do.op = "bind" /\ n = New1 THEN do.code ELSE code[n]]
      /\ created' = [created EXCEPT ![b] = IF do.op = "drop" THEN <<NoNode>> ELSE new]

-----------------------------------------------------------------------------
(***************************************************************************)
(* Recomputing.                                                            *)
(***************************************************************************)

\* RecomputeHeap::min_height, a height above all when the heap is empty.
LowestQueued(queue, p) == \A m \in queue : height[p] <= height[m]

\* Node::parent_iter_can_recompute_now, for p with the child c just recomputed.
CanRecomputeNow(queue, p, c) ==
  \/ LowestQueued(queue, p)
  \/ IF kind[p] = "Main" THEN height[c] > height[children[p][1]]
                         ELSE height[c] > ScopeHeight(p)

(***************************************************************************)
(* Node::maybe_change_value, with n taken from the heap: its parents are   *)
(* queued, or the first one is recomputed directly.  An lhs-change node    *)
(* has Cutoff::Never.                                                      *)
(***************************************************************************)
MaybeChangeValue(n, v) ==
  LET changed == kind[n] = "Lhs" \/ value[n] # v
      others == (heap \ {n}) \union Range(Tail(parents[n]))
      first == Head(parents[n])
  IN  /\ value' = [value EXCEPT ![n] = v]
      /\ changedAt' = IF changed THEN [changedAt EXCEPT ![n] = now] ELSE changedAt
      /\ IF ~changed \/ parents[n] = <<>>
           THEN heap' = heap \ {n} /\ direct' = {}
         ELSE IF first \in others \/ ~valid[first]
           THEN heap' = others /\ direct' = {}
         ELSE IF CanRecomputeNow(others, first, n)
           THEN heap' = others /\ direct' = {first}
         ELSE heap' = others \union {first} /\ direct' = {}

\* n is the one that recompute or stabilise takes next.
IsNext(n) ==
  /\ stabilising /\ calls = <<>>
  /\ IF direct = {} THEN n \in heap /\ LowestQueued(heap, n) ELSE n \in direct

\* The branches of Node::recompute_one that unwrap what is not there.
RecomputePanics(n) ==
  \/ ~valid[n]
  \/ kind[n] \in {"Map", "Lhs"} /\ value[children[n][1]] = NoValue
  \/ kind[n] = "Main" /\ Len(children[n]) = 1

Panic ==
  /\ panicked' = TRUE
  /\ UNCHANGED <<made, children, created, valid, values, height, links, heap, invalidated, turn,
                 calls, user>>

\* The Var and Map branches.
RecomputeValue(n) ==
  /\ kind[n] \in {"Var", "Map"}
  /\ MaybeChangeValue(n, IF kind[n] = "Var" THEN varValue[n] ELSE 1 - value[children[n][1]])
  /\ recomputedAt' = [recomputedAt EXCEPT ![n] = now]
  /\ UNCHANGED <<made, children, created, valid, height, links, invalidated, now, stabilising,
                 calls, panicked, user>>

\* The BindMain branch: Node::copy_child_bindrhs.
RecomputeMain(n) ==
  LET c == children[n][2]
  IN  /\ kind[n] = "Main"
      /\ IF valid[c] /\ value[c] # NoValue
           THEN MaybeChangeValue(n, value[c]) /\ UNCHANGED calls
           ELSE /\ heap' = heap \ {n} /\ direct' = {}
                /\ calls' = IF valid[c] THEN <<>>
                            ELSE <<Do("invalidate", n), Do("propagate_invalidity", NoNode)>>
                /\ UNCHANGED <<value, changedAt>>
      /\ recomputedAt' = [recomputedAt EXCEPT ![n] = now]
      /\ UNCHANGED <<made, children, created, valid, height, links, invalidated, now, stabilising,
                     panicked, user>>

\* The BindLhsChange branch: the closure runs, and the main node changes its child.  The
\* number of nodes is bounded: the closure runs when there are enough unused ones.
RecomputeLhs(b) ==
  LET m   == CHOOSE n \in MainOf(b) : TRUE
      old == Tail(children[m])
      do  == Program[code[b]][value[children[b][1]]]
      new == Result(b, do)
  IN  /\ kind[b] = "Lhs"
      /\ Cardinality(Unused) >= NumberMade(do)
      /\ Build(b, do, m)
      /\ recomputedAt' = [recomputedAt EXCEPT ![b] = now]
      /\ changedAt' = [changedAt EXCEPT ![b] = now]
      /\ ChangeChildBindRhs(m, old, new)
      /\ calls' = ChangeChildCalls(m, old, new) \o PurgeCalls(old, created[b])
                  \o <<Do("change", b), Do("drop", NoNode)>>
      /\ heap' = heap \ {b} /\ direct' = {}
      /\ UNCHANGED <<valid, value, height, observed, invalidated, now, stabilising, panicked, user>>

\* Node::recompute_one, in a turn of the loop of stabilise or of that of Node::recompute.
Recompute(n) ==
  /\ IsNext(n)
  /\ IF RecomputePanics(n) THEN Panic
     ELSE RecomputeValue(n) \/ RecomputeMain(n) \/ RecomputeLhs(n)

\* Fault: an lhs-change node is queued again after its closure has run.
ChangeRequeued(b) ==
  /\ heap' = heap \union {b}
  /\ Returns
  /\ UNCHANGED <<made, children, created, valid, values, height, links, invalidated, turn,
                 panicked, user>>

\* The end of the BindLhsChange branch.
Change(b) ==
  /\ MaybeChangeValue(b, 0)
  /\ Returns
  /\ UNCHANGED <<made, children, created, valid, recomputedAt, height, links, invalidated, now,
                 stabilising, panicked, user>>

(***************************************************************************)
(* A node exists as long as the user or another node holds it: an Incr in  *)
(* a node's kind and BindNode.rhs are strong, parents and                  *)
(* all_nodes_created_on_rhs are weak.                                      *)
(***************************************************************************)
NotHeld == {n \in Fresh : kind[n] # "None" /\ \A p \in Node : n \notin Range(children[p])}

\* The branch returns: the old right-hand side is dropped, and nodes that nothing holds.
Drop ==
  LET n == CHOOSE d \in NotHeld : TRUE
  IN  IF NotHeld = {}
        THEN /\ Returns
             /\ UNCHANGED <<made, children, created, valid, values, height, links, heap,
                            invalidated, turn, panicked, user>>
        ELSE /\ kind' = [kind EXCEPT ![n] = "None"]
             /\ children' = [children EXCEPT ![n] = <<>>]
             /\ scope' = [scope EXCEPT ![n] = NoNode]
             /\ code' = [code EXCEPT ![n] = NoValue]
             /\ created' = [b \in Node |-> IF b = n THEN <<>>
                              ELSE [i \in DOMAIN created[b] |-> IF created[b][i] = n THEN NoNode
                                                                ELSE created[b][i]]]
             /\ valid' = [valid EXCEPT ![n] = TRUE]
             /\ value' = [value EXCEPT ![n] = NoValue]
             /\ recomputedAt' = [recomputedAt EXCEPT ![n] = Never]
             /\ changedAt' = [changedAt EXCEPT ![n] = Never]
             /\ height' = [height EXCEPT ![n] = -1]
             /\ UNCHANGED <<links, heap, invalidated, turn, calls, panicked, user>>

-----------------------------------------------------------------------------
Init ==
  /\ kind = [n \in Node |-> IF n \in Top THEN TopKind[n] ELSE "None"]
  /\ children = [n \in Node |-> IF n \in Top THEN TopChildren[n] ELSE <<>>]
  /\ scope = [n \in Node |-> NoNode]
  /\ code = [n \in Node |-> IF n \in LhsNode THEN TopCode[n] ELSE NoValue]
  /\ created = [n \in Node |-> <<>>]
  /\ valid = [n \in Node |-> TRUE]
  /\ value = [n \in Node |-> NoValue]
  /\ recomputedAt = [n \in Node |-> Never]
  /\ changedAt = [n \in Node |-> Never]
  /\ height = [n \in Node |-> -1]
  /\ parents = [n \in Node |-> <<>>]
  /\ observed = {} /\ forced = {} /\ heap = {} /\ invalidated = <<>>
  /\ now = 0 /\ stabilising = FALSE /\ calls = <<>> /\ direct = {} /\ panicked = FALSE
  /\ varValue \in [VarNode -> Bit]
  /\ setAt = [v \in VarNode |-> 0]
  /\ wanted = {}

\* Var::set outside of a stabilisation, to another value.
SetVar(v, x) ==
  /\ ~stabilising
  /\ varValue[v] # x
  /\ varValue' = [varValue EXCEPT ![v] = x]
  /\ setAt' = [setAt EXCEPT ![v] = now]
  /\ heap' = IF setAt[v] < now /\ Necessary(v) THEN heap \union {v} ELSE heap
  /\ UNCHANGED <<made, children, created, valid, values, height, links, invalidated, turn, calls,
                 panicked, wanted>>

\* Incr::observe, or the last Observer of n dropped.
ToggleObserver(n) ==
  /\ ~stabilising
  /\ wanted' = IF n \in wanted THEN wanted \ {n} ELSE wanted \union {n}
  /\ UNCHANGED <<made, children, created, valid, values, height, links, heap, invalidated, turn,
                 calls, panicked, varValue, setAt>>

\* A turn of the loop in State::add_new_observers: nothing for a node without a new one.
AddObserver(n) ==
  /\ IF n \in wanted THEN observed' = observed \union {n} ELSE UNCHANGED observed
  /\ IF n \notin wanted \/ Necessary(n)
       THEN Returns /\ UNCHANGED <<height, panicked>>
       ELSE BecameNecessary(n, <<Do("propagate_invalidity", NoNode)>>)
  /\ UNCHANGED <<made, children, created, valid, values, parents, forced, heap, invalidated, turn,
                 user>>

\* A turn of the loop in State::unlink_disallowed_observers.
RemoveObserver(n) ==
  /\ UNCHANGED <<parents, forced>>
  /\ IF n \in observed \ wanted
       THEN observed' = observed \ {n} /\ CheckIfUnnecessary(n)
       ELSE Returns /\ UNCHANGED <<observed, height, heap>>
  /\ UNCHANGED <<made, children, created, valid, values, invalidated, turn, panicked, user>>

\* State::stabilise_start.
StabiliseStart ==
  /\ ~stabilising
  /\ now < MaxStabilisations
  /\ stabilising' = TRUE
  /\ calls' = DoEach("add_observer", Observable) \o DoEach("remove_observer", Observable)
  /\ UNCHANGED <<made, children, created, valid, values, height, links, heap, invalidated, now,
                 direct, panicked, user>>

StabiliseEnd ==
  /\ stabilising /\ calls = <<>>
  /\ heap \union direct = {}
  /\ stabilising' = FALSE
  /\ now' = now + 1
  /\ UNCHANGED <<made, children, created, valid, values, height, links, heap, invalidated, calls,
                 direct, panicked, user>>

\* The next call is made.
Proceed ==
  LET n == Head(calls).node
      p == Head(calls).with
      Runs(f) == calls # <<>> /\ Head(calls).do = f
  IN  \/ Runs("add_observer") /\ AddObserver(n)
      \/ Runs("remove_observer") /\ RemoveObserver(n)
      \/ Runs("add_parent") /\ AddParentWithoutAdjustingHeights(n, p)
      \/ Runs("place") /\ Place(n)
      \/ Runs("remove_parent") /\ RemoveParent(n, p)
      \/ Runs("release") /\ Release(n)
      \/ Runs("invalidate") /\ InvalidateNode(n)
      \/ Runs("lower") /\ Lower(n)
      \/ Runs("drain") /\ Drain(n)
      \/ Runs("mark") /\ MarkInvalid(n)
      \/ Runs("propagate_invalidity") /\ PropagateInvalidity
      \/ Runs("adjust_heights") /\ AdjustHeights(n, p)
      \/ Runs("queue_if_older") /\ QueueIfOlder(n, p)
      \/ Runs("change") /\ Change(n)
      \/ Runs("drop") /\ Drop

Next ==
  /\ ~panicked
  /\ \/ \E v \in VarNode, x \in Bit : SetVar(v, x)
     \/ \E n \in Range(Observable) : ToggleObserver(n)
     \/ StabiliseStart
     \/ \E n \in Node : Recompute(n)
     \/ Proceed
     \/ StabiliseEnd

(***************************************************************************)
(* stabilise goes on until it ends: WF_vars of Recompute, Proceed and      *)
(* StabiliseEnd, written out.  In each state of a stabilisation one of     *)
(* them is enabled (TLC reports a deadlock otherwise: calls of the user    *)
(* are only enabled between stabilisations) and no other step is.          *)
(***************************************************************************)
Fairness == []<>~stabilising \/ []<><<stabilising>>_vars

Spec == Init /\ [][Next]_vars /\ Fairness

-----------------------------------------------------------------------------
\* The fields have the types that the code declares, and links are between nodes.
TypeOK ==
  /\ kind \in [Node -> {"None", "Var", "Map", "Lhs", "Main"}]
  /\ children \in [Node -> Seq(Node)] /\ parents \in [Node -> Seq(Node)]
  /\ scope \in [Node -> Node \union {NoNode}]
  /\ code \in [Node -> DOMAIN Program \union {NoValue}]
  /\ created \in [Node -> Seq(Node \union {NoNode})]
  /\ valid \in [Node -> BOOLEAN]
  /\ value \in [Node -> Bit \union {NoValue}]
  /\ recomputedAt \in [Node -> Int] /\ changedAt \in [Node -> Int] /\ height \in [Node -> Int]
  /\ observed \subseteq Node /\ forced \subseteq Node /\ heap \subseteq Node /\ direct \subseteq Node
  /\ invalidated \in Seq(Node) /\ calls \in Seq(Call)
  /\ now \in Nat /\ stabilising \in BOOLEAN /\ panicked \in BOOLEAN
  /\ varValue \in [VarNode -> Bit] /\ setAt \in [VarNode -> Nat] /\ wanted \subseteq Node

(***************************************************************************)
(* None of the unwraps and panics of the code is reached: a node is not    *)
(* recomputed when it is invalid or before its input has a value, a main   *)
(* node not before its closure has run, and no node becomes necessary      *)
(* whose bind is not.                                                      *)
(***************************************************************************)
NoPanic == ~panicked

(***************************************************************************)
(* Every link between necessary nodes goes up, and every necessary node is *)
(* above the lhs-change node of its bind, so that the bind decides whether *)
(* the node lives before the node's turn comes: through linking, unlinking *)
(* and invalidating, which set heights without adjust_heights, and through *)
(* adjust_heights, which relies on it.                                     *)
(***************************************************************************)
HeightsRight == ~panicked /\ calls = <<>> => Respected(Above, height)

(***************************************************************************)
(* What a run of a closure created dies with the run: a valid node belongs *)
(* to the last run of its bind, and the bind is valid.  And nothing lives  *)
(* on what is dead: after stabilise a necessary valid node has no invalid  *)
(* child.                                                                  *)
(***************************************************************************)
OldRunsDead ==
  /\ ~panicked /\ calls = <<>> => \A n \in Node : scope[n] # NoNode /\ valid[n] =>
       /\ n \in Range(created[scope[n]])
       /\ \E m \in MainOf(scope[n]) : valid[m]
  /\ ~panicked /\ ~stabilising => \A n \in Node : Necessary(n) /\ valid[n] =>
       \A c \in Range(children[n]) : valid[c]

(***************************************************************************)
(* Node::parent_iter_can_recompute_now, of the node it allows to be        *)
(* recomputed ahead of the heap: "[parent] won't be invalidated, i.e. that *)
(* [parent]'s scope has already stabilized", and for a main node that      *)
(* "the "_change" child has already been evaluated (if needed)".  So the   *)
(* bind it depends on is not queued, nor is anything below the bind.       *)
(***************************************************************************)
Held(S) ==
  LET H[k \in Nat] ==
        IF k = 0 THEN S
        ELSE LET held == H[k - 1] IN held \union UNION {Range(children[n]) : n \in held}
  IN  H[Cardinality(Node)]

ScopeStabilised ==
  calls = <<>> => \A n \in direct :
    LET bind == IF kind[n] = "Main" THEN {children[n][1]} ELSE {scope[n]} \ {NoNode}
    IN  Held(bind) \intersect heap = {}

\* The loop of stabilise ends, although each run may create nodes and queue others.
StabiliseReturns == stabilising ~> ~stabilising
=============================================================================
