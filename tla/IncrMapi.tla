------------------------------ MODULE IncrMapi ------------------------------
(***************************************************************************)
(* incr_mapi_ and incr_filter_mapi_ (incr_filter_mapi_generic_btree_map in *)
(* src/incremental-map/src/btree_map.rs, incr_filter_mapi_ordmap in        *)
(* im_rc.rs): the map is taken apart into a node for each key, the user's  *)
(* function makes a graph from it, and an Expert node puts the results     *)
(* together.                                                               *)
(*                                                                         *)
(*   input --> lhs_change --> inner(k) --> mapped(k) --> result            *)
(*                    \--------------------------------/                   *)
(*                                                                         *)
(* lhs_change is a Map node whose closure compares the input with that of  *)
(* its last run and adds, invalidates or makes stale the inner nodes.      *)
(* It holds them by weak references only.  What the user's function        *)
(* returns for a new key is one node here, mapped(k):                      *)
(*   - above: a new node over inner(k), which it holds, and over a         *)
(*     variable of the user's own; or                                      *)
(*   - aside: a node over that variable alone, new or made earlier, in     *)
(*     which case it may have its value already.  Then inner(k) lives as   *)
(*     long as the user keeps a handle of it, if at all.                   *)
(* A user who keeps mapped nodes may observe them without the result.      *)
(* Left out: a function that returns one node for two keys (two edges to   *)
(* one child are the matter of ParentLinks), one that is invalid           *)
(* (ExpertNode), or one that holds inner(k) without depending on it all    *)
(* the time; a user who observes inner(k) itself, or who drops the result  *)
(* and goes on observing a mapped node.  How Expert nodes are scheduled is *)
(* the matter of ExpertNode; here heights say that a node runs when        *)
(* nothing necessary below it is due.                                      *)
(***************************************************************************)
EXTENDS SymmetricFold

CONSTANTS Mapped(_, _, _), \* a mapped node above: of the key, the inner value and the variable
          Aside(_, _),     \* a mapped node aside: of the key and the variable; None filters out
          NoValue,         \* a node that was not computed
          Answers,         \* what the user's function may return
          KeepsMapped      \* keys whose mapped node the user keeps and may observe

\* last is the variable's value when the node was last computed.
Above == [above |-> TRUE, held |-> FALSE, last |-> NoValue]
AnyAnswer ==
  {Above} \union [above : {FALSE}, held : BOOLEAN, last : Value \union {NoValue}]

\* The value that a node aside was last computed to.
ValueAt(k, last) == IF last = NoValue THEN NoValue ELSE Aside(k, last)

ASSUME NoValueAssumption ==
  /\ NoValue \notin Value
  /\ \A k \in Key, v, w \in Value : Mapped(k, v, w) # NoValue /\ Aside(k, w) # NoValue

ASSUME AnswersAssumption == Answers \subseteq AnyAnswer

VARIABLES input,       \* the map
          outer,       \* the user's variable
          stabilising,
          observed,    \* the result is necessary
          kept,        \* keys whose mapped node has an observer of its own
          prevMap,     \* prev_map
          nodes,       \* the keys of prev_nodes
          edges,       \* the keys whose mapped node the result depends on
          above,       \* those whose mapped node is above the inner one
          handles,     \* keys of whose inner node the user has a handle
          inner,       \* the values of the inner nodes
          mapped,      \* the values of the mapped nodes
          acc,         \* acc
          value,       \* the value of the result
          due,         \* what is stale: "lhs", "result", and for keys
          innerDue, mappedDue,
          willFire,    \* will_fire_all_callbacks of the result
          panicked,
          unheard      \* history: keys whose node had its value when the result, being
                       \* computed, was made to depend on it, and has not changed since

tables == <<nodes, edges, above, handles>>
values == <<inner, mapped>>
mapiVars == <<input, outer, stabilising, observed, kept, prevMap, tables, values, acc, value,
              due, innerDue, mappedDue, willFire, panicked, unheard>>

MapiInit ==
  /\ input \in Maps /\ outer \in Value
  /\ stabilising = FALSE /\ observed = FALSE /\ kept = {}
  /\ prevMap = EmptyMap /\ nodes = {} /\ edges = {} /\ above = {} /\ handles = {}
  /\ acc = EmptyMap /\ value = NoValue
  /\ inner = [k \in Key |-> NoValue] /\ mapped = [k \in Key |-> NoValue]
  /\ due = {"lhs", "result"} /\ innerDue = {} /\ mappedDue = {}
  /\ willFire = TRUE /\ panicked = FALSE /\ unheard = {}

KeyNecessary(k) == (observed /\ k \in edges) \/ k \in kept
LhsNecessary == observed \/ kept \intersect above # {}

\* The inner nodes that are due and would be computed, with a necessary node above.
InnerDueBelow == innerDue \intersect above

-----------------------------------------------------------------------------
(* Between stabilisations.                                                 *)

SetInput ==
  /\ ~stabilising
  /\ \E map \in Maps \ {input} : input' = map
  /\ due' = due \union {"lhs"}
  /\ UNCHANGED <<outer, stabilising, observed, kept, prevMap, tables, values, acc, value,
                 innerDue, mappedDue, willFire, panicked, unheard>>

SetOuter ==
  /\ ~stabilising
  /\ \E v \in Value \ {outer} : outer' = v
  /\ mappedDue' = nodes
  /\ UNCHANGED <<input, stabilising, observed, kept, prevMap, tables, values, acc, value,
                 due, innerDue, willFire, panicked, unheard>>

\* Observers are made and dropped, handles are dropped; observability_change(false) of
\* the result.
StabiliseStart ==
  /\ ~stabilising
  /\ stabilising' = TRUE
  /\ observed' \in BOOLEAN /\ kept' \in SUBSET (nodes \intersect KeepsMapped) /\ handles' \in SUBSET handles
  /\ willFire' = (willFire \/ (observed /\ ~observed'))
  /\ UNCHANGED <<input, outer, prevMap, nodes, edges, above, values, acc, value, due, innerDue,
                 mappedDue, panicked, unheard>>

StabiliseEnd ==
  /\ stabilising /\ ~panicked
  /\ LhsNecessary => "lhs" \notin due
  /\ \A k \in InnerDueBelow \union mappedDue : ~KeyNecessary(k)
  /\ observed => "result" \notin due
  /\ stabilising' = FALSE
  /\ UNCHANGED <<input, outer, observed, kept, prevMap, tables, values, acc, value, due,
                 innerDue, mappedDue, willFire, panicked, unheard>>

-----------------------------------------------------------------------------
(* The closure of lhs_change: what it does for one element of the          *)
(* difference, to a record of everything that it changes.                  *)

\* What is left by a panic is not modelled: nothing happens after it.
Panic(s) == [s EXCEPT !.panicked = TRUE]

\* The weak reference of prev_nodes can be upgraded.
Alive(s, k) == k \in s.handles \/ (k \in s.above /\ (k \in s.edges \/ k \in s.kept))

\* Fault: the inner node of a changed value is not made stale.
OnUnequalIgnored(s, k) == IF Alive(s, k) THEN s ELSE Panic(s)

\* WeakNode::make_stale upgrades and unwraps.
OnUnequal(s, k) ==
  IF Alive(s, k) THEN [s EXCEPT !.innerDue = @ \union {k}] ELSE Panic(s)

\* remove_dependency, which forces the result to be stale, and invalidate, which takes
\* the nodes made from this one with it.
Removed(s, k) ==
  [nodes |-> s.nodes \ {k}, edges |-> s.edges \ {k}, above |-> s.above \ {k},
   handles |-> s.handles \ {k}, kept |-> s.kept \ {k},
   innerDue |-> s.innerDue \ {k}, mappedDue |-> s.mappedDue \ {k},
   inner |-> [s.inner EXCEPT ![k] = NoValue], mapped |-> [s.mapped EXCEPT ![k] = NoValue],
   acc |-> MapRemove(s.acc, k), due |-> s.due \union {"result"}, unheard |-> s.unheard \ {k},
   panicked |-> s.panicked, answers |-> s.answers]

\* Fault: the edge is removed first, and the reference upgraded when it may have died.
OnLeftUpgradedLate(s, k) ==
  IF Alive([s EXCEPT !.edges = @ \ {k}], k) THEN Removed(s, k) ELSE Panic(s)

OnLeft(s, k) == IF Alive(s, k) THEN Removed(s, k) ELSE Panic(s)

\* A new inner node, the user's function, and add_dependency_with, which does not call
\* the new edge's closure.
OnRight(s, k) ==
  LET answer == s.answers[k]
  IN  [nodes |-> s.nodes \union {k}, edges |-> s.edges \union {k},
       above |-> IF answer.above THEN s.above \union {k} ELSE s.above,
       handles |-> IF answer.held THEN s.handles \union {k} ELSE s.handles, kept |-> s.kept,
       innerDue |-> s.innerDue \union {k},
       mappedDue |-> IF answer.last = outer THEN s.mappedDue ELSE s.mappedDue \union {k},
       inner |-> [s.inner EXCEPT ![k] = NoValue],
       mapped |-> [s.mapped EXCEPT ![k] = ValueAt(k, answer.last)],
       acc |-> s.acc, due |-> s.due \union {"result"},
       unheard |-> IF willFire \/ answer.last = NoValue THEN s.unheard ELSE s.unheard \union {k},
       panicked |-> s.panicked, answers |-> s.answers]

LhsStep(s, e) ==
  IF s.panicked THEN s
  ELSE IF e.new = None THEN OnLeft(s, e.key)
  ELSE IF e.old = None THEN OnRight(s, e.key)
  ELSE OnUnequal(s, e.key)

\* The whole difference, when the user's function returns `answers` for the new keys.
AfterDiff(diff, answers) ==
  FoldLeft(LhsStep,
           [nodes |-> nodes, edges |-> edges, above |-> above, handles |-> handles, kept |-> kept,
            innerDue |-> innerDue, mappedDue |-> mappedDue, inner |-> inner, mapped |-> mapped,
            acc |-> acc, due |-> due \ {"lhs"}, unheard |-> unheard, panicked |-> FALSE,
            answers |-> answers],
           diff)

RunLhsChange ==
  /\ stabilising /\ ~panicked /\ LhsNecessary /\ "lhs" \in due
  /\ LET diff == SymmetricDiff(prevMap, input)
     IN  \E answers \in [DOMAIN input \ DOMAIN prevMap -> Answers] :
       LET then == AfterDiff(diff, answers)
       IN  \/ /\ then.panicked /\ panicked' = TRUE
              /\ UNCHANGED <<prevMap, tables, values, kept, innerDue, mappedDue, acc, due, unheard>>
           \/ /\ ~then.panicked /\ prevMap' = input
              /\ nodes' = then.nodes /\ edges' = then.edges /\ above' = then.above
              /\ handles' = then.handles /\ kept' = then.kept
              /\ innerDue' = then.innerDue /\ mappedDue' = then.mappedDue
              /\ inner' = then.inner /\ mapped' = then.mapped
              /\ acc' = then.acc /\ due' = then.due /\ unheard' = then.unheard
              /\ UNCHANGED panicked
  /\ UNCHANGED <<input, outer, stabilising, observed, value, willFire>>

\* What is below the inner nodes has run.
LhsDone == LhsNecessary => "lhs" \notin due

-----------------------------------------------------------------------------
RunInner(k) ==
  /\ stabilising /\ ~panicked /\ LhsDone
  /\ KeyNecessary(k) /\ k \in InnerDueBelow
  /\ inner' = [inner EXCEPT ![k] = prevMap[k]]
  /\ innerDue' = innerDue \ {k}
  /\ mappedDue' = IF inner'[k] # inner[k] THEN mappedDue \union {k} ELSE mappedDue
  /\ UNCHANGED <<input, outer, stabilising, observed, kept, prevMap, tables, mapped, acc, value,
                 due, willFire, panicked, unheard>>

OnInnerChange(a, k, v) == IF v = None THEN MapRemove(a, k) ELSE MapInsert(a, k, v)

MappedValue(k) == IF k \in above THEN Mapped(k, inner[k], outer) ELSE Aside(k, outer)

\* A change calls the closure of the edge to the result, unless all closures are about
\* to be called.
RunMapped(k) ==
  /\ stabilising /\ ~panicked
  /\ KeyNecessary(k) /\ k \in mappedDue
  /\ k \in above => LhsDone /\ k \notin innerDue
  /\ LET v == MappedValue(k)
         heard == observed /\ ~willFire
     IN  /\ mapped' = [mapped EXCEPT ![k] = v]
         /\ IF v = mapped[k] THEN UNCHANGED <<acc, due, unheard>>
            ELSE /\ acc' = IF heard THEN OnInnerChange(acc, k, v) ELSE acc
                 /\ unheard' = IF heard THEN unheard \ {k} ELSE unheard
                 /\ due' = due \union {"result"}
  /\ mappedDue' = mappedDue \ {k}
  /\ UNCHANGED <<input, outer, stabilising, observed, kept, prevMap, tables, inner, value,
                 innerDue, willFire, panicked>>

RunResult ==
  /\ stabilising /\ ~panicked /\ observed /\ "result" \in due
  /\ LhsDone /\ edges \intersect (InnerDueBelow \union mappedDue) = {}
  /\ acc' = IF willFire
            THEN FoldLeft(LAMBDA a, k : OnInnerChange(a, k, mapped[k]), acc, SetToSeq(edges))
            ELSE acc
  /\ unheard' = IF willFire THEN {} ELSE unheard
  /\ value' = acc'
  /\ due' = due \ {"result"}
  /\ willFire' = FALSE
  /\ UNCHANGED <<input, outer, stabilising, observed, kept, prevMap, tables, values,
                 innerDue, mappedDue, panicked>>

MapiNext ==
  \/ SetInput \/ SetOuter \/ StabiliseStart \/ StabiliseEnd
  \/ RunLhsChange \/ RunResult
  \/ \E k \in Key : RunInner(k) \/ RunMapped(k)
  \/ panicked /\ UNCHANGED mapiVars

-----------------------------------------------------------------------------
\* What the mapped nodes are to be, for the present input.
MappedNow(k) == IF k \in above THEN Mapped(k, input[k], outer) ELSE Aside(k, outer)
MappedReference ==
  [k \in {x \in DOMAIN input : MappedNow(x) # None} |-> MappedNow(k)]
=============================================================================
