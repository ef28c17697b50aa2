--------------------------- MODULE IncrementalMap ---------------------------
(***************************************************************************)
(* The operators of incremental-map together: a program has one of them,   *)
(* `op`, and sets its inputs and stabilises in any order.                  *)
(***************************************************************************)
EXTENDS IncrMap, IncrMapi

vars == <<mapVars, mapiVars>>

Init ==
  /\ op \in Operators \union {"mapi"}
  /\ MapInit /\ MapiInit
  /\ op = "mapi" => left = EmptyMap
  /\ op # "mapi" => input = EmptyMap /\ outer = CHOOSE v \in Value : TRUE

Next ==
  \/ op # "mapi" /\ MapNext /\ UNCHANGED mapiVars
  \/ op = "mapi" /\ MapiNext /\ UNCHANGED mapVars

Spec == Init /\ [][Next]_vars

-----------------------------------------------------------------------------
TypeOK ==
  /\ op \in Operators \union {"mapi"}
  /\ left \in Maps /\ right \in Maps /\ input \in Maps /\ prevMap \in Maps
  /\ stale \in BOOLEAN /\ visited \subseteq Key
  /\ outer \in Value /\ {stabilising, observed, willFire, panicked} \subseteq BOOLEAN
  /\ kept \subseteq nodes /\ nodes \subseteq Key /\ edges \subseteq Key
  /\ above \subseteq nodes /\ handles \subseteq nodes /\ unheard \subseteq nodes
  /\ innerDue \subseteq nodes /\ mappedDue \subseteq nodes /\ due \subseteq {"lhs", "result"}
  /\ inner \in [Key -> Value \union {NoValue}]

(* Both iterators over a difference yield each changed key once, in order, *)
(* with its two values.  The operators have no other way to hear of a      *)
(* change: one that is missed stays in the output for ever.                *)
DiffsAreExact ==
  memory # None =>
    /\ IsDiff(SymmetricDiff(memory.left, left), memory.left, left)
    /\ IsDiff(SymmetricDiffOwned(memory.left, left), memory.left, left)

(* After any sequence of inputs, the output that was patched from the last *)
(* one is what the operator gives for the whole input, and so is what the  *)
(* node's parents have read: no change of it goes unreported.              *)
OutputIsOperator ==
  op # "mapi" /\ ~stale => memory.output = Reference /\ seen = Reference

(* The user's closure is called again for keys that were added, removed or *)
(* changed, and for no other (documentation of incr_merge).                *)
OnlyChangedKeysVisited ==
  [][memory # None /\ stale /\ ~stale' =>
       visited' \subseteq ChangedKeys(memory.left, left) \union ChangedKeys(memory.right, right)]_vars

(* When stabilise has returned, the result of incr_filter_mapi_ is the     *)
(* nodes that the user's function returned, each with its value for the    *)
(* present map and variable, also after a time in which nobody observed    *)
(* it; and of a node that had its value when the observed result was made  *)
(* to depend on it nothing, until it changes (state_add_parent asks the    *)
(* child, and not the parent, for the edge's closure).                     *)
ResultIsMapped ==
  ~stabilising /\ observed /\ due = {} /\ mappedDue = {} =>
    value = Restrict(MappedReference, DOMAIN MappedReference \ unheard)

(* The closure of lhs_change finds what it looks up: prev_nodes has a node *)
(* for each key of prev_map and the result an edge, of no other key is an  *)
(* element left in the result, and its weak references can be upgraded,    *)
(* unless the user's function returned a node that does not hold its       *)
(* argument and nobody else does: then the next change of that key panics. *)
NodesMatchMap ==
  /\ nodes = DOMAIN prevMap /\ edges = nodes /\ DOMAIN acc \subseteq nodes
  /\ panicked => \E k \in nodes : k \notin above \union handles
=============================================================================
