------------------------------- MODULE IncrMap -------------------------------
(***************************************************************************)
(* The operators of incremental-map that are a map_with_old node: they     *)
(* keep the input of their last run, and apply its difference to the       *)
(* present input to the output of that run (src/incremental-map/src/       *)
(* lib.rs, btree_map.rs and im_rc.rs).  `op` is the operator; the others   *)
(* of lib.rs are one of these with another closure.                        *)
(*                                                                         *)
(* The inputs are variables.  Between two runs of the node they may have   *)
(* been set any number of times, also back to what they were: the node may *)
(* be unnecessary while its inputs are not.                                *)
(***************************************************************************)
EXTENDS SymmetricFold

CONSTANTS FilterMap(_, _),  \* the closure of incr_filter_mapi
          GoesLeft(_, _),   \* that of incr_partition
          Combine(_, _, _)  \* that of incr_merge, None for a value that is missing

Folds == {"fold", "fold_revert", "partition"}
Operators == Folds \union {"filter_mapi", "merge"}

VARIABLES op, left, right,
          memory,   \* the old inputs of the closure and the node's value, or None
          stale,    \* an input was set after the last run
          seen,     \* what the node's parents have read: its first value, or its value
                    \* when it last reported a change
          visited   \* history: the keys that the closure was called for in the last run

mapVars == <<op, left, right, memory, stale, seen, visited>>

MapInit ==
  /\ left \in Maps /\ right \in Maps
  /\ op \notin {"merge"} => right = EmptyMap
  /\ memory = None /\ seen = None
  /\ stale = TRUE
  /\ visited = {}

SetLeft ==
  /\ \E map \in Maps : left' = map
  /\ stale' = TRUE
  /\ UNCHANGED <<op, right, memory, seen, visited>>

SetRight ==
  /\ op = "merge"
  /\ \E map \in Maps : right' = map
  /\ stale' = TRUE
  /\ UNCHANGED <<op, left, memory, seen, visited>>

\* with_old_input_output: the closure's results, and the input for the next time.
Return(output, didChange, keys) ==
  /\ memory' = [left |-> left, right |-> right, output |-> output]
  /\ seen' = IF didChange \/ memory = None THEN output ELSE seen
  /\ visited' = keys
  /\ stale' = FALSE
  /\ UNCHANGED <<op, left, right>>

InsertIfSome(map, k, v) == IF v = None THEN MapRemove(map, k) ELSE MapInsert(map, k, v)

-----------------------------------------------------------------------------
FilterMapCollect(map) ==
  [k \in {x \in DOMAIN map : FilterMap(x, map[x]) # None} |-> FilterMap(k, map[k])]

\* Fault: a changed value that is filtered out now leaves the old one behind.
FilterMapStepKept(output, e) ==
  IF e.new = None THEN MapRemove(output, e.key)
  ELSE IF FilterMap(e.key, e.new) = None THEN output
  ELSE MapInsert(output, e.key, FilterMap(e.key, e.new))

FilterMapStep(output, e) ==
  InsertIfSome(output, e.key, IF e.new = None THEN None ELSE FilterMap(e.key, e.new))

\* Fault: the output is always made from nothing.
RunFilterMapiAnew ==
  /\ op = "filter_mapi" /\ stale
  /\ Return(FilterMapCollect(left), TRUE, DOMAIN left)

RunFilterMapi ==
  /\ op = "filter_mapi" /\ stale
  /\ IF left = EmptyMap \/ memory = None
     THEN Return(FilterMapCollect(left), TRUE, DOMAIN left)
     ELSE LET diff == SymmetricDiff(memory.left, left)
          IN  Return(FoldLeft(FilterMapStep, memory.output, diff), diff # <<>>,
                     {k \in KeysOf(diff) : k \in DOMAIN left})

-----------------------------------------------------------------------------
(* Folds.  The accumulator of "fold" is the map itself, which shows the    *)
(* order in which `update` removes and adds; "partition" has its own       *)
(* `update`.                                                               *)

FoldInit == IF op = "partition" THEN [left |-> EmptyMap, right |-> EmptyMap] ELSE EmptyMap
RevertToInitWhenEmpty == op \in {"fold_revert", "partition"}

Add(acc, k, v) ==
  IF op # "partition" THEN MapInsert(acc, k, v)
  ELSE IF GoesLeft(k, v) THEN [acc EXCEPT !.left = MapInsert(@, k, v)]
  ELSE [acc EXCEPT !.right = MapInsert(@, k, v)]

Subtract(acc, k) ==
  IF op # "partition" THEN MapRemove(acc, k)
  ELSE [left |-> MapRemove(acc.left, k), right |-> MapRemove(acc.right, k)]

Update(acc, k, new) ==
  IF op # "partition" THEN Add(Subtract(acc, k), k, new)
  ELSE IF GoesLeft(k, new)
  THEN [left |-> MapInsert(acc.left, k, new), right |-> MapRemove(acc.right, k)]
  ELSE [left |-> MapRemove(acc.left, k), right |-> MapInsert(acc.right, k, new)]

InitialFold(map) ==
  FoldLeft(LAMBDA acc, k : Add(acc, k, map[k]), FoldInit, Keys(map))

FoldStep(acc, e) ==
  IF e.new = None THEN Subtract(acc, e.key)
  ELSE IF e.old = None THEN Add(acc, e.key, e.new)
  ELSE Update(acc, e.key, e.new)

RunFold ==
  /\ op \in Folds /\ stale
  /\ IF memory = None THEN Return(InitialFold(left), TRUE, DOMAIN left)
     ELSE IF RevertToInitWhenEmpty /\ left = EmptyMap
     THEN Return(FoldInit, memory.left # EmptyMap, {})
     ELSE LET diff == SymmetricDiff(memory.left, left)
          IN  Return(FoldLeft(FoldStep, memory.output, diff), diff # <<>>, KeysOf(diff))

-----------------------------------------------------------------------------
MergeStep(output, e) ==
  LET l == IF e.left # <<>> THEN e.left[1].new ELSE MapGet(left, e.key)
      r == IF e.right # <<>> THEN e.right[1].new ELSE MapGet(right, e.key)
  IN  InsertIfSome(output, e.key, IF l = None /\ r = None THEN None ELSE Combine(e.key, l, r))

\* merge_shared_impl; the first time, with empty maps for the old ones.
RunMerge ==
  /\ op = "merge" /\ stale
  /\ LET old == IF memory = None
                THEN [left |-> EmptyMap, right |-> EmptyMap, output |-> EmptyMap]
                ELSE memory
         elements == MergeOnceWith(SymmetricDiff(old.left, left), SymmetricDiff(old.right, right))
     IN  Return(FoldLeft(MergeStep, old.output, elements), elements # <<>>,
                {k \in KeysOf(elements) : k \in DOMAIN left \union DOMAIN right})

MapNext == SetLeft \/ SetRight \/ RunFilterMapi \/ RunFold \/ RunMerge

-----------------------------------------------------------------------------
\* The operators without increments.
Reference ==
  IF op = "filter_mapi" THEN FilterMapCollect(left)
  ELSE IF op \in {"fold", "fold_revert"} THEN left
  ELSE IF op = "partition"
  THEN [left |-> RestrictDomain(left, LAMBDA k : GoesLeft(k, left[k])),
        right |-> RestrictDomain(left, LAMBDA k : ~GoesLeft(k, left[k]))]
  ELSE LET both(k) == Combine(k, MapGet(left, k), MapGet(right, k))
       IN  [k \in {x \in DOMAIN left \union DOMAIN right : both(x) # None} |-> both(k)]
=============================================================================
