----------------------------- MODULE ExpertNode -----------------------------
(***************************************************************************)
(* An Expert node: a node whose dependencies are added and removed by the  *)
(* closure of one of them (src/kind/expert.rs, node.rs, state/expert.rs).  *)
(*                                                                         *)
(* `Driver` is the Map node of the documented pattern (the lhs_change of   *)
(* join, bind and incr_mapi_): it is always a dependency, and while its    *)
(* closure runs it adds and removes dependencies on the nodes in `Child`,  *)
(* and makes the Expert node stale or invalid.  Each dependency has an     *)
(* on_change closure; `told` is those whose closure was last called with   *)
(* the value that the child has.                                           *)
(*                                                                         *)
(* The rest of the graph is free: a child is recomputed when it is due and *)
(* necessary, changes or is cut off, and may be invalidated before it has  *)
(* changed; parents of the Expert node come and go while `stabilise` runs. *)
(* Heights say only that an Expert node runs after what it depends on.     *)
(***************************************************************************)
EXTENDS Naturals, FiniteSets

CONSTANTS Child,      \* the nodes that the driver adds and removes
          Driver,     \* the dependency whose closure does it
          MaxStab,    \* bound: the number of stabilisations
          MaxInvalid  \* bound: the count of invalid children at which no invalid
                      \* child is added or removed any more

ASSUME InputAssumption == Driver \notin Child /\ IsFiniteSet(Child)
ASSUME BoundAssumption == MaxStab \in Nat /\ MaxInvalid \in Nat

Input == Child \union {Driver}
Never == 0

VARIABLES stabilising, \* IncrStatus::Stabilising
          now,         \* State::stabilisation_num, from 1
          others,      \* inputs that another parent or observer keeps necessary throughout
          due,         \* inputs that are stale
          invalid,     \* inputs that are not valid
          changedAt,   \* Node::changed_at of each input
          running,     \* the driver's closure is running
          deps,        \* ExpertNode::children
          told,        \* dependencies whose on_change was called with the present value
          late,        \* history: those added after the child last changed
          node         \* the rest of the Expert node

envVars == <<stabilising, now, others, due, invalid, changedAt, running>>
edgeVars == <<deps, told, late>>
vars == <<envVars, edgeVars, node>>

TypeOK ==
  /\ stabilising \in BOOLEAN /\ running \in BOOLEAN
  /\ now \in 1 .. MaxStab + 1
  /\ stabilising => now <= MaxStab
  /\ others \subseteq Input /\ due \subseteq Input /\ invalid \subseteq Input
  /\ changedAt \in [Input -> 0 .. now]
  /\ deps \subseteq Input /\ Driver \in deps
  /\ told \subseteq deps /\ late \subseteq deps
  /\ node \in [necessary : BOOLEAN, valid : BOOLEAN, pending : BOOLEAN,
               forceStale : BOOLEAN, willFire : BOOLEAN, numInvalid : Nat,
               recomputedAt : 0 .. now]

Init ==
  /\ stabilising = FALSE /\ running = FALSE /\ now = 1
  /\ others \in SUBSET Input
  /\ due = Input /\ invalid = {}
  /\ changedAt = [c \in Input |-> Never]
  /\ deps = {Driver}
  /\ told = {} /\ late = {}
  /\ node = [necessary |-> FALSE, valid |-> TRUE, pending |-> FALSE,
             forceStale |-> TRUE, willFire |-> TRUE, numInvalid |-> 0,
             recomputedAt |-> Never]

\* The parents of its children include the Expert node.
IsLinked == node.valid /\ node.necessary
Linked(c) == IsLinked /\ c \in deps
Necessary(c) == c \in others \/ Linked(c)

IsStale ==
  \/ node.forceStale
  \/ node.recomputedAt = Never
  \/ \E c \in deps : changedAt[c] > node.recomputedAt

-----------------------------------------------------------------------------
(* A stabilisation, before which variables below some inputs were set.     *)

StabiliseStart ==
  /\ ~stabilising /\ now <= MaxStab
  /\ stabilising' = TRUE
  /\ \E set \in SUBSET (Input \ invalid) : due' = due \union set
  /\ UNCHANGED <<now, others, invalid, changedAt, running, edgeVars, node>>

StabiliseEnd ==
  /\ stabilising /\ ~running /\ ~node.pending
  /\ \A c \in due : ~Necessary(c)
  /\ stabilising' = FALSE /\ now' = now + 1
  /\ UNCHANGED <<others, due, invalid, changedAt, running, edgeVars, node>>

-----------------------------------------------------------------------------
(* The inputs.                                                             *)

\* What maybe_change_value does to its parent, the Expert node: run_edge_callback,
\* which is silent while all closures are about to be called anyway, and the
\* insertion into the heap.
ChildChanged(c) ==
  /\ changedAt' = [changedAt EXCEPT ![c] = now]
  /\ told' = IF Linked(c) /\ ~node.willFire THEN told \union {c} ELSE told \ {c}
  /\ late' = late \ {c}
  /\ node' = [node EXCEPT !.pending = @ \/ Linked(c)]

CutOff(c) == changedAt[c] # Never /\ UNCHANGED <<changedAt, told, late, node>>

RunChild(c) ==
  /\ stabilising /\ ~running
  /\ c \in Child /\ c \in due /\ Necessary(c)
  /\ due' = due \ {c}
  /\ ChildChanged(c) \/ CutOff(c)
  /\ UNCHANGED <<stabilising, now, others, invalid, running, deps>>

\* The driver's closure starts and returns; between the two it makes the calls below.
RunDriver ==
  /\ stabilising /\ ~running
  /\ Driver \in due /\ Necessary(Driver)
  /\ due' = due \ {Driver}
  /\ running' = TRUE
  /\ UNCHANGED <<stabilising, now, others, invalid, changedAt, edgeVars, node>>

DriverReturns ==
  /\ running
  /\ running' = FALSE
  /\ ChildChanged(Driver) \/ CutOff(Driver)
  /\ UNCHANGED <<stabilising, now, others, due, invalid, deps>>

\* Fault: the Expert node is queued, but its count is left alone.
InvalidateInputUncounted(c) ==
  /\ stabilising /\ c \notin invalid
  /\ c = Driver => ~running
  /\ changedAt[c] < now
  /\ c \in deps => node.recomputedAt < now
  /\ invalid' = invalid \union {c}
  /\ due' = due \ {c}
  /\ changedAt' = [changedAt EXCEPT ![c] = now]
  /\ node' = [node EXCEPT !.pending = @ \/ Linked(c)]
  /\ UNCHANGED <<stabilising, now, others, running, edgeVars>>

\* An input is invalidated, by the bind that made it or by `invalidate`, both below it
\* and so before it has changed, and before the Expert node has read it;
\* propagate_invalidity counts it in the Expert node.
InvalidateInput(c) ==
  /\ stabilising /\ c \notin invalid
  /\ c = Driver => ~running
  /\ changedAt[c] < now
  /\ c \in deps => node.recomputedAt < now
  /\ invalid' = invalid \union {c}
  /\ due' = due \ {c}
  /\ changedAt' = [changedAt EXCEPT ![c] = now]
  /\ node' = IF Linked(c)
             THEN [node EXCEPT !.numInvalid = @ + 1, !.pending = TRUE]
             ELSE node
  /\ UNCHANGED <<stabilising, now, others, running, edgeVars>>

-----------------------------------------------------------------------------
(* Calls made by the driver's closure.  On an invalid node they return at  *)
(* once.                                                                   *)

\* expert_make_stale: whoever forced it earlier has also queued it.
MakeStale ==
  /\ running /\ node.valid
  /\ ~node.forceStale
  /\ node' = [node EXCEPT !.forceStale = TRUE, !.pending = @ \/ node.necessary]
  /\ UNCHANGED <<envVars, edgeVars>>

\* expert_add_dependency.  add_parent_without_adjusting_heights counts an invalid child,
\* and ends with an edge callback if the child is an Expert node: the new edge's own
\* closure is not called.
AddDependency(c) ==
  /\ running /\ node.valid
  /\ c \in Child \ deps
  /\ c \in invalid => node.numInvalid < MaxInvalid
  /\ deps' = deps \union {c}
  /\ late' = IF changedAt[c] # Never THEN late \union {c} ELSE late
  /\ UNCHANGED told
  /\ node' = [node EXCEPT !.forceStale = TRUE,
                          !.pending = @ \/ node.necessary,
                          !.numInvalid = IF node.necessary /\ c \in invalid THEN @ + 1 ELSE @]
  /\ UNCHANGED envVars

\* decr_invalid_children, which increments.
DecrInvalidChildren(n) == n + 1

\* Fault: the node is made stale but not queued.
RemoveDependencyUnqueued(c) ==
  /\ running /\ node.valid
  /\ c \in Child /\ c \in deps
  /\ c \in invalid => node.numInvalid < MaxInvalid
  /\ deps' = deps \ {c}
  /\ node' = [node EXCEPT !.forceStale = TRUE,
                          !.numInvalid = IF node.necessary /\ c \in invalid
                                         THEN DecrInvalidChildren(@) ELSE @]
  /\ told' = told \ {c} /\ late' = late \ {c}
  /\ UNCHANGED envVars

RemoveDependency(c) ==
  /\ running /\ node.valid
  /\ c \in Child /\ c \in deps
  /\ c \in invalid => node.numInvalid < MaxInvalid
  /\ deps' = deps \ {c}
  /\ node' = [node EXCEPT !.forceStale = TRUE,
                          !.pending = @ \/ node.necessary,
                          !.numInvalid = IF node.necessary /\ c \in invalid
                                         THEN DecrInvalidChildren(@) ELSE @]
  /\ told' = told \ {c} /\ late' = late \ {c}
  /\ UNCHANGED envVars

\* state::expert::invalidate.
Invalidate ==
  /\ running /\ node.valid
  /\ node' = [node EXCEPT !.valid = FALSE, !.pending = FALSE, !.recomputedAt = now]
  /\ UNCHANGED <<envVars, edgeVars>>

-----------------------------------------------------------------------------
(* The Expert node.                                                        *)

\* Fault: children that are invalid already are not counted.
BecomeNecessaryUncounted ==
  /\ stabilising /\ ~node.necessary
  /\ node' = [node EXCEPT !.necessary = TRUE, !.pending = node.valid /\ IsStale]
  /\ UNCHANGED <<envVars, edgeVars>>

BecomeNecessary ==
  /\ stabilising /\ ~node.necessary
  /\ LET broken == Cardinality(deps \intersect invalid)
     IN  node' = IF node.valid
                 THEN [node EXCEPT !.necessary = TRUE,
                                   !.numInvalid = @ + broken,
                                   !.pending = IsStale \/ broken > 0]
                 ELSE [node EXCEPT !.necessary = TRUE]
  /\ UNCHANGED <<envVars, edgeVars>>

\* Fault: the reset of will_fire_all_callbacks is missing.
BecomeUnnecessarySilent ==
  /\ stabilising /\ node.necessary
  /\ node' = [node EXCEPT !.necessary = FALSE, !.pending = FALSE, !.numInvalid = 0]
  /\ UNCHANGED <<envVars, edgeVars>>

\* became_unnecessary, and observability_change(false).
BecomeUnnecessary ==
  /\ stabilising /\ node.necessary
  /\ node' = IF node.valid
             THEN [node EXCEPT !.necessary = FALSE, !.pending = FALSE,
                               !.willFire = TRUE, !.numInvalid = 0]
             ELSE [node EXCEPT !.necessary = FALSE]
  /\ UNCHANGED <<envVars, edgeVars>>

\* recompute_one takes it from the heap when nothing below it waits.
Runs ==
  /\ stabilising /\ ~running /\ node.pending
  /\ deps \intersect due = {}

\* before_main_computation: an invalid child makes it invalid, ...
RunInvalid ==
  /\ Runs
  /\ node.numInvalid > 0
  /\ node' = [node EXCEPT !.valid = FALSE, !.pending = FALSE, !.recomputedAt = now]
  /\ UNCHANGED <<envVars, edgeVars>>

\* ... otherwise it calls every closure, if they were not called one by one, and computes.
RunCompute ==
  /\ Runs
  /\ node.numInvalid = 0
  /\ told' = IF node.willFire THEN deps ELSE told
  /\ node' = [node EXCEPT !.pending = FALSE, !.forceStale = FALSE,
                          !.willFire = FALSE, !.recomputedAt = now]
  /\ UNCHANGED <<envVars, deps, late>>

-----------------------------------------------------------------------------
\* The program stops.
Stop == ~stabilising /\ now > MaxStab /\ UNCHANGED vars

Next ==
  \/ \E c \in Input : RunChild(c) \/ InvalidateInput(c)
  \/ \E c \in Child : AddDependency(c) \/ RemoveDependency(c)
  \/ StabiliseStart \/ StabiliseEnd \/ Stop
  \/ RunDriver \/ DriverReturns \/ MakeStale \/ Invalidate
  \/ BecomeNecessary \/ BecomeUnnecessary \/ RunInvalid \/ RunCompute

Spec == Init /\ [][Next]_vars

-----------------------------------------------------------------------------
(* A necessary Expert node waits in the heap exactly when it is stale.     *)
(* make_stale relies on the one half (if stale was forced already it does  *)
(* not queue the node), the debug assertions of expert_add_dependency and  *)
(* propagate_invalidity state the other.                                   *)
PendingWhenStale == IsLinked => (node.pending <=> IsStale)

(* The count of invalid children never misses one.  The children are       *)
(* counted by three routes: when one becomes invalid, when an invalid one  *)
(* is added, and when the node becomes necessary again.                    *)
InvalidIsCounted == IsLinked /\ deps \intersect invalid # {} => node.numInvalid > 0

(* A dependency's on_change closure has seen the child's value, or will    *)
(* before the node computes, unless the child has not changed since the    *)
(* dependency was added.  Values reach it by two routes, edge by edge and  *)
(* all at once after a time of being unnecessary.                          *)
ToldOrWillBe ==
  IsLinked /\ ~node.willFire =>
    \A c \in deps \ invalid : changedAt[c] # Never => c \in told \union late

Computes == node.pending /\ ~node'.pending /\ node'.valid /\ node'.necessary

(* The node computes only when each dependency is valid and has a value,   *)
(* so that the closure's value_cloned never unwraps None.                  *)
ComputesOnValues ==
  [][Computes => \A c \in deps : c \notin invalid /\ changedAt[c] # Never]_vars
=============================================================================
