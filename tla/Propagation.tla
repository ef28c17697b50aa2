----------------------------- MODULE Propagation -----------------------------
(***************************************************************************)
(* The engine of the crate on a fixed graph: State::stabilise with the     *)
(* recompute heap, Node::recompute_one and its propagation to the parents, *)
(* variables set outside of, during and after a stabilisation, and nodes   *)
(* made necessary and unnecessary by observers.                            *)
(*                                                                         *)
(* stabilise is one call that runs to its end, but the user's closures it  *)
(* calls can set variables and create or drop observers.  So each run of   *)
(* recompute_one is a step, and the calls that closures make are steps     *)
(* between them.                                                           *)
(*                                                                         *)
(* Left out here: the order of a node's parents and of the nodes at one    *)
(* height (any order is allowed), and update handlers.                     *)
(***************************************************************************)
EXTENDS IncrGraph

CONSTANTS
  Observer,            \* observer handles, each used once
  Observing,           \* Observing[o]: the node that o observes
  MaxStabilisations    \* bound on the calls of stabilise

ASSUME ObserverAssumption == Observing \in [Observer -> Node]
ASSUME BoundAssumption == MaxStabilisations \in Nat

VARIABLES
  status,             \* IncrStatus
  stabilisation_num,  \* the number of the current or next stabilisation
  varValue,           \* varValue[v]: Var.value
  setAt,              \* setAt[v]: Var.set_at
  setDuring,          \* setDuring[v]: Var.value_set_during_stabilisation; the
                      \* set_during_stabilisation stack holds v when it is a value
  obsState,           \* obsState[o]: InternalObserver.state; new_observers are the
                      \* Created ones, disallowed_observers the Disallowed ones
  value,              \* value[n]: Node.value_opt
  recomputedAt,       \* recomputedAt[n]: Node.recomputed_at, Never before the first
  changedAt,          \* changedAt[n]: Node.changed_at, Never before the first
  didChange,          \* didChange[n]: MapRefNode.did_change
  heap,               \* the nodes in the recompute heap
  direct              \* the node recompute_one returned, to recompute next: {} or {n}

engine == <<value, recomputedAt, changedAt, didChange, heap, direct>>
vars == <<status, stabilisation_num, varValue, setAt, setDuring, obsState, engine>>

Never == -1

-----------------------------------------------------------------------------
(***************************************************************************)
(* Necessity and staleness.                                                *)
(***************************************************************************)

WatchedIn(os) == {Observing[o] : o \in {p \in Observer : os[p] \in {"InUse", "Disallowed"}}}

\* The nodes for which Node::is_necessary holds when the observers' states are os.
NecessaryIn(os) == Cone(WatchedIn(os))

Necessary == NecessaryIn(obsState)

\* Fault for a mutant: a constant counts as computed from the start.
StaleNoConst(n) ==
  CASE Kind[n] = "Var"   -> setAt[n] > recomputedAt[n]
    [] Kind[n] = "Const" -> FALSE
    [] OTHER             -> \/ recomputedAt[n] = Never
                            \/ \E c \in ChildSet(n) : changedAt[c] > recomputedAt[n]

\* Node::is_stale.
Stale(n) ==
  CASE Kind[n] = "Var"   -> setAt[n] > recomputedAt[n]
    [] Kind[n] = "Const" -> recomputedAt[n] = Never
    [] OTHER             -> \/ recomputedAt[n] = Never
                            \/ \E c \in ChildSet(n) : changedAt[c] > recomputedAt[n]

\* The nodes that stabilise has still to recompute.
Pending == heap \union direct

-----------------------------------------------------------------------------
(***************************************************************************)
(* Values.                                                                 *)
(***************************************************************************)

\* Node::value_as_any: a MapRef has no value of its own, it maps its child's.
ValueOf(n) ==
  IF Kind[n] = "MapRef"
    THEN LET c == Children[n][1]
         IN  IF value[c] = NoValue THEN NoValue ELSE Compute(n, <<value[c]>>)
    ELSE value[n]

Args(n) == [i \in DOMAIN Children[n] |-> ValueOf(Children[n][i])]

\* What recompute_one computes for n.
NewValue(n) == IF n \in VarNode THEN varValue[n] ELSE Compute(n, Args(n))

-----------------------------------------------------------------------------
Init ==
  /\ status = "NotStabilising"
  /\ stabilisation_num = 0
  /\ varValue \in [VarNode -> Value]
  /\ setAt = [v \in VarNode |-> 0]
  /\ setDuring = [v \in VarNode |-> NoValue]
  /\ obsState = [o \in Observer |-> "Unused"]
  /\ value = [n \in Node |-> NoValue]
  /\ recomputedAt = [n \in Node |-> Never]
  /\ changedAt = [n \in Node |-> Never]
  /\ didChange = [n \in Node |-> TRUE]
  /\ heap = {}
  /\ direct = {}

\* Faults for the mutants: a variable that is set is not queued, or is queued
\* although nothing needs it.
DidSetVarsUnqueued(S, now) ==
  /\ setAt' = [v \in VarNode |-> IF v \in S THEN now ELSE setAt[v]]
  /\ UNCHANGED heap

DidSetVarsAlwaysQueued(S, now) ==
  /\ setAt' = [v \in VarNode |-> IF v \in S THEN now ELSE setAt[v]]
  /\ heap' = heap \union S

(***************************************************************************)
(* Var::did_set_var_while_not_stabilising for the variables in S, with     *)
(* stabilisation number now: a variable already set since the last         *)
(* stabilisation is stale, and in the heap if it is necessary.             *)
(***************************************************************************)
DidSetVars(S, now) ==
  LET fresh == {v \in S : setAt[v] < now}
  IN  /\ setAt' = [v \in VarNode |-> IF v \in fresh THEN now ELSE setAt[v]]
      /\ heap' = heap \union (fresh \intersect Necessary)

\* Var::set, update, replace_with and modify outside of stabilisation, which
\* includes update handlers.
SetVar(v, x) ==
  /\ status # "Stabilising"
  /\ varValue' = [varValue EXCEPT ![v] = x]
  /\ DidSetVars({v}, stabilisation_num)
  /\ UNCHANGED <<status, stabilisation_num, setDuring, obsState,
                 value, recomputedAt, changedAt, didChange, direct>>

\* While stabilising, user code runs only in closures of nodes being recomputed.
UserCodeRuns == status # "Stabilising" \/ Pending # {}

\* Fault: a closure's set takes effect at once.
SetVarAtOnce(v, x) ==
  /\ status = "Stabilising"
  /\ UserCodeRuns
  /\ varValue' = [varValue EXCEPT ![v] = x]
  /\ UNCHANGED <<status, stabilisation_num, setDuring, setAt, obsState, engine>>

\* The same operations called by a closure that stabilise runs.
SetVarDuringStabilisation(v, x) ==
  /\ status = "Stabilising"
  /\ UserCodeRuns
  /\ setDuring' = [setDuring EXCEPT ![v] = x]
  /\ UNCHANGED <<status, stabilisation_num, varValue, setAt, obsState, engine>>

\* State::observe.
Observe(o) ==
  /\ UserCodeRuns
  /\ obsState[o] = "Unused"
  /\ obsState' = [obsState EXCEPT ![o] = "Created"]
  /\ UNCHANGED <<status, stabilisation_num, varValue, setAt, setDuring, engine>>

\* InternalObserver::disallow_future_use, also called by Observer::drop.
DisallowFutureUse(o) ==
  /\ UserCodeRuns
  /\ obsState[o] \in {"Created", "InUse"}
  /\ obsState' = [obsState EXCEPT
       ![o] = IF obsState[o] = "Created" THEN "Unlinked" ELSE "Disallowed"]
  /\ UNCHANGED <<status, stabilisation_num, varValue, setAt, setDuring, engine>>

(***************************************************************************)
(* State::stabilise_start.  add_new_observers makes the nodes below a new  *)
(* observer necessary and queues those that are stale; then                *)
(* unlink_disallowed_observers makes unnecessary what only dropped         *)
(* observers kept, and takes it out of the heap.                           *)
(***************************************************************************)
AddNewObservers(os) == [o \in Observer |-> IF os[o] = "Created" THEN "InUse" ELSE os[o]]

UnlinkDisallowedObservers(os) ==
  [o \in Observer |-> IF os[o] = "Disallowed" THEN "Unlinked" ELSE os[o]]

StabiliseStart ==
  LET added    == AddNewObservers(obsState)
      linked   == NecessaryIn(added) \ Necessary
      unlinked == UnlinkDisallowedObservers(added)
  IN  /\ status = "NotStabilising"
      /\ stabilisation_num < MaxStabilisations
      /\ status' = "Stabilising"
      /\ obsState' = unlinked
      /\ heap' = (heap \union {n \in linked : Stale(n)}) \intersect NecessaryIn(unlinked)
      /\ UNCHANGED <<stabilisation_num, varValue, setAt, setDuring,
                     value, recomputedAt, changedAt, didChange, direct>>

-----------------------------------------------------------------------------
(***************************************************************************)
(* Node::recompute_one and the propagation to parents.                     *)
(***************************************************************************)

\* The entries of n's `parents' vector: a parent appears once per use of n.
ParentEdges(n) ==
  UNION {{<<p, i>> : i \in {j \in DOMAIN Children[p] : Children[p][j] = n}} : p \in Necessary}

\* Fault: the test is left out.
AlwaysRecomputeNow(p, child, q) == TRUE

(***************************************************************************)
(* Node::parent_iter_can_recompute_now: p's only child is the node just    *)
(* recomputed and p was created in a scope that is lower, or nothing in    *)
(* the heap q is below p.                                                  *)
(***************************************************************************)
CanRecomputeNow(p, child, q) ==
  \/ Kind[p] \in SingleChildKinds /\ Height[child] > TopHeight
  \/ \A m \in q : Height[p] <= Height[m]

\* Fault: only the first parent is told.
PropagateToOne(n, changed, q) ==
  IF ~changed \/ ParentEdges(n) = {}
    THEN heap' = q /\ direct' = {}
    ELSE \E e \in ParentEdges(n) : heap' = q \union {e[1]} /\ direct' = {}

(***************************************************************************)
(* Node::maybe_change_value_manual: when n changed, every parent but the   *)
(* first is queued, and the first is queued or recomputed directly.  q is  *)
(* the heap without n.                                                     *)
(***************************************************************************)
Propagate(n, changed, q) ==
  IF ~changed \/ ParentEdges(n) = {}
    THEN heap' = q /\ direct' = {}
    ELSE \E first \in ParentEdges(n) :
           LET p      == first[1]
               others == q \union {e[1] : e \in ParentEdges(n) \ {first}}
           IN  IF p \notin others /\ CanRecomputeNow(p, n, others)
                 THEN heap' = others /\ direct' = {p}
                 ELSE heap' = others \union {p} /\ direct' = {}

(***************************************************************************)
(* Node::child_changed for the MapRef parents of n: each compares its own  *)
(* images of n's old and new value, and keeps the answer until it is       *)
(* recomputed.                                                             *)
(***************************************************************************)
ChildChanged(n, changed, old, new) ==
  didChange' = [p \in Node |->
    IF changed /\ p \in Necessary /\ Kind[p] = "MapRef" /\ n \in ChildSet(p)
      THEN old = NoValue \/ ~ShouldCutoff(p, Compute(p, <<old>>), Compute(p, <<new>>))
      ELSE didChange[p]]

(***************************************************************************)
(* Did n change?  A MapRef says what child_changed left; a MapWithOld says *)
(* what its closure claims, which must be TRUE if the value differs; the   *)
(* other kinds ask the cutoff.                                             *)
(***************************************************************************)
MayReport(n, changed) ==
  CASE Kind[n] = "MapRef"     -> changed = didChange[n]
    [] Kind[n] = "MapWithOld" -> NewValue(n) # value[n] => changed
    [] OTHER -> changed = (value[n] = NoValue \/ ~ShouldCutoff(n, value[n], NewValue(n)))

\* MapWithOld moves its old value into the closure, so no old value is passed on.
OldValue(n) == IF Kind[n] = "MapWithOld" THEN NoValue ELSE value[n]

RecomputeOne(n, q) ==
  \E changed \in BOOLEAN :
    /\ MayReport(n, changed)
    /\ recomputedAt' = [recomputedAt EXCEPT ![n] = stabilisation_num]
    /\ changedAt' = [changedAt EXCEPT ![n] = IF changed THEN stabilisation_num ELSE @]
    /\ Propagate(n, changed, q)
    /\ IF Kind[n] = "MapRef"
         THEN UNCHANGED <<value, didChange>>
         ELSE /\ value' = [value EXCEPT ![n] = NewValue(n)]
              /\ ChildChanged(n, changed, OldValue(n), NewValue(n))
    /\ UNCHANGED <<status, stabilisation_num, varValue, setAt, setDuring, obsState>>

\* Fault: the node stays in the heap.
RecomputeMinKept(n) ==
  /\ status = "Stabilising"
  /\ direct = {}
  /\ n \in heap
  /\ \A m \in heap : Height[n] <= Height[m]
  /\ RecomputeOne(n, heap)

\* RecomputeHeap::remove_min, then the first recompute_one of Node::recompute.
RecomputeMin(n) ==
  /\ status = "Stabilising"
  /\ direct = {}
  /\ n \in heap
  /\ \A m \in heap : Height[n] <= Height[m]
  /\ RecomputeOne(n, heap \ {n})

\* A further recompute_one of Node::recompute, on the parent the last one returned.
RecomputeDirect(n) ==
  /\ status = "Stabilising"
  /\ n \in direct
  /\ RecomputeOne(n, heap)

-----------------------------------------------------------------------------
(***************************************************************************)
(* State::stabilise_end, up to the update handlers: the number goes up and *)
(* the variables set during the stabilisation take their new values.       *)
(***************************************************************************)
StabiliseEnd ==
  /\ status = "Stabilising"
  /\ Pending = {}
  /\ status' = "RunningOnUpdateHandlers"
  /\ stabilisation_num' = stabilisation_num + 1
  /\ varValue' = [v \in VarNode |->
       IF setDuring[v] = NoValue THEN varValue[v] ELSE setDuring[v]]
  /\ setDuring' = [v \in VarNode |-> NoValue]
  /\ DidSetVars({v \in VarNode : setDuring[v] # NoValue}, stabilisation_num + 1)
  /\ UNCHANGED <<obsState, value, recomputedAt, changedAt, didChange, direct>>

\* The update handlers have run and stabilise returns.
HandlersDone ==
  /\ status = "RunningOnUpdateHandlers"
  /\ status' = "NotStabilising"
  /\ UNCHANGED <<stabilisation_num, varValue, setAt, setDuring, obsState, engine>>

UserCall ==
  \/ \E v \in VarNode, x \in Value : SetVar(v, x) \/ SetVarDuringStabilisation(v, x)
  \/ \E o \in Observer : Observe(o) \/ DisallowFutureUse(o)

\* What a call of stabilise does once it has started.
StabiliseStep ==
  \/ \E n \in Node : RecomputeMin(n) \/ RecomputeDirect(n)
  \/ StabiliseEnd
  \/ HandlersDone

Next == UserCall \/ StabiliseStart \/ StabiliseStep

Spec == Init /\ [][Next]_vars

(***************************************************************************)
(* stabilise is a plain call: once started it goes on until it returns, as *)
(* long as the closures it runs return.                                    *)
(***************************************************************************)
FairSpec == Spec /\ WF_vars(StabiliseStep)

-----------------------------------------------------------------------------
(***************************************************************************)
(* Properties.                                                             *)
(***************************************************************************)

Status == {"NotStabilising", "Stabilising", "RunningOnUpdateHandlers"}
ObserverState == {"Unused", "Created", "InUse", "Disallowed", "Unlinked"}

\* The type of every variable; direct holds at most one node.
TypeOK ==
  /\ status \in Status
  /\ stabilisation_num \in Nat
  /\ varValue \in [VarNode -> Value]
  /\ setAt \in [VarNode -> Nat]
  /\ setDuring \in [VarNode -> Value \union {NoValue}]
  /\ obsState \in [Observer -> ObserverState]
  /\ value \in [Node -> Value \union {NoValue}]
  /\ recomputedAt \in [Node -> Nat \union {Never}]
  /\ changedAt \in [Node -> Nat \union {Never}]
  /\ didChange \in [Node -> BOOLEAN]
  /\ heap \subseteq Node
  /\ direct \subseteq Node
  /\ \A m, n \in direct : m = n

(***************************************************************************)
(* No necessary node that is out of date is forgotten: it is in the heap   *)
(* or about to be recomputed directly (became_necessary, did_set_var and   *)
(* maybe_change_value_manual together).                                    *)
(***************************************************************************)
StaleIsScheduled == \A n \in Necessary : Stale(n) => n \in Pending

(***************************************************************************)
(* Nothing is recomputed in vain: what is scheduled is necessary and       *)
(* stale, as RecomputeHeap::insert and remove assert.                      *)
(***************************************************************************)
OnlyStaleScheduled == \A n \in Pending : n \in Necessary /\ Stale(n)

(***************************************************************************)
(* At every moment, what waits to be recomputed is exactly what is         *)
(* necessary and out of date, although the two are kept up to date by      *)
(* different calls: setting variables, linking and unlinking observers,    *)
(* and propagating changes.                                                *)
(***************************************************************************)
ScheduledExactly == StaleIsScheduled /\ OnlyStaleScheduled

(***************************************************************************)
(* When a node is recomputed, everything its value depends on has been     *)
(* settled for this stabilisation, also when recompute runs it directly,   *)
(* ahead of lower nodes in the heap.                                       *)
(***************************************************************************)
BelowSettled ==
  status = "Stabilising" =>
    \A n \in Node : (recomputedAt[n] = stabilisation_num \/ n \in direct)
                       => Below[n] \intersect Pending = {}

\* A closure runs at most once in each stabilisation.
RunsOnce == \A n \in Pending : recomputedAt[n] < stabilisation_num

(***************************************************************************)
(* recompute_one unwraps the value of every child: each is there when the  *)
(* node's turn comes.                                                      *)
(***************************************************************************)
NextToRun(n) ==
  n \in direct \/ (direct = {} /\ n \in heap /\ \A m \in heap : Height[n] <= Height[m])

InputsReady ==
  status = "Stabilising" =>
    \A n \in Node : NextToRun(n) => \A c \in ChildSet(n) : ValueOf(c) # NoValue

\* No child of n can hide a change from n.
ExactInputs(n) ==
  \A c \in ChildSet(n) : Kind[c] # "MapRef" /\ (Kind[c] = "MapWithOld" \/ ExactCutoff(c))

(***************************************************************************)
(* Between stabilisations every necessary node agrees with its children:   *)
(* an observer never sees a value computed from a mixture of old and new   *)
(* inputs.  A node with a MapRef child is excepted, see GlitchFreeMapRef.  *)
(***************************************************************************)
Agrees(n) == ValueOf(n) = Compute(n, Args(n))

GlitchFree ==
  status # "Stabilising" =>
    \A n \in Necessary \ VarNode : ExactInputs(n) => Agrees(n)

\* State::is_stable; dead_vars, its third conjunct, is in VarLifetimes.
IsStable == heap = {} /\ \A o \in Observer : obsState[o] # "Created"

(***************************************************************************)
(* is_stable never promises too much: when it answers yes between          *)
(* stabilisations, what observers would read needs no further call of      *)
(* stabilise: the necessary variables' nodes have the values last set,     *)
(* including by closures and handlers, and every other necessary node      *)
(* agrees with its children.                                               *)
(***************************************************************************)
StableMeansCurrent ==
  status # "Stabilising" /\ IsStable =>
    \A n \in Necessary :
      IF n \in VarNode THEN value[n] = varValue[n] ELSE ExactInputs(n) => Agrees(n)

(***************************************************************************)
(* The same without the exception: every cutoff is exact, so every         *)
(* observed value should be what the graph computes from the variables     *)
(* ("Propagates changes in the graph", State::stabilise).                  *)
(***************************************************************************)
GlitchFreeMapRef ==
  status # "Stabilising" => \A n \in Necessary \ VarNode : Agrees(n)

(***************************************************************************)
(* The engine implements IncrementalAPI: while it is not stabilising,      *)
(* observers read the nodes' values.                                       *)
(***************************************************************************)
Seen ==
  IF status = "Stabilising"
    THEN [n \in {} |-> NoValue]
    ELSE [n \in WatchedIn(obsState) |-> ValueOf(n)]

API == INSTANCE IncrementalAPI WITH seen <- Seen

ImplementsAPI == API!Spec

\* A call of stabilise returns.
StabiliseReturns == (status # "NotStabilising") ~> (status = "NotStabilising")
=============================================================================
