---------------------------- MODULE IncrementalAPI ----------------------------
(***************************************************************************)
(* What the crate promises its user, without saying how.  There are        *)
(* variables, observers and one operation, stabilise.  A variable may be   *)
(* set at any time; a set made while stabilise runs takes effect when it   *)
(* ends.  What observers read between two stabilisations is a solution of  *)
(* the graph's equations for the values the variables had when the last    *)
(* one started: never a mixture of old and new inputs.                     *)
(***************************************************************************)
EXTENDS IncrGraph

CONSTANTS
  Observer,    \* observer handles, each used once
  Observing    \* Observing[o]: the node that o observes

VARIABLES
  status,      \* IncrStatus
  varValue,    \* varValue[v]: what Var::get returns
  setDuring,   \* setDuring[v]: the value set while stabilising, or NoValue
  obsState,    \* obsState[o]: the state of o, "Unused" before it exists
  seen         \* seen[n]: what an observer of n reads; empty while stabilising

apiVars == <<status, varValue, setDuring, obsState, seen>>

\* The nodes that have an observer in their `observers' table.
Watched == {Observing[o] : o \in {p \in Observer : obsState[p] \in {"InUse", "Disallowed"}}}

(***************************************************************************)
(* sol assigns every node a value and satisfies the equations of the nodes *)
(* below the watched ones.  The graph has no cycle, so all solutions agree *)
(* on those nodes.                                                         *)
(***************************************************************************)
IsSolution(sol) ==
  \A n \in Cone(Watched) :
    sol[n] = IF n \in VarNode
               THEN varValue[n]
               ELSE Compute(n, [i \in DOMAIN Children[n] |-> sol[Children[n][i]]])

Init ==
  /\ status = "NotStabilising"
  /\ varValue \in [VarNode -> Value]
  /\ setDuring = [v \in VarNode |-> NoValue]
  /\ obsState = [o \in Observer |-> "Unused"]
  /\ seen = [n \in {} |-> NoValue]

\* Var::set and its variants, called from outside or from an update handler.
SetVar(v, x) ==
  /\ status # "Stabilising"
  /\ varValue' = [varValue EXCEPT ![v] = x]
  /\ UNCHANGED <<status, setDuring, obsState, seen>>

\* Var::set and its variants, called by a closure that stabilise runs.
SetVarDuringStabilisation(v, x) ==
  /\ status = "Stabilising"
  /\ setDuring' = [setDuring EXCEPT ![v] = x]
  /\ UNCHANGED <<status, varValue, obsState, seen>>

Observe(o) ==
  /\ obsState[o] = "Unused"
  /\ obsState' = [obsState EXCEPT ![o] = "Created"]
  /\ UNCHANGED <<status, varValue, setDuring, seen>>

\* Observer::disallow_future_use, or the last handle dropped.
Disallow(o) ==
  /\ obsState[o] \in {"Created", "InUse"}
  /\ obsState' = [obsState EXCEPT
       ![o] = IF obsState[o] = "Created" THEN "Unlinked" ELSE "Disallowed"]
  /\ UNCHANGED <<status, varValue, setDuring, seen>>

StabiliseStart ==
  /\ status = "NotStabilising"
  /\ status' = "Stabilising"
  /\ obsState' = [o \in Observer |->
       CASE obsState[o] = "Created"    -> "InUse"
         [] obsState[o] = "Disallowed" -> "Unlinked"
         [] OTHER                      -> obsState[o]]
  /\ seen' = [n \in {} |-> NoValue]
  /\ UNCHANGED <<varValue, setDuring>>

(***************************************************************************)
(* The observed nodes get the values of one solution; then the sets made   *)
(* meanwhile are applied, for the next stabilisation to use.               *)
(***************************************************************************)
StabiliseEnd ==
  /\ status = "Stabilising"
  /\ status' = "RunningOnUpdateHandlers"
  /\ \E sol \in [Cone(Watched) -> Value] :
       /\ IsSolution(sol)
       /\ seen' = [n \in Watched |-> sol[n]]
  /\ varValue' = [v \in VarNode |->
       IF setDuring[v] = NoValue THEN varValue[v] ELSE setDuring[v]]
  /\ setDuring' = [v \in VarNode |-> NoValue]
  /\ UNCHANGED obsState

HandlersDone ==
  /\ status = "RunningOnUpdateHandlers"
  /\ status' = "NotStabilising"
  /\ UNCHANGED <<varValue, setDuring, obsState, seen>>

Next ==
  \/ \E v \in VarNode, x \in Value : SetVar(v, x) \/ SetVarDuringStabilisation(v, x)
  \/ \E o \in Observer : Observe(o) \/ Disallow(o)
  \/ StabiliseStart
  \/ StabiliseEnd
  \/ HandlersDone

Spec == Init /\ [][Next]_apiVars
=============================================================================
