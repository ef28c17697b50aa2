---------------------------- MODULE VarLifetimes ----------------------------
(***************************************************************************)
(* When variables are freed.  A variable and its watch node hold each      *)
(* other, so a Var lives until the cycle is broken: the last of its public *)
(* handles to be dropped puts it in State.dead_vars, and the end of the    *)
(* next stabilise breaks the cycle (at once, when the State is gone).      *)
(*                                                                         *)
(* A value may hold a handle of another variable (Var<Var<T>>), and so may *)
(* a value that waits in value_set_during_stabilisation and the copy that  *)
(* the watch node made when it was recomputed.  Types nest, so a value     *)
(* holds handles of variables with a higher number only.                   *)
(*                                                                         *)
(* A node and its variable are freed together: the variable is held by the *)
(* node's kind, and the node by every public handle.  All vectors of       *)
(* variables are of weak references, and sets here: their order decides    *)
(* nothing, and a variable enters each at most once.                       *)
(***************************************************************************)
EXTENDS Naturals

CONSTANT NumVars

ASSUME NumVarsAssumption == NumVars \in Nat

Var == 1 .. NumVars
NoVar == 0            \* a value without a handle
NotSet == NumVars + 1 \* None in value_set_during_stabilisation

VARIABLES
  created,   \* the variables that have been made
  held,      \* those of which user code has a public handle, in closures or elsewhere
  watched,   \* those whose watch node is held otherwise: by an Incr, an observer, a node
  inner,     \* inner[v]: the variable whose handle Var.value holds
  pending,   \* pending[v]: the same for value_set_during_stabilisation
  copied,    \* copied[v]: the same for the value of the watch node
  broken,    \* those with Var.node taken by break_rc_cycle
  dead,      \* State.dead_vars
  alt,       \* State.dead_vars_alt
  phase      \* what State is doing

lifetimeVars == <<created, held, watched, inner, pending, copied, broken, dead, alt, phase>>

Contents(v) == {inner[v], pending[v], copied[v]}

\* Those with a handle in the contents of a variable of S.
In(S) == {w \in Var : \E u \in S : w \in Contents(u)}

(***************************************************************************)
(* The variables with a public handle somewhere, given that the cycles of  *)
(* the variables b are broken: those the user has, those in a variable     *)
(* that is watched or keeps itself, and those in one of these.  A variable *)
(* that is neither handled nor watched is freed with its contents once its *)
(* cycle is broken.                                                        *)
(***************************************************************************)
HandledGiven(b) ==
  LET first == held \union In(watched \union (created \ b))
      closed == {S \in SUBSET Var : first \subseteq S /\ In(S) \subseteq S}
  IN  {v \in Var : \A S \in closed : v \in S}

Handled == HandledGiven(broken)

\* The Rc of the variable has not been freed, so a weak reference can be upgraded.
Alive(v) == v \in created /\ (v \notin broken \/ v \in watched \/ v \in Handled)

VarsInit ==
  /\ created = {} /\ held = {} /\ watched = {}
  /\ inner = [v \in Var |-> NoVar]
  /\ pending = [v \in Var |-> NotSet]
  /\ copied = [v \in Var |-> NoVar]
  /\ broken = {} /\ dead = {} /\ alt = {}
  /\ phase = "idle"

(***************************************************************************)
(* Drop for public::Var, of every last handle that a step drops and every  *)
(* one that goes with it.                                                  *)
(***************************************************************************)
DropLast ==
  IF phase = "destroyed"
    THEN /\ broken' = broken \union (Handled \ HandledGiven(Var)')
         /\ dead' = dead
    ELSE /\ broken' = broken
         /\ dead' = dead \union (Handled \ Handled')

-----------------------------------------------------------------------------
(***************************************************************************)
(* User code runs between stabilisations, in the closures of nodes and in  *)
(* update handlers, and after the State is gone.                           *)
(***************************************************************************)
UserRuns == phase \in {"idle", "stabilising", "handlers", "destroyed"}

\* A value the user can make for v: plain, or with a clone of a handle.
Value(v) == {NoVar} \union {w \in held : w > v}

\* State::var_in_scope.
NewVar(v, x) ==
  /\ UserRuns /\ phase # "destroyed"
  /\ v \notin created
  /\ created' = created \union {v}
  /\ held' = held \union {v}
  /\ inner' = [inner EXCEPT ![v] = x]
  /\ UNCHANGED <<watched, pending, copied, broken, dead, alt, phase>>

(***************************************************************************)
(* Var::set, update, replace_with and modify; delayed while nodes are      *)
(* recomputed.  The value that is replaced is dropped.                     *)
(***************************************************************************)
Set(v, x) ==
  /\ UserRuns /\ phase # "destroyed"
  /\ v \in held
  /\ IF phase = "stabilising"
       THEN pending' = [pending EXCEPT ![v] = x] /\ UNCHANGED inner
       ELSE inner' = [inner EXCEPT ![v] = x] /\ UNCHANGED pending
  /\ UNCHANGED <<created, held, watched, copied, alt, phase>>
  /\ DropLast

\* Var::get of a variable that holds a handle, or the value of its watch node.
TakeInner(v) ==
  /\ UserRuns
  /\ \E w \in Var : /\ (v \in held /\ w = inner[v]) \/ (v \in watched /\ w = copied[v])
                    /\ w \notin held
                    /\ held' = held \union {w}
  /\ UNCHANGED <<created, watched, inner, pending, copied, broken, dead, alt, phase>>

\* The user's last handle of v goes; values may still hold others.
DropHandle(v) ==
  /\ UserRuns
  /\ v \in held
  /\ held' = held \ {v}
  /\ UNCHANGED <<created, watched, inner, pending, copied, alt, phase>>
  /\ DropLast

\* Var::watch, and what is built on the watch node.
Watch(v) ==
  /\ UserRuns
  /\ v \in held \ watched
  /\ watched' = watched \union {v}
  /\ UNCHANGED <<created, held, inner, pending, copied, broken, dead, alt, phase>>

\* The last Incr, node or observer of the watch node goes.
Unwatch(v) ==
  /\ UserRuns
  /\ v \in watched
  /\ watched' = watched \ {v}
  /\ UNCHANGED <<created, held, inner, pending, copied, alt, phase>>
  /\ DropLast

-----------------------------------------------------------------------------
StabiliseBegins ==
  /\ phase = "idle"
  /\ phase' = "stabilising"
  /\ UNCHANGED <<created, held, watched, inner, pending, copied, broken, dead, alt>>

\* The watch node of v is recomputed: it copies the variable's value.
Recompute(v) ==
  /\ phase = "stabilising"
  /\ v \in watched
  /\ copied[v] # inner[v]
  /\ copied' = [copied EXCEPT ![v] = inner[v]]
  /\ UNCHANGED <<created, held, watched, inner, pending, alt, phase>>
  /\ DropLast

\* The heap is empty: State::stabilise_end begins.
SetsBegin ==
  /\ phase = "stabilising"
  /\ phase' = "sets"
  /\ UNCHANGED <<created, held, watched, inner, pending, copied, broken, dead, alt>>

\* A turn of the loop over set_during_stabilisation: Var::set_var_stabilise_end.
ApplySet(v) ==
  /\ phase = "sets"
  /\ pending[v] # NotSet
  /\ Alive(v)
  /\ inner' = [inner EXCEPT ![v] = pending[v]]
  /\ pending' = [pending EXCEPT ![v] = NotSet]
  /\ UNCHANGED <<created, held, watched, copied, alt, phase>>
  /\ DropLast

\* Fault: the dead variables are dealt with before those that were set.
DeadBeginEarly ==
  /\ phase = "sets"
  /\ phase' = "dead"
  /\ UNCHANGED <<created, held, watched, inner, pending, copied, broken, dead, alt>>

DeadBegin ==
  /\ phase = "sets"
  /\ \A v \in Var : pending[v] # NotSet => ~Alive(v)
  /\ phase' = "dead"
  /\ UNCHANGED <<created, held, watched, inner, pending, copied, broken, dead, alt>>

\* The loop over dead_vars: swap the two vectors, and drain the other one.
SwapDead ==
  /\ phase = "dead"
  /\ alt = {} /\ dead # {}
  /\ alt' = dead /\ dead' = {}
  /\ UNCHANGED <<created, held, watched, inner, pending, copied, broken, phase>>

\* Fault: handles that are dropped while dead_vars is drained are not listed.
BreakCycleUnlisted(v) ==
  /\ phase = "dead"
  /\ v \in alt
  /\ alt' = alt \ {v}
  /\ broken' = broken \union {v}
  /\ UNCHANGED <<created, held, watched, inner, pending, copied, phase, dead>>

\* Var::break_rc_cycle; freeing v drops the handles in it.
BreakCycle(v) ==
  /\ phase = "dead"
  /\ v \in alt
  /\ alt' = alt \ {v}
  /\ broken' = broken \union {v}
  /\ UNCHANGED <<created, held, watched, inner, pending, copied, phase>>
  /\ dead' = dead \union (Handled \ Handled')

\* Fault: what the drained variables held is left for the next stabilise.
DeadEndOnce ==
  /\ phase = "dead"
  /\ alt = {}
  /\ phase' = "handlers"
  /\ UNCHANGED <<created, held, watched, inner, pending, copied, broken, dead, alt>>

DeadEnd ==
  /\ phase = "dead"
  /\ alt = {} /\ dead = {}
  /\ phase' = "handlers"
  /\ UNCHANGED <<created, held, watched, inner, pending, copied, broken, dead, alt>>

StabiliseEnds ==
  /\ phase = "handlers"
  /\ phase' = "idle"
  /\ UNCHANGED <<created, held, watched, inner, pending, copied, broken, dead, alt>>

(***************************************************************************)
(* Drop for State, and destroy: the last IncrState is dropped.  Handles    *)
(* dropped from now on find no State.                                      *)
(***************************************************************************)
Destroy ==
  /\ phase = "idle"
  /\ phase' = "destroyed"
  /\ broken' = broken \union dead \union (Handled \ HandledGiven(Var))
  /\ dead' = {}
  /\ UNCHANGED <<created, held, watched, inner, pending, copied, alt>>

VarsCall ==
  \/ \E v \in Var : \E x \in Value(v) : NewVar(v, x) \/ Set(v, x)
  \/ \E v \in Var : TakeInner(v) \/ DropHandle(v) \/ Watch(v) \/ Unwatch(v)

EndStep ==
  \/ \E v \in Var : ApplySet(v) \/ BreakCycle(v)
  \/ DeadBegin \/ SwapDead \/ DeadEnd

VarsNext ==
  \/ VarsCall
  \/ StabiliseBegins
  \/ \E v \in Var : Recompute(v)
  \/ SetsBegin
  \/ EndStep
  \/ StabiliseEnds
  \/ Destroy

VarsSpec == VarsInit /\ [][VarsNext]_lifetimeVars

-----------------------------------------------------------------------------
VarsTypeOK ==
  /\ created \subseteq Var /\ held \subseteq created /\ watched \subseteq created
  /\ inner \in [Var -> Var \union {NoVar}]
  /\ pending \in [Var -> Var \union {NoVar, NotSet}]
  /\ copied \in [Var -> Var \union {NoVar}]
  /\ broken \subseteq created /\ dead \subseteq created /\ alt \subseteq created
  /\ phase \in {"idle", "stabilising", "sets", "dead", "handlers", "destroyed"}

(***************************************************************************)
(* "uninitialised var or abandoned watch node" is never met: a variable    *)
(* that can still be set, through a handle that exists anywhere or because *)
(* it was set while nodes were recomputed, has its watch node; and no set  *)
(* is left over when stabilise ends.                                       *)
(***************************************************************************)
SetMeetsWatch ==
  /\ Handled \intersect broken = {}
  /\ \A v \in Var : pending[v] # NotSet /\ Alive(v) =>
       v \notin broken /\ phase \in {"stabilising", "sets"}

(***************************************************************************)
(* Nothing leaks: a variable that only its own cycle keeps is on its way   *)
(* to be freed, also if its last handle was in a value that was replaced,  *)
(* or was freed with another variable, at any depth; and when the State is *)
(* gone there is none.                                                     *)
(***************************************************************************)
OnlyCycle(v) == Alive(v) /\ v \notin watched /\ v \notin Handled

NoneForgotten == \A v \in created : OnlyCycle(v) => v \in dead \union alt

(***************************************************************************)
(* When the loop over dead_vars ends, all that user code cannot reach has  *)
(* been freed, at whatever depth it was nested, also what was in values    *)
(* that the end of stabilise replaced, and in the variables it freed.      *)
(***************************************************************************)
Garbage == {v \in created : Alive(v)} \ (watched \union HandledGiven(Var))

FreedAtEnd == phase = "dead" /\ phase' = "handlers" => Garbage' = {}

FreedByStabilise == [][FreedAtEnd]_lifetimeVars
=============================================================================
