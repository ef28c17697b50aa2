---------------------------- MODULE UpdateHandlers ----------------------------
(***************************************************************************)
(* Update handlers: the closures given to Observer::subscribe and          *)
(* Incr::on_update, and which of them stabilise calls, with what, after it *)
(* has recomputed the graph.                                               *)
(*                                                                         *)
(* The graph itself is left out: while stabilise runs, nodes change, gain  *)
(* and lose parents and are invalidated in any order.  A value is told     *)
(* apart by the stabilisation that computed it.  Handlers are called one   *)
(* at a time, and each may make calls of its own before it returns.        *)
(*                                                                         *)
(* The order of the nodes in handle_after_stabilisation, and of the        *)
(* handlers of one owner, is left out.  A call that panics is not a step.  *)
(***************************************************************************)
EXTENDS Integers, FiniteSets

CONSTANTS
  Node,
  Observer,            \* observer handles, each used once
  Observing,           \* Observing[o]: the node that o observes
  Handler,             \* handlers, each registered once
  Nobody,              \* no node, no owner, no handler
  MaxStabilisations,   \* bound on the calls of stabilise
  MaxCount             \* bound on num_on_update_handlers

ASSUME HandlersAssumption ==
  /\ Observing \in [Observer -> Node]
  /\ Node \intersect Observer = {}
  /\ Nobody \notin Node \union Observer \union Handler
  /\ IsFiniteSet(Handler)
  /\ MaxStabilisations \in Nat
  /\ MaxCount \in Nat

VARIABLES
  status,              \* IncrStatus
  stabilisation_num,
  value,               \* value[n]: 0 for None, else 1 + the stabilisation that computed it
  valid,               \* valid[n]: Node.is_valid
  kept,                \* kept[n]: n has parents
  obsState,            \* obsState[o]: InternalObserver.state, "Unused" before it exists
  owner,               \* owner[h]: the observer or node h was given to
  registered,          \* the handlers in the table of their owner
  createdAt,           \* createdAt[h]: OnUpdateHandler.created_at
  previous,            \* previous[h]: OnUpdateHandler.previous_update_kind
  shown,               \* shown[h]: the value h was last called with
  num_on_update_handlers,
  handleAfter,         \* State.handle_after_stabilisation, and is_in_handle_after_stabilisation
  runQueue,            \* State.run_on_update_handlers: node and update
  pass,                \* where the loops over nodes, owners and handlers are
  caller               \* the handler whose closure runs now

graph == <<value, valid, kept>>
handlers == <<owner, registered, createdAt, previous, shown>>
loop == <<runQueue, pass, caller>>
vars == <<status, stabilisation_num, graph, obsState, handlers,
          num_on_update_handlers, handleAfter, loop>>

\* The owner's table of handlers.
HandlersOf(x) == {h \in registered : owner[h] = x}

\* Node.observers, when the observers' states are os.
ObserversIn(n, os) == {o \in Observer : Observing[o] = n /\ os[o] \in {"InUse", "Disallowed"}}

Observers(n) == ObserversIn(n, obsState)

Necessary(n) == kept[n] \/ Observers(n) # {}

Idle == [node |-> Nobody, update |-> "None", owner |-> Nobody, left |-> {}, owners |-> {}]

Init ==
  /\ status = "NotStabilising"
  /\ stabilisation_num = 0
  /\ value = [n \in Node |-> 0]
  /\ valid = [n \in Node |-> TRUE]
  /\ kept = [n \in Node |-> FALSE]
  /\ obsState = [o \in Observer |-> "Unused"]
  /\ owner = [h \in Handler |-> Nobody]
  /\ registered = {}
  /\ createdAt = [h \in Handler |-> 0]
  /\ previous = [h \in Handler |-> "NeverBeenUpdated"]
  /\ shown = [h \in Handler |-> 0]
  /\ num_on_update_handlers = [n \in Node |-> 0]
  /\ handleAfter = {}
  /\ runQueue = {}
  /\ pass = Idle
  /\ caller = Nobody

-----------------------------------------------------------------------------
(***************************************************************************)
(* Calls of the user: between stabilisations, in the closures that         *)
(* stabilise runs, and in update handlers.                                 *)
(***************************************************************************)

UserCodeRuns == status = "RunningOnUpdateHandlers" => caller # Nobody

\* run_on_update_handlers and run_all hold the table they iterate borrowed.
TableFree(x) == pass.owner # x

\* State::observe.
Observe(o) ==
  /\ UserCodeRuns
  /\ obsState[o] = "Unused"
  /\ obsState' = [obsState EXCEPT ![o] = "Created"]
  /\ UNCHANGED <<status, stabilisation_num, graph, handlers,
                 num_on_update_handlers, handleAfter, loop>>

Register(h, x) ==
  /\ owner[h] = Nobody
  /\ owner' = [owner EXCEPT ![h] = x]
  /\ registered' = registered \union {h}
  /\ createdAt' = [createdAt EXCEPT ![h] = stabilisation_num]
  /\ UNCHANGED <<previous, shown>>

\* Faults for the mutants: the node is not handled after the next stabilisation;
\* the handler is not counted.
SubscribeUnhandled(o, h) ==
  /\ UserCodeRuns
  /\ TableFree(o)
  /\ obsState[o] \in {"Created", "InUse"}
  /\ Register(h, o)
  /\ num_on_update_handlers' = [num_on_update_handlers EXCEPT
       ![Observing[o]] = IF obsState[o] = "InUse" THEN @ + 1 ELSE @]
  /\ UNCHANGED <<status, stabilisation_num, graph, obsState, handleAfter, loop>>

SubscribeUncounted(o, h) ==
  /\ UserCodeRuns
  /\ TableFree(o)
  /\ obsState[o] \in {"Created", "InUse"}
  /\ Register(h, o)
  /\ handleAfter' = handleAfter \union {Observing[o]}
  /\ UNCHANGED <<status, stabilisation_num, graph, obsState, num_on_update_handlers, loop>>

\* Observer::try_subscribe.  The handlers of an observer that is not in use yet
\* are counted when it is.
Subscribe(o, h) ==
  /\ UserCodeRuns
  /\ TableFree(o)
  /\ obsState[o] \in {"Created", "InUse"}
  /\ Register(h, o)
  /\ num_on_update_handlers' = [num_on_update_handlers EXCEPT
       ![Observing[o]] = IF obsState[o] = "InUse" THEN @ + 1 ELSE @]
  /\ handleAfter' = handleAfter \union {Observing[o]}
  /\ UNCHANGED <<status, stabilisation_num, graph, obsState, loop>>

\* Incr::on_update.
OnUpdate(n, h) ==
  /\ UserCodeRuns
  /\ TableFree(n)
  /\ Register(h, n)
  /\ num_on_update_handlers' = [num_on_update_handlers EXCEPT ![n] = @ + 1]
  /\ UNCHANGED <<status, stabilisation_num, graph, obsState, handleAfter, loop>>

\* InternalObserver::unsubscribe, also for a token that was unsubscribed before.
\* It increments num_on_update_handlers.
Unsubscribe(o, h) ==
  /\ UserCodeRuns
  /\ TableFree(o)
  /\ owner[h] = o
  /\ obsState[o] \in {"Created", "InUse"}
  /\ num_on_update_handlers[Observing[o]] < MaxCount
  /\ registered' = registered \ {h}
  /\ num_on_update_handlers' = [num_on_update_handlers EXCEPT
       ![Observing[o]] = IF obsState[o] = "InUse" THEN @ + 1 ELSE @]
  /\ UNCHANGED <<status, stabilisation_num, graph, obsState,
                 owner, createdAt, previous, shown, handleAfter, loop>>

\* InternalObserver::disallow_future_use, called by a user or by Observer::drop;
\* called again it does nothing.
DisallowFutureUse(o) ==
  /\ UserCodeRuns
  /\ \/ /\ obsState[o] = "Created"
        /\ obsState' = [obsState EXCEPT ![o] = "Unlinked"]
        /\ registered' = registered \ HandlersOf(o)
     \/ /\ obsState[o] = "InUse"
        /\ obsState' = [obsState EXCEPT ![o] = "Disallowed"]
        /\ UNCHANGED registered
     \/ /\ obsState[o] \in {"Disallowed", "Unlinked"}
        /\ UNCHANGED <<obsState, registered>>
  /\ UNCHANGED <<status, stabilisation_num, graph, owner, createdAt, previous, shown,
                 num_on_update_handlers, handleAfter, loop>>

-----------------------------------------------------------------------------
(***************************************************************************)
(* stabilise, up to its end.                                               *)
(***************************************************************************)

\* Node::maybe_handle_after_stabilisation for the nodes in S.
MaybeHandleAfter(S, count) == handleAfter' = handleAfter \union {n \in S : count[n] > 0}

CountIn(n, os) == Cardinality(UNION {HandlersOf(o) : o \in {p \in os : Observing[p] = n}})

(***************************************************************************)
(* State::stabilise_start.  add_new_observers counts the handlers of each  *)
(* new observer and has its node handled; unlink_disallowed_observers then *)
(* takes those of each disallowed one off again, and its node may become   *)
(* unnecessary.                                                            *)
(***************************************************************************)
StabiliseStart ==
  LET added    == {o \in Observer : obsState[o] = "Created"}
      dropped  == {o \in Observer : obsState[o] = "Disallowed"}
      unneeded == {n \in {Observing[o] : o \in dropped} :
                     ~kept[n] /\ ObserversIn(n, obsState') = {}}
      stack    == handleAfter \union {Observing[o] : o \in added}
  IN  /\ status = "NotStabilising"
      /\ stabilisation_num < MaxStabilisations
      /\ status' = "Stabilising"
      /\ obsState' = [o \in Observer |->
           CASE o \in added -> "InUse" [] o \in dropped -> "Unlinked" [] OTHER -> obsState[o]]
      /\ num_on_update_handlers' = [n \in Node |->
           num_on_update_handlers[n] + CountIn(n, added) - CountIn(n, dropped)]
      /\ handleAfter' = stack \union {n \in unneeded : num_on_update_handlers'[n] > 0}
      /\ UNCHANGED <<stabilisation_num, graph, handlers, loop>>

GraphStep ==
  /\ status = "Stabilising"
  /\ UNCHANGED <<status, stabilisation_num, obsState, handlers, num_on_update_handlers, loop>>

\* Node::maybe_change_value_manual: n, recomputed, did change.
Changed(n) ==
  /\ GraphStep
  /\ valid[n] /\ Necessary(n)
  /\ value[n] # stabilisation_num + 1
  /\ value' = [value EXCEPT ![n] = stabilisation_num + 1]
  /\ MaybeHandleAfter({n}, num_on_update_handlers)
  /\ UNCHANGED <<valid, kept>>

\* Fault: becoming necessary is no news.
GainParentUnhandled(n) ==
  /\ GraphStep
  /\ ~kept[n]
  /\ kept' = [kept EXCEPT ![n] = TRUE]
  /\ UNCHANGED <<value, valid, handleAfter>>

\* Node::add_parent_without_adjusting_heights, with became_necessary.
GainParent(n) ==
  /\ GraphStep
  /\ ~kept[n]
  /\ kept' = [kept EXCEPT ![n] = TRUE]
  /\ MaybeHandleAfter({n} \ {m \in Node : Necessary(m)}, num_on_update_handlers)
  /\ UNCHANGED <<value, valid>>

\* Node::remove_parent, then check_if_unnecessary.
LoseParents(n) ==
  /\ GraphStep
  /\ kept[n]
  /\ kept' = [kept EXCEPT ![n] = FALSE]
  /\ MaybeHandleAfter({n} \ {m \in Node : Observers(m) # {}}, num_on_update_handlers)
  /\ UNCHANGED <<value, valid>>

\* Node::invalidate_node.
Invalidate(n) ==
  /\ GraphStep
  /\ valid[n]
  /\ valid' = [valid EXCEPT ![n] = FALSE]
  /\ value' = [value EXCEPT ![n] = 0]
  /\ MaybeHandleAfter({n}, num_on_update_handlers)
  /\ UNCHANGED kept

-----------------------------------------------------------------------------
(***************************************************************************)
(* The end of stabilise.                                                   *)
(***************************************************************************)

\* Fault: an observer does not make a node necessary.
NodeUpdateNoObservers(n) ==
  CASE ~valid[n]                             -> "Invalidated"
    [] valid[n] /\ ~kept[n]                  -> "Unnecessary"
    [] valid[n] /\ kept[n] /\ value[n] # 0   -> "Changed"
    [] OTHER                                 -> "Necessary"

\* Node::node_update.
NodeUpdate(n) ==
  CASE ~valid[n]                                 -> "Invalidated"
    [] valid[n] /\ ~Necessary(n)                 -> "Unnecessary"
    [] valid[n] /\ Necessary(n) /\ value[n] # 0  -> "Changed"
    [] OTHER                                     -> "Necessary"

\* Every necessary node has been computed (Propagation); State::stabilise_end
\* empties handle_after_stabilisation into the queue.
StabiliseEnd ==
  /\ status = "Stabilising"
  /\ \A n \in Node : valid[n] /\ Necessary(n) => value[n] # 0
  /\ status' = "RunningOnUpdateHandlers"
  /\ stabilisation_num' = stabilisation_num + 1
  /\ runQueue' = {[node |-> n, update |-> NodeUpdate(n)] : n \in handleAfter}
  /\ handleAfter' = {}
  /\ UNCHANGED <<graph, obsState, handlers, num_on_update_handlers, pass, caller>>

LoopStep ==
  /\ status = "RunningOnUpdateHandlers"
  /\ caller = Nobody
  /\ UNCHANGED <<stabilisation_num, graph, obsState, owner, registered, createdAt,
                 num_on_update_handlers, handleAfter>>

\* Node::run_on_update_handlers begins with the node's own handlers,
NextNode ==
  /\ LoopStep
  /\ pass.node = Nobody
  /\ \E e \in runQueue :
       /\ runQueue' = runQueue \ {e}
       /\ pass' = [node |-> e.node, update |-> e.update, owner |-> e.node,
                   left |-> HandlersOf(e.node), owners |-> Observers(e.node)]
  /\ UNCHANGED <<status, previous, shown, caller>>

\* goes on with those of each observer,
NextObserver ==
  /\ LoopStep
  /\ pass.node # Nobody /\ pass.left = {}
  /\ \E o \in pass.owners :
       pass' = [pass EXCEPT !.owner = o, !.owners = @ \ {o}, !.left = HandlersOf(o)]
  /\ UNCHANGED <<status, previous, shown, runQueue, caller>>

\* and returns.
NodeDone ==
  /\ LoopStep
  /\ pass.node # Nobody /\ pass.left = {} /\ pass.owners = {}
  /\ pass' = Idle
  /\ UNCHANGED <<status, previous, shown, runQueue, caller>>

(***************************************************************************)
(* OnUpdateHandler::run: what a handler that was last told `before' is     *)
(* told when the update is now u; "None" when it is not called.            *)
(***************************************************************************)
Told(before, u) ==
  CASE before = "Invalidated"                                             -> "None"
    [] before \in {"Changed", "Necessary"} /\ u = "Necessary"             -> "None"
    [] before = "Unnecessary" /\ u = "Unnecessary"                        -> "None"
    [] before \in {"NeverBeenUpdated", "Unnecessary"} /\ u = "Changed"    -> "Necessary"
    [] OTHER                                                              -> u

\* Fault: the state of the observer is tested once, before its handlers run.
MayRunUntested(h) == createdAt[h] < stabilisation_num

\* A handler runs unless it was made by a handler just now or its observer was
\* disallowed, by another handler perhaps.
MayRun(h) ==
  /\ createdAt[h] < stabilisation_num
  /\ pass.owner \in Observer => obsState[pass.owner] = "InUse"

\* One step of the loop in run_on_update_handlers or run_all.
RunHandler(h) ==
  LET u == IF MayRun(h) THEN Told(previous[h], pass.update) ELSE "None"
  IN  /\ LoopStep
      /\ h \in pass.left
      /\ pass' = [pass EXCEPT !.left = @ \ {h}]
      /\ previous' = [previous EXCEPT ![h] = IF u = "None" THEN @ ELSE u]
      /\ shown' = [shown EXCEPT ![h] = IF u = "None" THEN @ ELSE value[pass.node]]
      /\ caller' = IF u = "None" THEN Nobody ELSE h
      /\ UNCHANGED <<status, runQueue>>

HandlerReturns ==
  /\ caller # Nobody
  /\ caller' = Nobody
  /\ UNCHANGED <<status, stabilisation_num, graph, obsState, handlers,
                 num_on_update_handlers, handleAfter, runQueue, pass>>

\* stabilise returns.
HandlersDone ==
  /\ LoopStep
  /\ pass.node = Nobody /\ runQueue = {}
  /\ status' = "NotStabilising"
  /\ UNCHANGED <<previous, shown, loop>>

UserCall ==
  \/ \E o \in Observer : Observe(o) \/ DisallowFutureUse(o)
  \/ \E o \in Observer, h \in Handler : Subscribe(o, h) \/ Unsubscribe(o, h)
  \/ \E n \in Node, h \in Handler : OnUpdate(n, h)

Next ==
  \/ UserCall
  \/ StabiliseStart
  \/ \E n \in Node : Changed(n) \/ GainParent(n) \/ LoseParents(n) \/ Invalidate(n)
  \/ StabiliseEnd
  \/ NextNode
  \/ NextObserver
  \/ NodeDone
  \/ \E h \in Handler : RunHandler(h)
  \/ HandlerReturns
  \/ HandlersDone

Spec == Init /\ [][Next]_vars

-----------------------------------------------------------------------------
(***************************************************************************)
(* Properties.                                                             *)
(***************************************************************************)

Update == {"Necessary", "Changed", "Invalidated", "Unnecessary"}

\* The type of every variable.
TypeOK ==
  /\ status \in {"NotStabilising", "Stabilising", "RunningOnUpdateHandlers"}
  /\ stabilisation_num \in 0 .. MaxStabilisations
  /\ value \in [Node -> 0 .. MaxStabilisations]
  /\ valid \in [Node -> BOOLEAN]
  /\ kept \in [Node -> BOOLEAN]
  /\ obsState \in [Observer -> {"Unused", "Created", "InUse", "Disallowed", "Unlinked"}]
  /\ owner \in [Handler -> Observer \union Node \union {Nobody}]
  /\ registered \subseteq Handler
  /\ createdAt \in [Handler -> 0 .. MaxStabilisations]
  /\ previous \in [Handler -> Update \union {"NeverBeenUpdated"}]
  /\ shown \in [Handler -> 0 .. MaxStabilisations]
  /\ num_on_update_handlers \in [Node -> Nat]
  /\ handleAfter \subseteq Node
  /\ runQueue \subseteq [node : Node, update : Update]
  /\ pass \in [node : Node \union {Nobody}, update : Update \union {"None"},
               owner : Observer \union Node \union {Nobody},
               left : SUBSET Handler, owners : SUBSET Observer]
  /\ caller \in Handler \union {Nobody}

\* The handler knows what there is to know of node n.
UpToDate(h, n) ==
  IF valid[n]
    THEN IF Necessary(n) THEN previous[h] \in {"Necessary", "Changed"} /\ shown[h] = value[n]
                         ELSE previous[h] = "Unnecessary"
    ELSE previous[h] = "Invalidated"

(***************************************************************************)
(* When stabilise returns, every subscription made before it ended has     *)
(* been told the present value of the node, or that it is invalid, however *)
(* handlers subscribe, unsubscribe and drop observers meanwhile            *)
(* (num_on_update_handlers and is_in_handle_after_stabilisation decide     *)
(* whether a node is looked at, try_subscribe and add_new_observers see to *)
(* the first time).                                                        *)
(***************************************************************************)
SubscribersAreTold ==
  status = "NotStabilising" =>
    \A o \in Observer : \A h \in HandlersOf(o) :
      obsState[o] = "InUse" /\ createdAt[h] < stabilisation_num => UpToDate(h, Observing[o])

(***************************************************************************)
(* A handler given to Incr::on_update, once it has been called, is kept    *)
(* informed in the same way, of the node being unnecessary too.            *)
(***************************************************************************)
NodeHandlersStayInformed ==
  status = "NotStabilising" =>
    \A n \in Node : \A h \in HandlersOf(n) :
      previous[h] # "NeverBeenUpdated" => UpToDate(h, n)

(***************************************************************************)
(* Neither panic of the handlers' code is reached: "Observer subscription  *)
(* got NodeUpdate::Unnecessary", and run_all on an observer that is not in *)
(* use.                                                                    *)
(***************************************************************************)
NoHandlerPanics ==
  /\ \A h \in Handler : owner[h] \in Observer => previous[h] # "Unnecessary"
  /\ pass.owner \in Observer => obsState[pass.owner] \in {"InUse", "Disallowed"}

(***************************************************************************)
(* num_on_update_handlers, which is kept incrementally by six functions,   *)
(* is never below the number of handlers that stabilise would call for the *)
(* node: below it, changes would be missed.                                *)
(***************************************************************************)
CountCoversHandlers ==
  \A n \in Node :
    num_on_update_handlers[n] >=
      Cardinality(HandlersOf(n) \union UNION {HandlersOf(o) : o \in Observers(n)})

(***************************************************************************)
(* A handler is called only while it is registered and its observer in     *)
(* use: not after it was unsubscribed, and not after an earlier handler of *)
(* the same observer has disallowed it.                                    *)
(***************************************************************************)
SilentOnceDropped ==
  [][\A h \in Handler :
       caller' = h /\ caller # h =>
         h \in registered /\ (owner[h] \in Observer => obsState[owner[h]] = "InUse")]_vars
=============================================================================
