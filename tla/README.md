# A verification development for `incremental`

`incremental` (Rust, after Jane Street's Incremental) is a library for
self-adjusting computations. A program builds a graph of nodes from variables
(`Var`) through `map`, `map2`, `fold`, `bind`, ..., observes some of them, sets
variables and calls `stabilise`, which recomputes exactly what is out of date.
The library is single-threaded, but user closures run in the middle of
`stabilise` and may call back into it, so its hard behaviours are of order and
re-entrancy: which node runs before which, what a call made in a closure does to
bookkeeping that is half done, and whether lazily kept counts, bounds and flags
still say what their readers take them to say.

## 1. The system

| Component | State | Operations | Interacts with |
|---|---|---|---|
| Propagation engine (`state.rs`, `node.rs`) | status, stabilisation number; per node value, `recomputed_at`, `changed_at` | `stabilise`, `recompute_one`, `maybe_change_value`, `child_changed` | takes nodes from the recompute heap, calls user closures, pushes update handlers |
| Variables (`var.rs`) | value, `set_at`, value set during stabilisation | `set`, `update`, `modify`, `replace_with`, drop | queue their watch node; delayed to the end of `stabilise` when called in it |
| Observers, necessity (`internal_observer.rs`, `state.rs`, `node.rs`) | observer state, lists of new and disallowed observers, parents | `observe`, `disallow_future_use`, `became_necessary`, `became_unnecessary` | link and unlink subgraphs at the start of `stabilise` |
| Recompute heap (`recompute_heap.rs`) | a queue per height, a lower bound, a length; per node the height it was queued at | `insert`, `remove`, `remove_min`, `min_height`, `increase_height`, `set_max_height_allowed`, `clear` | shares the height limit with the adjust-heights heap |
| Update handlers (`node_update.rs`, `internal_observer.rs`, `node.rs`, `state.rs`) | handler tables, `num_on_update_handlers`, `handle_after_stabilisation`, what each handler was last told | `subscribe`, `unsubscribe`, `on_update`, the end of `stabilise` | closures called last in `stabilise`, which may call everything but `stabilise` |
| Links and Expert nodes (`node.rs`, `kind/expert.rs`) | parents, two index arrays per node | add, remove, swap children, `make_stale` | necessity, heights |
| Adjust-heights heap (`adjust_heights_heap.rs`) | a queue per height, greatest height seen | `ensure_height_requirement`, `adjust_heights` | raises nodes in the recompute heap |
| Binds, scopes, invalidation (`kind/bind.rs`, `scope.rs`, `node.rs`) | nodes created on the right side, validity | `BindLhsChange`, `BindMain`, `invalidate_node`, `propagate_invalidity` | change the graph while it is recomputed |
| Dead variables (`public.rs`, `var.rs`, `state.rs`) | `dead_vars`, `dead_vars_alt`, the cycle of a variable and its watch node | `Drop` for `Var`, `break_rc_cycle`, end of `stabilise`, `Drop` for `State` | reference counts; delayed sets |
| Weak maps, memoisation | weak tables | end of `stabilise` | reference counts |
| `incremental-map` | the last input and output of each operator | symmetric diff and fold, `filter_mapi`, `mapi`, `unordered_fold`, ... | built on Expert nodes and `map_with_old` |
| Graphviz, statistics, macros, boxes | none that is read back | | |

What makes each correct:

* engine: every stale necessary node is scheduled, and no other; a node runs
  after everything it reads and once; when `stabilise` returns, necessary nodes
  agree with their children; it returns.
* variables: a set in a closure is seen by the next stabilisation and not by
  this one.
* recompute heap: it is a priority queue, whatever the callers do to heights and
  limit.
* handlers: every subscription hears of every change and of nothing else, none is
  called once dropped, the first call is an initialisation.
* links: both index arrays are inverses of each other and of the edges.
* heights: raised until every node is above its children and its bind; a cycle is
  noticed, and only a cycle.
* binds: the value is that of the right side made for the present input; what an
  old run made dies with it, with all that depends on it.
* dead variables: each is freed by the next `stabilise`, and none that can still be
  set.
* Expert nodes: queued whenever stale, told of every change of a dependency, and
  never computed on one that is gone.
* `incremental-map`: the output equals the operator applied to the whole input.

`PROJECT.json` lists the hazards at their lines.

## 2. The modules

    IncrGraph ---------- IncrementalAPI (abstract: what the crate promises)
        |                      ^  refinement
        +--------------- Propagation ------- PropagationProofs
                           MCPropagation, MCMapRef

    PriorityQueue (abstract) <-- refinement -- RecomputeHeap -- MCRecomputeHeap
    NodeHeights ------ RecomputeHeap, AdjustHeights -- HeapProofs
    Heights ---------- AdjustHeights -- MCAdjustHeights
        |
        +------------- Binds -- BindValues -- MCBinds
                         +----- BindsInvariant -- BindsProofs
    UpdateHandlers ----------- MCUpdateHandlers
    VarLifetimes                (MCVarLifetimes.cfg)
        UpdateHandlers, VarLifetimes -- UserObjectsProofs
    ParentLinks -------------- ParentLinksProofs, MCParentLinks
    ExpertNode --------------- ExpertNodeProofs, MCExpertNode
    SymmetricFold -- IncrMap, IncrMapi -- IncrementalMap -- IncrementalMapProofs
                                                            MCIncrementalMap

**`IncrGraph`** is the fixed part of a graph: nodes, kinds, children, heights,
user functions and cutoffs, all constants with named assumptions, and
`Cone(roots)`, the nodes that observers of `roots` keep necessary.

**`IncrementalAPI`** says what a user may rely on without saying how: variables,
observers, and a `stabilise` after which the observed nodes show one solution of
the graph's equations for the variables' values at its start.

**`Propagation`** is the engine. Its state is that of the code (`setAt` is
`Var.set_at`, `recomputedAt` is `Node.recomputed_at`, `heap` is the content of
the recompute heap, `direct` the parent that `recompute_one` returns to
`recompute`). One action is one call: `SetVar`, `SetVarDuringStabilisation`,
`Observe`, `DisallowFutureUse` are the user's calls; `StabiliseStart` is
`stabilise_start` with everything that `became_necessary` and
`became_unnecessary` do; `RecomputeMin` and `RecomputeDirect` are one run of
`recompute_one` each, with the whole of `maybe_change_value` and its propagation
to parents; `StabiliseEnd` and `HandlersDone` are the end. User calls are
possible between any two runs of `recompute_one`, which is where a closure makes
them.

**`RecomputeHeap`** has an action per function of `recompute_heap.rs`, and
`SetHeight` for the callers that change a node's height on their own.
`DebugAssertions` is the build's `cfg(debug_assertions)`. A call that panics is
not a step. **`PriorityQueue`** is what the engine takes the heap to be.

**`UpdateHandlers`** leaves the graph out (nodes change, gain and lose parents
and become invalid in any order while `stabilise` runs; a value is told apart by
the stabilisation that computed it) and models the handlers in full: the tables,
the count, the stack of nodes to handle, and the three nested loops at the end of
`stabilise` with one handler at a time, between whose call and return it can make
every call of the API. A call that would borrow the table being iterated panics
in the code and is not a step (`TableFree`).

**`ParentLinks`** is how a child knows its parents and a parent its place among
them, for `map2`, `fold`, `bind` and Expert nodes alike. Edges are values with an
owner and a child (two edges can have the same ends). `links` joins
`Node::parents` with the two vectors of `ParentChildIndices`; `stack` holds the
nested loops of `became_necessary` and `remove_children`, one turn of the
innermost being a step (`LinkChild`, `UnlinkChild`, `LoopEnds`), so the
invariants hold at every moment that a callee of these loops can see. The calls
that start them are `Observe`, `Unobserve`, `AddDependency`, `RemoveDependency`,
`ChangeChild` with `Unforce` (the two halves of `change_child_bind_rhs`, between
which the old right-hand side is forced to be necessary), and `InvalidateNode`.

**`ExpertNode`** is one Expert node with the pattern that its documentation
prescribes: a Map node, the driver, whose closure adds and removes dependencies,
makes the Expert node stale or invalidates it, one call per step between
`RunDriver` and `DriverReturns`. Other children run, are cut off or become
invalid around it (`RunChild`, `InvalidateInput`), and parents of the Expert node
come and go (`BecomeNecessary`, `BecomeUnnecessary`). `RunInvalid` and
`RunCompute` are `recompute_one` with the two outcomes of
`before_main_computation`. Where the edges sit is `ParentLinks`' matter.

**`SymmetricFold`** has the merge and the difference of sorted maps as functions
on sequences of keys, written along the code's iterators; `IsDiff` is what a
difference should be. **`IncrMap`** is a `map_with_old` node of
`incremental-map`: the inputs are set any number of times, `Run...` is one run of
the closure, `memory` what the closure keeps and `seen` what the node's parents
have read. **`IncrMapi`** is `incr_mapi_` and `incr_filter_mapi_`, a map taken
apart into a node for each key under an Expert node. It uses of Expert nodes what
`ExpertNode` establishes. The user's function may return a new node above its
argument or one that ignores it, new or made earlier (`Answers`); `prev_nodes`
holds the inner nodes weakly, so `Alive` says who else holds them, and the closure
panics when an upgrade fails (`OnUnequal`, `OnLeft`). `unheard`, a history
variable, has the keys whose node had its value when the result was made to depend
on it. Left out are a function that returns one node for two keys (its removal is
finding 2) or an invalid node, or that holds its argument without depending on it
all the time, and a user who observes the argument itself or drops the result while
observing a mapped node (section 4).
**`IncrementalMap`** puts a program with any one operator together and states the
properties; `Reference` and `MappedReference` are the operators without
increments.

**`Heights`** says what heights have to satisfy (`Respected`) and which are the
least ones that do (`LeastHeights`); `above` stands for the two ways in which
`adjust_heights` goes up from a node, to its parents and to what was created on
the right side of a bind. **`AdjustHeights`** is one call of `adjust_heights`, from
the edge that is not right (`Begin`) through the turns of the loop (`Visit`) to the
return or a panic. `above`, `child`, `parent` and `before` are the call's
arguments and do not change; `height`, `inHeap` and `lowerBound` are the fields
of the code, and `queuedAt` the node's place in the recompute heap, which the loop
keeps up to date. `EnsureHeightRequirements` is the body of both functions that the
loop calls. The graph is arbitrary, cyclic ones included.

**`Binds`** is the engine for nodes of the kinds Var, Map, BindLhsChange and
BindMain, with a graph that grows and shrinks. Its variables are the fields of `Node`
and `BindNode`; `created` is `all_nodes_created_on_rhs`, in order. The functions that
link, unlink, raise and invalidate are mutually recursive in the code; here each call
is a step, and `calls` is the stack of the calls that are still to be made, each a
function, the node it is a method of, and a node it is given. `ForChildren` and
`DoEach` are the loops: they put a call for each turn on the stack. So the invariants
hold at every moment that a callee sees, and a turn of `stabilise` (`Recompute`)
begins and ends with an empty stack. A closure is an entry of
`Program`: what it builds and returns for each value (`Build`, `Result`); nodes it makes
come from `Fresh` and return there when nothing strong holds them any more
(`NotHeld`, `Drop`), which leaves a dead weak reference behind. `adjust_heights`
appears by its result, `LeastHeights`, which is what `AdjustHeights` is about. A panic
of the code sets `panicked`, after which nothing happens, and `NoPanic` says that it
stays FALSE. **`BindValues`** adds what the user meant, the value of each node from
the variables alone (`Meaning`), with the one recursive operator of the project.

**`VarLifetimes`** is about who holds a variable. Values are told apart by the
variable whose handle they hold, if any; a variable's value, its delayed value and
its node's copy can each hold one. `Handled` is the set of variables with a
`public::Var` somewhere, and `DropLast` is `Drop for Var` for all those that lose
their last handle in one step. The user sets, drops, takes handles out of values
and stabilises in any order, from closures and handlers too (`UserRuns`); the
loops of `stabilise_end` over `set_during_stabilisation` and `dead_vars` go one
variable at a time (`ApplySet`, `BreakCycle`), and `Destroy` is the end of the
`State`.

Each of these modules defines its type invariant, or takes it from the module it
extends: `TypeOK`, `AdjustTypeOK` in `AdjustHeights` and `VarsTypeOK` in `VarLifetimes`.
It is proved for each; the runs list the properties that say more. `AdjustHeights` and
`VarLifetimes` name their specifications `AdjustSpec` and `VarsSpec`, since each shares a
proof module with another component: the two heaps, which both work on the heights of
nodes (`NodeHeights`), and the two kinds of thing that a user holds and drops.

Definitions whose comment begins with "Fault" are wrong variants of the
definition below them. Nothing uses them; with one put in place of the
definition it varies, TLC finds the property named for it in `PROJECT.json`
violated.

### What is abstracted

* The order of nodes in one queue of the heap, of a node's parents, of the nodes
  to handle and of the handlers in a table: any order is possible in the models.
* In `Propagation`, values are elements of a set and closures are functions of
  their arguments. A `map_with_old` closure claims freely that its result
  changed, as long as it does not hide a difference.
* Chains of `map_ref` over `map_ref` (`MapRefAssumption`).
* In `IncrMap` the engine is only "a node that is stale may run"; in `IncrMapi`
  heights say that a node runs when nothing necessary below it is due. The
  difference iterator of `im_rc` is its own and is taken to be exact.
* Statistics, tracing and Graphviz output. Weak references dangle only in `Binds`,
  `IncrMapi` and `VarLifetimes`; in the other modules the user holds every node.
* In `Binds`, the order of nodes in one queue of the heap is free, but that of
  parents, created nodes and `propagate_invalidity` is the code's. Closures
  depend on their input alone.

## 3. The runs

| Run | Instance | Shows |
|---|---|---|
| `propagation` | 8 nodes of 6 kinds, 2 values, 2 observers, 2 stabilisations; 98 thousand states | the engine's invariants, that it implements `IncrementalAPI`, and that `stabilise` returns |
| `mapref_relinked` | `x -> map_ref -> map`, an observer on `x`, 4 stabilisations | finding 1 |
| `recompute_heap` | 2 nodes, heights 0 to 3, limit 2 with changes to 2 and 4; 58 thousand states | the heap is a priority queue |
| `update_handlers` | 1 node, 2 observers, 2 handlers, 3 stabilisations; 634 thousand states up to symmetry | handlers hear of what they should |
| `parent_links` | 5 nodes and 8 edges: a node that uses a child twice, a bind with two right-hand sides, an Expert node; 88 thousand states | links are those of the necessary nodes, and their indices never dangle |
| `duplicate_edges` | the same | finding 2 |
| `expert_node` | 2 children and the driver, 3 stabilisations; 1.3 million states up to symmetry | the Expert node is queued when stale, hears of changes, and never computes on an invalid or missing value |
| `incremental_map` | 2 keys, 2 values, every operator and every answer of the user's function; 452 thousand states | outputs patched from differences are the operators' outputs; which keys `incr_filter_mapi_` may lack, and when its closure may panic |
| `adjust_heights` | every graph of 4 nodes, heights 0 to 2 at the call, limit 4; 123 thousand states | heights end right, least and known to the recompute heap; cycles are noticed; the call ends |
| `binds` | 9 nodes of the user and 6 for closures, two binds in a chain, one with a bind in it, 3 stabilisations; 267 thousand states | values are those of a program without increments, no node becomes invalid too soon, old right sides die, heights are right whenever no call is under way, nothing panics, `stabilise` returns |
| `scope_stabilised` | the same | finding 3 |
| `var_lifetimes` | 3 variables, any number of calls and stabilisations; 158 thousand states | variables are freed, in time and not too early |

Why the bounds are enough. The graph of `propagation` has two paths of different
length from `x` to `top` (so that a wrong order shows), a parent that uses a child
twice, a constant, a fold whose value stays the same when one input changes (so
that a cutoff acts), a `map_ref`, and a node that is recomputed directly while
another waits.
Two stabilisations give a set before, during, between and after one, and an
observer dropped and another made in between; longer runs, and other graphs, are
what the proofs are for. `mapref_relinked` has four stabilisations, which a stale
`did_change` needs: link and change, cut off, unlink, link again. In the
heap two nodes are enough for one to hide or displace the other, and the limits
reach below, at and above the heights in use. In `UpdateHandlers` two handlers
are enough for one to drop the observer of the other while it is being iterated,
and three stabilisations for a handler to be told, not told, and told again;
handlers and the observers of one node are interchangeable, so the runs use their
symmetry. `MaxCount` bounds only how often a token can be unsubscribed again.
`MCRecomputeHeap.cfg` does not check deadlock: after `Clear` the heap is gone.
Nor do `MCAdjustHeights.cfg`, where a call ends, and `MCVarLifetimes.cfg`, where a
program may drop everything after the `State` is gone.

In `parent_links` a removal can move an entry of another parent and one of the
same parent, an Expert edge can be the last one, the only one or in the middle,
and the bind's old right-hand side can be needed by the new one, by an observer,
or by nobody. Deadlock is not checked there: a program that panicked stops.

In `expert_node`, `MaxInvalid` bounds the count of invalid children, which the
code only ever raises while the node is necessary (see below): at the bound the
driver adds and removes no invalid child, though it could. Two children are
enough for one to be added, removed or lost while the other changes, and three
stabilisations for the node to be linked, dropped and linked again.

In `incremental_map` two keys give a difference with an element before, after and
beside every other, at the end of either map and in its middle; two values make a
change distinct from a removal and an addition, and the closures used keep,
change and drop values and tell the keys apart. The user's function may answer
anything for either key (`Answers <- AnyAnswer`), and one of the two mapped nodes can
have an observer of its own (`KeepsMapped = {1}`), so that both kinds of key occur side
by side; the proofs are for any `KeepsMapped`. After a panic nothing happens. There is no
bound on the number of steps: the state space is finite.

In `adjust_heights` four nodes and every graph on them include a node reached by a
short and a long path, raised twice before it is visited, a cycle that closes
after several visits, and heights that exceed the limit. A node's place in the
recompute heap affects no other node, so all nodes begin queued or none does.

In `binds` the instance (described in `MCBinds`) has a bind whose input is the
main node of another, a right side made by a nested bind, one that belongs to
another bind's scope, one that exists already and one that is higher than the
bind was; either bind is at times necessary through the other only, or not
at all while its input changes. `MaxStabilisations` bounds the stabilisations:
three, for a right side to be made, replaced, and replaced again or unlinked and
linked. Six nodes are more than can be held at once.

In `var_lifetimes` three variables give a handle in a value in a value and a
variable with handles in two others. Nothing else is bounded.

Fairness: `FairSpec` is weak fairness of the steps of `stabilise` itself, and
nothing more. `stabilise` is a plain call on one thread; once it has started, the
next thing to happen is its next step, provided that the closures it calls
return. User calls, and the call of `stabilise`, are never assumed to happen.
`AdjustHeights` is a single call, with weak fairness of its steps.
`Binds` states the same of `Recompute`, `Proceed` and `StabiliseEnd` in the form
`[]<>~stabilising \/ []<><<stabilising>>_vars`: in each state of a stabilisation
they are the only steps and one of them is enabled (deadlock is checked), so this
is weak fairness of the three; written with `WF_vars`, TLC would evaluate the whole
of `Recompute` once more in each state for ENABLED.

## 4. Findings

1. **A `map_ref` that is observed again can hide a change.** (`mapref_relinked`)
   Its `did_change` is set by `child_changed`, which runs only while it is linked
   to its child; it is not reset when it becomes necessary again.
2. **A dependency on a repeated child cannot be removed.** (`duplicate_edges`)
   `expert_swap_children_except_in_kind` borrows the child's indices twice.
3. **Direct recomputation does not wait for the scope.** (`scope_stabilised`)
   `node.rs:801-820` lets a node be recomputed ahead of the heap when its child is
   higher than the node's scope, taking this for "the scope has already
   stabilised". A chain of direct recomputations climbs past a bind whose own input
   is still queued. Then the closures of a right side that is about to be replaced
   run once more, on a combination of values for which they were not made; a main
   node runs twice in one stabilisation; a closure of a bind above it is called with
   an outdated value first; and the second time, a build with debug assertions can
   stop at `needs_to_be_computed` (`node.rs:1756`). The values observers read afterwards
   are right all the same (`RightValues`), but a node can become invalid that should
   live. In the graph of `binds`, `x` and `y` are set together: the direct chain from
   `x` changes `m1` through its old right side, the closure of `m2` takes that right
   side, then the bind of `m1` runs and invalidates it, and `m1`, run again on its new
   one, has the value it had a moment before; so `m2`'s closure does not run again, and
   `m2` and `t` become invalid. In the order of heights `m1` changes once, after its bind
   has run, and `m2` takes the right side that lives. `RightValues` allows this (the closure had its
   turn in that stabilisation); with "the input did not change in it" in its place
   TLC finds the trace.

Seen while modelling, and not the subject of a run:

* `set_max_height_allowed` makes as many queues as the new limit, one fewer than
  the constructors do, in both heaps (`recompute_heap.rs:203`,
  `adjust_heights_heap.rs:48`). Its guard allows the greatest height seen, for which
  there is then no queue, and the assertion at `adjust_heights_heap.rs:174` fails.
  Hence `RoomySpec`.
* `on_change` is not called for a dependency that has its value already: the end of
  `add_parent_without_adjusting_heights` (`node.rs:1367`) asks the kind of the child,
  not of the parent, so the Expert node computes before its closure knows the value,
  where the documentation (`kind/expert.rs:341`) says it is called. A function given to
  `incr_mapi_` that returns a node computed earlier gives a result without that key,
  until the node changes or the result is observed anew. `ResultIsMapped` says just
  this: what is missing is `unheard`, and nothing else.
* `prev_nodes` of `incr_filter_mapi_` holds the inner nodes weakly. If the user's
  function returns an `Incr` that does not hold its argument (a constant for the keys
  it filters out, say), the inner node is freed at the end of the closure, and the
  next change of that key panics at `btree_map.rs:184` (through `kind/expert.rs:381`),
  its removal at `btree_map.rs:191`; in `im_rc.rs` at lines 511 and 518. The model
  panics there too, and TLC reaches it. `NodesMatchMap` says
  that this is the only way to panic.
* The closure also unwraps `result_weak`: with the result dropped and a mapped node
  still observed, the next key to be added or removed panics (`btree_map.rs:192`,
  `:215`). In `IncrMapi` the user keeps the result.
* `decr_invalid_children` (`kind/expert.rs:119`) increments, so an Expert node becomes
  invalid because of a dependency that it no longer has.
* `adjust_heights` unwraps the weak references to all nodes created on a bind's right
  side (`node.rs:918`). If the closure made a node that it did not keep, it panics when
  the bind's lhs-change node is raised before it runs again. `Binds` has this panic;
  the program of its run drops a node only where the bind is not raised afterwards.
  `scope.rs` unwraps a weak reference to the bind in the same way.
* `is_stable` looks at neither `disallowed_observers` nor the handlers that wait, so
  it can be true when `stabilise` would still unlink nodes. `StableMeansCurrent` says
  what remains: necessary nodes agree with their children.
* `Var::set` unwraps the weak reference to the `State`, also after it is gone.
* `InternalObserver::unsubscribe` increments `num_on_update_handlers`, so the
  count never comes down again and the node is handled after every change, for
  nobody (`CountCoversHandlers` holds, equality would not).
* A subscription can be called with `Changed` and the value it had already, when
  another subscription or observer was added to the node (`node_update.rs:115`).
  The project's `README.md:72` says of such a stabilisation that the subscription
  is not called, and the comment at `node_update.rs:103` that "there is no new
  information to provide".
* `Incr::on_update` (`incr.rs:404`) does not have its node handled, so a handler
  given to a node with a value is first called when the node changes; the comment
  at `node_update.rs:96` says that such a node "was pushed on
  [state.handle_after_stabilization]", which only `try_subscribe` does.
* A handler that subscribes to or unsubscribes from its own observer panics on
  the borrowed table; `State::unsubscribe` does nothing for an observer that was
  not yet in a stabilisation.
* The same test in `add_parent_without_adjusting_heights` runs an edge callback
  of a child that is itself an Expert node, with an index among its parents.
* `incr_merge` of two empty maps reports no change in its first run, so an
  `on_change` closure on it is not called either.
* `ClosureFold::add` and `remove` discard what was set with `update`, `initial` and
  `revert_to_init_when_empty`.

## 5. The proofs

For every graph, value type, user function and cutoff that satisfy the
assumptions of `IncrGraph`, and with no bound on the number of stabilisations
that matters, `PropagationProofs` proves the invariants that the run
`propagation` checks, and the refinement of `IncrementalAPI`. `ScheduledExactly` is
`StaleIsScheduled` and `OnlyStaleScheduled` together.

`RunsOnce`, `BelowSettled` and `GlitchFree` are not inductive. The inductive
invariant `IInv` joins the type, `StaleIsScheduled`, `OnlyStaleScheduled`,
`BelowSettled` and four facts: the stamps are not ahead of the clock, and only
nodes recomputed by the present stabilisation carry its number (`Clock`, from
which `RunsOnce` follows: what has run is not stale again until the number goes
up); between stabilisations only variables wait (`Quiet`); what was recomputed
has a value (`HasValue`, for `InputsReady`); and what is not stale agrees with
its inputs (`UpToDate`, for `GlitchFree`). `BelowSettled` is where the order of
heights is used: a node taken from the heap is the lowest, so nothing below it is
in the heap, and a node run directly either has only the child that has just run,
below which everything is settled, or is no higher than the heap's minimum.
Its first lemmas prove what
this needs of `Below` and `Cone` from the heights (no induction over data: `Below`
is defined as the least closed set). The refinement needs exact cutoffs and no
`map_ref` among the children, its assumption `ExactInputs`; without it finding 1
is a counterexample.

The first part of `HeapProofs` proves for every number of nodes and heights that the
lower bound is one, that queues, recorded heights and length agree, and that the
heap implements `PriorityQueue`, for programs that keep the argument of
`set_max_height_allowed` above every height seen (`RoomySpec`). Its invariant adds
that heights in use were seen and that there is a queue for each height seen,
which is why shrinking drops only empty queues.

`ParentLinksProofs` states what `AddParent`, `RemoveParent` and `SwapChildren` do
to links that agree with the edges: they still agree, and which edges are linked
changes for the one edge alone. The second half of the module lifts
this to the specification. `LinkedWhenNecessary` says nothing in the middle of a call, so its
invariant `IInv` says what each loop on the stack has done (`FrameOK`: the
children before `next` are linked and the others are not, or the reverse), that
the loops are all of one kind and of different nodes (the graph being acyclic is
not needed: a node already visited is necessary, or is not, and is not entered
again), and that every node without a loop is as it should be (`RestOK`). From it
follow `LinksAgree` and `EdgeIndicesAgree`, at every step, and
`LinkedWhenNecessary`, for any nodes, edges and number of children.

`ExpertNodeProofs` proves the run's four invariants and `ComputesOnValues`, for
any number of children and with no use of the bounds on stabilisations. That an
Expert node never computes on an invalid dependency rests on the count of invalid
children, which is kept only while the node is necessary. `IInv` therefore adds
that an invalid dependency of a valid node makes it stale (`InvalidIsStale`), so
that becoming necessary queues the node when it counts them afresh; that the node
is queued only while it is linked, and when it is not necessary all its closures
are to be called again (`QueueAndReset`); that once it has run its dependencies
are settled for this stabilisation (`Settled`); and that an input which is not due
has been computed (`InputsComputed`).

The second part of `HeapProofs` proves the three safety properties of the run
`adjust_heights` for any graph,
any heights and any limit. The argument is the one of the code's comment: nodes
leave the heap in increasing order of the height they had at the call. `AdjustIInv`
says that what is raised is in the heap with its old height, or was visited and
had no greater one (`HeapOrder`); since all edges but the new one rise in the old
heights (`EdgesRise`), a visited node asks only nodes that are still to be
visited, so none is raised afterwards (`RespectedByVisited`), each raised node is
just above one that is final (`RaisedForCause`), and every raised node is above the
new parent (`RaisedAboveParent`), which is why reaching the child is a cycle and a
cycle must reach it. `CycleNoticed` uses `AllAbove`, the transitive closure stated
as a least closed set, with no induction.

The second part of `UserObjectsProofs` proves the three properties of the run
`var_lifetimes` for any number of variables
nested to any depth. Its invariant says that a variable which has lost
its handles never gets one again (`Gone`) and that every such variable is in
`dead_vars`, in `dead_vars_alt` or broken (`Listed`). `MovesShrink` is the common
reason: a step hands on only handles that are reachable already. `FreedAtOnce` is
the case without a `State`, where a handle's drop frees a whole chain in one step.
`FreedByStabilise` also needs that types nest (`Nested`): the least of the variables
left over would have to be held by a lesser one.

The first part of `UserObjectsProofs` proves all that the run `update_handlers` checks, for any
number of nodes, observers and handlers and without use of the bounds. That the
count of handlers suffices is inductive with the types: `unsubscribe` and
`disallow_future_use` never make it too small. `SubscribersAreTold` alone is not: it
says nothing while `stabilise` runs, and what was told matters before it is read.
`Informed` says of each handler that has to be told (`Owed`) that it knows what
there is to know, or that the loops will come to it (`Awaiting`: its node is still
to be handled, or the loop is at its node and has its table or itself ahead), or, if
it was made or its node changed after the loops' list was taken, that its node is in
`handle_after_stabilisation`. `LoopsAgree` says that the loops run on a graph that no
longer changes, and `ToldTruly` that "invalidated" was only said of invalid nodes,
which with `LoopsAgree` excludes both panics of `really_run_downcast`.

`IncrementalMapProofs` proves all that the run `incremental_map` checks, for any
finite set of keys, any values and any closures. Its parts:

* The iterators. `merge_once`, `merge_once_with` and the owned difference are
  recursions over two positions; each turn takes the least key that is left on
  either side (`TurnTakesLeast`), so each yields the keys in order and once
  (`YieldsAll`). With the comparison of values this is `DiffsOfAnyMaps`.
* The loops. For each operator's step, patching with an element of the difference
  changes the output at one key, from the entry that the operator has for the old
  input to the one for the new (`PatchOne`); over all elements, that is the
  operator's output for the new input (`PatchAll`), the other keys being the same in
  both. This covers the difference between `fold`, whose `update` removes and adds,
  and `incr_partition`, with its own `update`.
* The nodes. `MapInv` says that a node's value is its operator's output for the
  inputs it remembers and that its parents have read it, although it reports a
  change only when the difference is not empty. `DiffsAreExact`, `OutputIsOperator`
  and `OnlyChangedKeysVisited` follow.
* `incr_filter_mapi_`. `ResultIsMapped` holds only in quiet states. `MapiInv` says of
  every state that each thing not due is right: an inner node has its key's value
  in `prev_map`, a mapped node the function's, the accumulated map the mapped nodes'
  but for those in `unheard`, of which it has nothing (unless all callbacks are about
  to be called, as they are whenever the result was not observed), the result the
  accumulated map. In the middle of `lhs_change` the nodes are those of a map that is
  half old and half new, or the closure has panicked, for which the nodes at its start
  have the reason (`Partway`, `LetGo`). The function of the user is any (`Answers`). It
  assumes that a node without a value can be told from one with a value
  (`NoValueAssumption`). `WholeMapWhenNodesAreAbove` is what remains for a program
  like `benches/shares_per_symbol.rs`, whose function returns nothing but new nodes
  above its argument: no panic, and no key is missing.

These need induction over the length of a sequence. The induction theorems of the
library take an operator as a parameter, which the provers cannot instantiate;
`Induction` has a set in its place, and follows from the least element of a set of
numbers. `FoldLeft` is unfolded to its recursion over sets of indices (`FoldExists`,
`LoopOf`), once for each operator that is folded with. `NodeUpdate` and `OnLeft`,
`OnRight` and the difference of maps are written so that the provers can read them:
exclusive cases, records given field by field, a fold in place of `SelectSeq`.

`BindsInvariant` and `BindsProofs` prove of `Binds` the types, `OldRunsDead` and `HeightsRight`, for
any graph at the top, any closures of the program's forms, nested to any depth, and any
number of nodes. The difficulty is that the property is of states in which no call
is under way, and that one turn of `stabilise` can link, unlink and invalidate
any part of the graph, with functions that call one another. The invariant `Inv` says
what holds in between, in terms of the calls still on the stack:

* `Validity`: a valid node that a closure made is held by its bind's main node and was
  made by the last run, or its invalidation is on the stack.
* `Links`: valid necessary nodes are exactly the parents of their children, but for
  the links that `add_parent` is still to make and `remove_parent` to undo.
* `Told`: a necessary valid node with an invalid child is in `propagate_invalidity`,
  or a call on the stack will put it there, or it is a main node that waits in the
  heap; `Covered` says that the loop that empties the list is still to come.
* `Stack`: the order of the calls on the stack, which no call breaks (`Before`). Links
  are made from the node that became necessary downwards, and so are nodes
  invalidated, and neither happens in the middle of the other.
* `Ranked`: the graph has no cycle, through children or scopes. The proof that a loop
  does not meet the node it works on goes down the graph, and heights cannot serve
  for that, since they are not right while links are made and undone. `Inv` therefore
  has a rank for each node that goes up along every child and every scope. It stays as
  it is while a node exists; when a closure has run there is a new one, with room for
  the new nodes between the bind's two nodes (`\E rank`, in `IInv`).
* `Graph`, `CallsTyped`, `Observers`, `Times` and `Heap`: the children of each kind of
  node; what functions are called with; who is observed or forced; no stamp is ahead
  of the clock; what is queued is valid and necessary, and after `stabilise` nothing
  is queued but variables.

`HeightsRight` is of states without calls as well, and heights are set in the middle
of calls: `became_necessary` places a node above its children only when all of them
are linked, `became_unnecessary` sets -1 and `invalidate_node` a height just above the
scope, while parents may still be linked. `HighInv` joins to `Inv` what is true then:

* `High`: a link goes up, unless its parent is still to be placed, the link is about to
  be removed, or `adjust_heights` is about to be called for it; a necessary node that is
  valid, or of the last run of a valid bind, is higher than its scope.
* `Opening` and `Lined`: what is linked but not placed is above what was placed, nothing
  in a bind's scope is necessary before its lhs-change node has its place, and a node
  is linked to its children in order. So no node is placed too low for what is above
  it, whose own call of `place` comes later.
* `Turning`: from the run of a closure to `adjust_heights`, only the main node may be
  too low, which is what `adjust_heights` assumes. It raises only nodes of the main
  node's rank or more, and all that is about to be invalidated or was told of invalid
  nodes is of that rank or less. So a scope that is raised is valid and the node in it
  is of its last run, and `adjust_heights` raises the node with it.
* `Uses`, `Ended` and `Fates`: where a closure's nodes can be used; what is marked is
  still valid; an lhs-change node becomes invalid after its input or with its main node.

`HighInv` shares the rank of `Inv`, so the two are inductive together (`HInv`); `Inv` is
alone (`IInv`), which says that no node lives or dies by its height.

After a panic nothing is said. `BindsInvariant` has the steps that link, unlink,
invalidate and drop nodes and the run of a closure, `BindsProofs` the rest of the steps,
the heights and the theorems.
`LeastHeightsCorrect` is a fact about the operator by which `Binds` stands for
`adjust_heights`: over any graph without a cycle it exists, respects the graph, is
nowhere below the heights before, and is the least that does and is.

Before they were proved, the inductive invariants of the last three components were
checked as invariants of the runs' instances.

Only model-checked: liveness (`StabiliseReturns`, `AdjustReturns`), which needs
fairness; what nodes above a `map_ref` have read, which `ExactInputs` leaves out; and
of `Binds` two invariants. `NoPanic` is not true of every program (the panics of
section 4), so it is a property of the run's. `RightValues` compares values with
`Meaning`, which is recursive; it has two mutants, one for values and one for nodes
that become invalid too soon.

## 6. Not modelled, and what could come next

* Weak maps and memoisation: what a table of weak references returns depends on
  which nodes are alive, and nothing but memory depends on it.
* Graphviz output, `Debug`, statistics; macros, boxes and the `NotObserver` marker: no
  state that is read back.
* In `Binds`: `Scope::within` called by user code, Expert nodes and observers made in a
  bind's closure, variables made or set there, closures that panic.
* In `incremental-map`: the difference iterator of `im_rc`, which is a library, the
  `_cutoff` variants, and `symmetric_fold_with_inverse`, which nothing uses.
* `State::unsubscribe` finds the observer in `all_observers` and does nothing for one
  that is not there yet; otherwise it is `Observer::unsubscribe`.

Next would be `Binds` with Expert nodes in a scope, which are invalidated like its
other nodes but keep counts and callbacks of their own.
