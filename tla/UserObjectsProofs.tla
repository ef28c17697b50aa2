-------------------------- MODULE UserObjectsProofs --------------------------
(***************************************************************************)
(* Proofs about what the user holds: update handlers and variables.        *)
(*                                                                         *)
(* UpdateHandlers, for any number of nodes, observers and handlers, and    *)
(* with no use of the bounds.                                              *)
(*                                                                         *)
(* VarLifetimes, for any number of variables nested to any depth.  The     *)
(* argument: a variable whose last handle has been dropped never gets      *)
(* another one, and is at that moment put in dead_vars or has its cycle    *)
(* broken; so the variables without a handle are exactly those in Out, and *)
(* only they can lose their watch node.                                    *)
(***************************************************************************)
EXTENDS UpdateHandlers, VarLifetimes, FiniteSetTheorems, WellFoundedInduction, TLAPS

(***************************************************************************)
(* The inductive invariant.                                                *)
(***************************************************************************)

\* The node that h is about.
NodeOf(h) == IF owner[h] \in Observer THEN Observing[owner[h]] ELSE owner[h]

\* Everything that stabilise would call for n, if all of it is in use.
Covered(n) == HandlersOf(n) \union UNION {HandlersOf(o) : o \in Observers(n)}

\* The number of the stabilisation is known, and what is not registered is fresh.
Clock ==
  /\ status = "Stabilising" => stabilisation_num < MaxStabilisations
  /\ \A h \in Handler : createdAt[h] <= stabilisation_num
  /\ \A h \in Handler : previous[h] # "NeverBeenUpdated" => createdAt[h] < stabilisation_num
  /\ \A h \in Handler : owner[h] = Nobody => h \notin registered /\ previous[h] = "NeverBeenUpdated"

\* What the loops at the end of stabilise have before them is right: they run on a graph
\* and on sets of observers that do not change meanwhile.
LoopsAgree ==
  /\ status # "RunningOnUpdateHandlers" => pass = Idle /\ runQueue = {} /\ caller = Nobody
  /\ status = "RunningOnUpdateHandlers" =>
       \A n \in Node : valid[n] /\ Necessary(n) => value[n] # 0
  /\ \A e \in runQueue : e.update = NodeUpdate(e.node)
  /\ pass.node = Nobody => pass = Idle
  /\ pass.node # Nobody =>
       /\ pass.update = NodeUpdate(pass.node)
       /\ pass.owner = pass.node \/ pass.owner \in Observers(pass.node)
       /\ pass.owners \subseteq Observers(pass.node)
       /\ pass.left \subseteq HandlersOf(pass.owner)

\* A handler that was told that its node is invalid was told the truth, and one of an
\* observer is never told that its node is unnecessary.
ToldTruly ==
  \A h \in Handler : owner[h] # Nobody =>
    /\ previous[h] = "Invalidated" => ~valid[NodeOf(h)]
    /\ owner[h] \in Observer => previous[h] # "Unnecessary"

\* The handlers that have to be kept informed.
Owed(h) ==
  /\ h \in registered
  /\ \/ owner[h] \in Node /\ previous[h] # "NeverBeenUpdated"
     \/ owner[h] \in Observer /\ obsState[owner[h]] = "InUse"

\* The loops come to h.
Awaiting(h) ==
  \/ \E e \in runQueue : e.node = NodeOf(h)
  \/ pass.node = NodeOf(h) /\ (owner[h] \in pass.owners \/ (owner[h] = pass.owner /\ h \in pass.left))

\* A handler knows what there is to know, or will be told: in this stabilisation or,
\* if it was made after the graph was computed, in the next.
KnowsOrWill(h) ==
  /\ status # "Stabilising" /\ createdAt[h] < stabilisation_num =>
       UpToDate(h, NodeOf(h)) \/ Awaiting(h)
  /\ status = "Stabilising" \/ createdAt[h] = stabilisation_num =>
       UpToDate(h, NodeOf(h)) \/ NodeOf(h) \in handleAfter

Informed == \A h \in Handler : Owed(h) => KnowsOrWill(h)

IInv ==
  /\ TypeOK
  /\ Clock
  /\ CountCoversHandlers
  /\ LoopsAgree
  /\ ToldTruly
  /\ Informed

-----------------------------------------------------------------------------
(***************************************************************************)
(* Sets of handlers.                                                       *)
(***************************************************************************)

\* A set of handlers has a size, which is 0 for the empty set alone.
LEMMA HandlersHaveSize ==
  ASSUME NEW S \in SUBSET Handler
  PROVE  IsFiniteSet(S) /\ Cardinality(S) \in Nat /\ (Cardinality(S) > 0 <=> S # {})
<1>1. IsFiniteSet(S)
  BY FS_Subset, HandlersAssumption
<1>2. Cardinality(S) \in Nat /\ (Cardinality(S) = 0 <=> S = {})
  BY <1>1, FS_CardinalityType, FS_EmptySet
<1> QED BY <1>1, <1>2

\* One set in another is no larger.
LEMMA SmallerSet ==
  ASSUME NEW S \in SUBSET Handler, NEW T \in SUBSET S
  PROVE  Cardinality(T) <= Cardinality(S)
BY HandlersHaveSize, FS_Subset

\* With one handler more, a set is larger by one at most.
LEMMA OneMore ==
  ASSUME NEW S \in SUBSET Handler, NEW h \in Handler, NEW T \in SUBSET (S \union {h})
  PROVE  Cardinality(T) <= Cardinality(S) + 1
<1>1. IsFiniteSet(S) /\ Cardinality(S) \in Nat
  BY HandlersHaveSize
<1>2. Cardinality(S \union {h}) = IF h \in S THEN Cardinality(S) ELSE Cardinality(S) + 1
  BY <1>1, FS_AddElement, Zenon
<1>3. Cardinality(T) <= Cardinality(S \union {h}) /\ S \union {h} \in SUBSET Handler
  BY SmallerSet
<1>4. Cardinality(T) \in Nat /\ Cardinality(S \union {h}) \in Nat
  BY <1>3, HandlersHaveSize
<1> QED BY <1>1, <1>2, <1>3, <1>4

\* The size of two disjoint sets together.
LEMMA DisjointSizes ==
  ASSUME NEW S \in SUBSET Handler, NEW T \in SUBSET Handler, S \intersect T = {}
  PROVE  Cardinality(S \union T) = Cardinality(S) + Cardinality(T)
<1>1. /\ IsFiniteSet(S) /\ Cardinality(S) \in Nat
      /\ IsFiniteSet(T) /\ Cardinality(T) \in Nat
  BY HandlersHaveSize
<1>2. Cardinality(S \union T) = Cardinality(S) + Cardinality(T) - Cardinality(S \intersect T)
  BY <1>1, FS_Union
<1>3. Cardinality(S \intersect T) = 0
  BY FS_EmptySet
<1> QED BY <1>1, <1>2, <1>3

\* Covered(n) is a set of handlers, and CountCoversHandlers is about its size.
LEMMA CountIsEnough ==
  ASSUME TypeOK
  PROVE  /\ \A n \in Node : Covered(n) \in SUBSET Handler
         /\ CountCoversHandlers
              <=> \A n \in Node : num_on_update_handlers[n] >= Cardinality(Covered(n))
BY DEF TypeOK, Covered, HandlersOf, CountCoversHandlers

\* A node with a handler is looked at.
LEMMA SomeoneIsCounted ==
  ASSUME TypeOK, CountCoversHandlers, NEW n \in Node, NEW h \in Covered(n)
  PROVE  num_on_update_handlers[n] > 0
<1>1. Covered(n) \in SUBSET Handler /\ num_on_update_handlers[n] >= Cardinality(Covered(n))
  BY CountIsEnough
<1>2. Cardinality(Covered(n)) \in Nat /\ Cardinality(Covered(n)) > 0
  BY <1>1, HandlersHaveSize
<1> QED BY <1>1, <1>2 DEF TypeOK

\* A handler that has to be kept informed is counted for its node.
LEMMA OwedIsCovered ==
  ASSUME TypeOK, NEW h \in Handler, Owed(h)
  PROVE  NodeOf(h) \in Node /\ h \in Covered(NodeOf(h))
BY HandlersAssumption DEF Owed, NodeOf, Covered, HandlersOf, Observers, ObserversIn, TypeOK

-----------------------------------------------------------------------------
(***************************************************************************)
(* Calls of the user.  None of them makes a node necessary or unnecessary. *)
(***************************************************************************)

\* LoopsAgree is about the graph, the observers of each node and the table that is
\* being iterated.
LEMMA LoopsKept ==
  ASSUME TypeOK, LoopsAgree, UNCHANGED <<status, graph, loop>>,
         \A n \in Node : Observers(n)' = Observers(n),
         pass.node # Nobody => HandlersOf(pass.owner) \subseteq HandlersOf(pass.owner)'
  PROVE  LoopsAgree'
<1>1. UNCHANGED <<status, value, valid, kept, pass, runQueue, caller>>
  BY DEF graph, loop
<1>2. \A n \in Node : (Necessary(n)' <=> Necessary(n)) /\ NodeUpdate(n)' = NodeUpdate(n)
  BY <1>1 DEF Necessary, NodeUpdate
<1>3. \A e \in runQueue : e.node \in Node
  BY DEF TypeOK
<1>4. pass.node # Nobody => pass.node \in Node
  BY DEF TypeOK
<1>5. status # "RunningOnUpdateHandlers" => pass = Idle /\ runQueue = {} /\ caller = Nobody
  BY DEF LoopsAgree
<1>6. status = "RunningOnUpdateHandlers" => \A n \in Node : valid[n] /\ Necessary(n) => value[n] # 0
  BY DEF LoopsAgree
<1>7. \A e \in runQueue : e.update = NodeUpdate(e.node)
  BY DEF LoopsAgree
<1>8. pass.node = Nobody => pass = Idle
  BY DEF LoopsAgree
<1>9. pass.node # Nobody =>
       /\ pass.update = NodeUpdate(pass.node)
       /\ pass.owner = pass.node \/ pass.owner \in Observers(pass.node)
       /\ pass.owners \subseteq Observers(pass.node)
       /\ pass.left \subseteq HandlersOf(pass.owner)
  BY DEF LoopsAgree
<1>10. (status # "RunningOnUpdateHandlers" => pass = Idle /\ runQueue = {} /\ caller = Nobody)'
  BY <1>1, <1>5 DEF Idle
<1>11. (status = "RunningOnUpdateHandlers" => \A n \in Node : valid[n] /\ Necessary(n) => value[n] # 0)'
  BY <1>1, <1>2, <1>6
<1>12. (\A e \in runQueue : e.update = NodeUpdate(e.node))'
  BY <1>1, <1>2, <1>3, <1>7
<1>13. (pass.node = Nobody => pass = Idle)'
  BY <1>1, <1>8 DEF Idle
<1>14. (pass.node # Nobody =>
       /\ pass.update = NodeUpdate(pass.node)
       /\ pass.owner = pass.node \/ pass.owner \in Observers(pass.node)
       /\ pass.owners \subseteq Observers(pass.node)
       /\ pass.left \subseteq HandlersOf(pass.owner))'
  BY <1>1, <1>2, <1>4, <1>9
<1> QED BY <1>10, <1>11, <1>12, <1>13, <1>14 DEF LoopsAgree

\* A change between states in which the observer is not in Node.observers, or in
\* which it is, changes no node's observers.
LEMMA ObserversKept ==
  ASSUME TypeOK, NEW o \in Observer, NEW s,
         obsState' = [obsState EXCEPT ![o] = s],
         obsState[o] \in {"InUse", "Disallowed"} <=> s \in {"InUse", "Disallowed"}
  PROVE  \A n \in Node : Observers(n)' = Observers(n)
BY DEF TypeOK, Observers, ObserversIn

\* In a call of the user, what a handler knows or will be told changes only when the
\* handler itself does.
LEMMA KnowsKept ==
  ASSUME TypeOK, UNCHANGED <<status, stabilisation_num, graph, loop>>,
         \A n \in Node : Observers(n)' = Observers(n),
         handleAfter \subseteq handleAfter',
         NEW h \in Handler, Owed(h), KnowsOrWill(h),
         owner'[h] = owner[h], createdAt'[h] = createdAt[h],
         previous'[h] = previous[h], shown'[h] = shown[h]
  PROVE  KnowsOrWill(h)'
<1>1. UNCHANGED <<status, stabilisation_num, value, valid, kept, pass, runQueue>>
  BY DEF graph, loop
<1>2. NodeOf(h)' = NodeOf(h) /\ NodeOf(h) \in Node
  BY OwedIsCovered DEF NodeOf
<1>3. UpToDate(h, NodeOf(h))' <=> UpToDate(h, NodeOf(h))
  BY <1>1, <1>2 DEF UpToDate, Necessary
<1>4. Awaiting(h)' <=> Awaiting(h)
  BY <1>1, <1>2 DEF Awaiting
<1> QED BY <1>1, <1>2, <1>3, <1>4 DEF KnowsOrWill

\* State::observe.
LEMMA ObserveInv == ASSUME IInv, NEW o \in Observer, Observe(o) PROVE IInv'
<1>1. UNCHANGED <<status, stabilisation_num, value, valid, kept, owner, registered, createdAt,
                 previous, shown, num_on_update_handlers, handleAfter, runQueue, pass, caller>>
  BY DEF Observe, graph, handlers, loop
<1>2. obsState[o] = "Unused" /\ obsState' = [obsState EXCEPT ![o] = "Created"]
  BY DEF Observe
<1>3. TypeOK'
  BY <1>1, <1>2 DEF IInv, TypeOK
<1>4. \A n \in Node : Observers(n)' = Observers(n)
  BY <1>2, ObserversKept DEF IInv
<1>5. \A x : HandlersOf(x)' = HandlersOf(x)
  BY <1>1 DEF HandlersOf
<1>6. Clock' /\ ToldTruly'
  BY <1>1 DEF IInv, Clock, ToldTruly, NodeOf
<1>7. CountCoversHandlers'
  BY <1>1, <1>4, <1>5 DEF IInv, CountCoversHandlers
<1>8. LoopsAgree'
  BY <1>1, <1>4, <1>5, LoopsKept DEF IInv, graph, loop
<1>9. ASSUME NEW h \in Handler, Owed(h)' PROVE KnowsOrWill(h)'
  <2>1. Owed(h)
    BY <1>1, <1>2, <1>9 DEF IInv, TypeOK, Owed
  <2> QED BY <1>1, <1>4, <2>1, KnowsKept DEF IInv, Informed, graph, loop
<1> QED BY <1>3, <1>6, <1>7, <1>8, <1>9 DEF IInv, Informed

\* A handler that is registered with x, when the count of the node goes up by one if x
\* is counted.
LEMMA RegisterInv ==
  ASSUME IInv, NEW x \in Node \union Observer, NEW h \in Handler, NEW n \in Node,
         n = IF x \in Observer THEN Observing[x] ELSE x,
         TableFree(x), Register(h, x),
         x \in Observer => obsState[x] \in {"Created", "InUse"} /\ n \in handleAfter',
         num_on_update_handlers' = [num_on_update_handlers EXCEPT
           ![n] = IF x \in Observer /\ obsState[x] # "InUse" THEN @ ELSE @ + 1],
         handleAfter \subseteq handleAfter', handleAfter' \subseteq Node,
         UNCHANGED <<status, stabilisation_num, graph, obsState, loop>>
  PROVE  IInv'
<1>1. UNCHANGED <<status, stabilisation_num, value, valid, kept, obsState,
                 previous, shown, runQueue, pass, caller>>
  BY DEF Register, graph, loop
<1>2. /\ owner[h] = Nobody
      /\ owner' = [owner EXCEPT ![h] = x]
      /\ registered' = registered \union {h}
      /\ createdAt' = [createdAt EXCEPT ![h] = stabilisation_num]
  BY DEF Register
<1>3. TypeOK'
  BY <1>1, <1>2 DEF IInv, TypeOK
<1>4. \A m \in Node : Observers(m)' = Observers(m)
  BY <1>1 DEF Observers, ObserversIn
<1>5. \A y \in Node \union Observer :
        HandlersOf(y)' = IF y = x THEN HandlersOf(y) \union {h} ELSE HandlersOf(y)
  BY <1>2, HandlersAssumption DEF IInv, TypeOK, HandlersOf
<1>6. Clock'
  BY <1>1, <1>2, HandlersAssumption DEF IInv, TypeOK, Clock
<1>7. ToldTruly'
  <2>1. previous[h] = "NeverBeenUpdated"
    BY <1>2 DEF IInv, Clock
  <2> QED BY <1>1, <1>2, <2>1 DEF IInv, TypeOK, ToldTruly, NodeOf
<1>8. CountCoversHandlers'
  <2> SUFFICES ASSUME NEW m \in Node
               PROVE  num_on_update_handlers'[m] >= Cardinality(Covered(m)')
    BY DEF CountCoversHandlers, Covered
  <2>1. num_on_update_handlers[m] \in Nat /\ num_on_update_handlers[m] >= Cardinality(Covered(m))
    BY CountIsEnough DEF IInv, TypeOK
  <2>2. Covered(m) \in SUBSET Handler
    BY CountIsEnough DEF IInv
  <2>3. Cardinality(Covered(m)) \in Nat
    BY <2>2, HandlersHaveSize
  <2>4. \A o \in Observers(m) : o \in Observer /\ Observing[o] = m /\ obsState[o] \in {"InUse", "Disallowed"}
    BY DEF Observers, ObserversIn
  <2>5. CASE m = n /\ (x \in Observer => obsState[x] = "InUse")
    <3>1. num_on_update_handlers'[m] = num_on_update_handlers[m] + 1
      BY <2>5 DEF IInv, TypeOK
    <3>2. Covered(m)' \subseteq Covered(m) \union {h}
      BY <1>4, <1>5, <2>4 DEF Covered
    <3>3. Cardinality(Covered(m)') <= Cardinality(Covered(m)) + 1
      BY <2>2, <3>2, OneMore
    <3>4. Covered(m)' \in SUBSET Handler
      BY <2>2, <3>2
    <3>5. Cardinality(Covered(m)') \in Nat
      BY <3>4, HandlersHaveSize
    <3> QED BY <2>1, <2>3, <3>1, <3>3, <3>5
  <2>6. CASE ~(m = n /\ (x \in Observer => obsState[x] = "InUse"))
    <3>1. num_on_update_handlers'[m] = num_on_update_handlers[m]
      BY <2>6 DEF IInv, TypeOK
    <3>2. m # x /\ x \notin Observers(m)
      <4>1. CASE x \in Observer
        <5>1. n = Observing[x] /\ obsState[x] \in {"Created", "InUse"} /\ x \notin Node
          BY <4>1, HandlersAssumption
        <5> QED BY <2>4, <2>6, <5>1
      <4>2. CASE x \notin Observer
        BY <2>4, <2>6, <4>2
      <4> QED BY <4>1, <4>2
    <3>3. Covered(m)' = Covered(m)
      BY <1>4, <1>5, <2>4, <3>2 DEF Covered
    <3> QED BY <2>1, <3>1, <3>3
  <2> QED BY <2>5, <2>6
<1>9. LoopsAgree'
  <2>1. \A y : HandlersOf(y) \subseteq HandlersOf(y)'
    BY <1>2 DEF IInv, Clock, TypeOK, HandlersOf
  <2> QED BY <1>1, <1>4, <2>1, LoopsKept DEF IInv, graph, loop
<1>10. ASSUME NEW g \in Handler, Owed(g)' PROVE KnowsOrWill(g)'
  <2>1. CASE g # h
    <3>1. owner'[g] = owner[g] /\ createdAt'[g] = createdAt[g] /\ (g \in registered' <=> g \in registered)
      BY <1>2, <2>1 DEF IInv, TypeOK
    <3>2. Owed(g)
      BY <1>1, <1>10, <3>1 DEF Owed
    <3> QED BY <1>1, <1>4, <3>1, <3>2, KnowsKept DEF IInv, Informed, graph, loop
  <2>2. CASE g = h
    <3>1. owner'[h] = x /\ createdAt'[h] = stabilisation_num /\ previous[h] = "NeverBeenUpdated"
      BY <1>2 DEF IInv, TypeOK, Clock
    <3>2. x \in Observer
      BY <1>1, <1>10, <2>2, <3>1 DEF Owed
    <3>3. NodeOf(h)' = n
      BY <3>1, <3>2 DEF NodeOf
    <3>4. createdAt'[h] = stabilisation_num' /\ stabilisation_num' \in Nat
      BY <1>1, <3>1, HandlersAssumption DEF IInv, TypeOK
    <3> QED BY <2>2, <3>2, <3>3, <3>4 DEF KnowsOrWill
  <2> QED BY <2>1, <2>2
<1> QED BY <1>3, <1>6, <1>7, <1>8, <1>9, <1>10 DEF IInv, Informed

\* Observer::try_subscribe.
LEMMA SubscribeInv == ASSUME IInv, NEW o \in Observer, NEW h \in Handler, Subscribe(o, h) PROVE IInv'
<1>1. Observing[o] \in Node
  BY HandlersAssumption
<1>2. handleAfter \subseteq handleAfter' /\ handleAfter' \subseteq Node /\ Observing[o] \in handleAfter'
  BY <1>1 DEF Subscribe, IInv, TypeOK
<1>3. num_on_update_handlers' = [num_on_update_handlers EXCEPT
        ![Observing[o]] = IF o \in Observer /\ obsState[o] # "InUse" THEN @ ELSE @ + 1]
  BY DEF Subscribe
<1> QED BY <1>1, <1>2, <1>3, RegisterInv DEF Subscribe

\* Incr::on_update.
LEMMA OnUpdateInv == ASSUME IInv, NEW n \in Node, NEW h \in Handler, OnUpdate(n, h) PROVE IInv'
<1>1. n \notin Observer
  BY HandlersAssumption
<1>2. num_on_update_handlers' = [num_on_update_handlers EXCEPT
        ![n] = IF n \in Observer /\ obsState[n] # "InUse" THEN @ ELSE @ + 1]
  BY <1>1 DEF OnUpdate
<1>3. handleAfter \subseteq handleAfter' /\ handleAfter' \subseteq Node
  BY DEF OnUpdate, IInv, TypeOK
<1> QED BY <1>1, <1>2, <1>3, RegisterInv DEF OnUpdate

\* InternalObserver::unsubscribe.
LEMMA UnsubscribeInv ==
  ASSUME IInv, NEW o \in Observer, NEW h \in Handler, Unsubscribe(o, h)
  PROVE  IInv'
<1>1. UNCHANGED <<status, stabilisation_num, value, valid, kept, obsState, owner, createdAt,
                 previous, shown, handleAfter, runQueue, pass, caller>>
  BY DEF Unsubscribe, graph, loop
<1>2. owner[h] = o /\ pass.owner # o /\ registered' = registered \ {h}
  BY DEF Unsubscribe, TableFree
<1>3. Observing[o] \in Node
  BY HandlersAssumption
<1>4. /\ num_on_update_handlers' \in [Node -> Nat]
      /\ \A n \in Node : num_on_update_handlers'[n] >= num_on_update_handlers[n]
  BY <1>3 DEF IInv, TypeOK, Unsubscribe
<1>5. TypeOK'
  BY <1>1, <1>2, <1>4 DEF IInv, TypeOK
<1>6. \A n \in Node : Observers(n)' = Observers(n)
  BY <1>1 DEF Observers, ObserversIn
<1>7. \A y : HandlersOf(y)' = IF y = o THEN HandlersOf(y) \ {h} ELSE HandlersOf(y)
  BY <1>1, <1>2 DEF HandlersOf
<1>8. Clock' /\ ToldTruly'
  BY <1>1, <1>2 DEF IInv, Clock, ToldTruly, NodeOf
<1>9. CountCoversHandlers'
  <2> SUFFICES ASSUME NEW n \in Node
               PROVE  num_on_update_handlers'[n] >= Cardinality(Covered(n)')
    BY DEF CountCoversHandlers, Covered
  <2>1. Covered(n) \in SUBSET Handler /\ num_on_update_handlers[n] >= Cardinality(Covered(n))
    BY CountIsEnough DEF IInv
  <2>2. Covered(n)' \in SUBSET Covered(n)
    BY <1>6, <1>7 DEF Covered
  <2>3. Cardinality(Covered(n)') <= Cardinality(Covered(n))
    BY <2>1, <2>2, SmallerSet
  <2>4. Cardinality(Covered(n)) \in Nat /\ Cardinality(Covered(n)') \in Nat
    BY <2>1, <2>2, HandlersHaveSize
  <2>5. num_on_update_handlers[n] \in Nat /\ num_on_update_handlers'[n] \in Nat
    BY <1>4 DEF IInv, TypeOK
  <2> QED BY <1>4, <2>1, <2>3, <2>4, <2>5
<1>10. LoopsAgree'
  BY <1>1, <1>2, <1>6, <1>7, LoopsKept DEF IInv, graph, loop
<1>11. ASSUME NEW g \in Handler, Owed(g)' PROVE KnowsOrWill(g)'
  <2>1. Owed(g)
    BY <1>1, <1>2, <1>11 DEF Owed
  <2> QED BY <1>1, <1>6, <2>1, KnowsKept DEF IInv, Informed, graph, loop
<1> QED BY <1>5, <1>8, <1>9, <1>10, <1>11 DEF IInv, Informed

\* InternalObserver::disallow_future_use.
LEMMA DisallowInv == ASSUME IInv, NEW o \in Observer, DisallowFutureUse(o) PROVE IInv'
<1>1. UNCHANGED <<status, stabilisation_num, value, valid, kept, owner, createdAt, previous, shown,
                 num_on_update_handlers, handleAfter, runQueue, pass, caller>>
  BY DEF DisallowFutureUse, graph, loop
<1>2. /\ registered' \subseteq registered
      /\ \A y : obsState[o] # "Created" \/ y # o => HandlersOf(y)' = HandlersOf(y)
  BY <1>1 DEF DisallowFutureUse, HandlersOf
<1>3. PICK s \in {"Disallowed", "Unlinked"} :
        /\ obsState' = [obsState EXCEPT ![o] = s]
        /\ obsState[o] \in {"InUse", "Disallowed"} <=> s = "Disallowed"
  BY DEF DisallowFutureUse, IInv, TypeOK
<1>4. TypeOK'
  BY <1>1, <1>2, <1>3 DEF IInv, TypeOK
<1>5. \A n \in Node : Observers(n)' = Observers(n)
  BY <1>3, ObserversKept DEF IInv
<1>6. Clock' /\ ToldTruly'
  BY <1>1, <1>2 DEF IInv, Clock, ToldTruly, NodeOf
<1>7. \A y : HandlersOf(y)' \subseteq HandlersOf(y)
  BY <1>1, <1>2 DEF HandlersOf
<1>8. CountCoversHandlers'
  <2> SUFFICES ASSUME NEW n \in Node
               PROVE  num_on_update_handlers'[n] >= Cardinality(Covered(n)')
    BY DEF CountCoversHandlers, Covered
  <2>1. Covered(n) \in SUBSET Handler /\ num_on_update_handlers[n] >= Cardinality(Covered(n))
    BY CountIsEnough DEF IInv
  <2>2. Covered(n)' \in SUBSET Covered(n)
    BY <1>5, <1>7 DEF Covered
  <2>3. Cardinality(Covered(n)') <= Cardinality(Covered(n))
    BY <2>1, <2>2, SmallerSet
  <2>4. Cardinality(Covered(n)) \in Nat /\ Cardinality(Covered(n)') \in Nat
    BY <2>1, <2>2, HandlersHaveSize
  <2>5. num_on_update_handlers[n] \in Nat
    BY DEF IInv, TypeOK
  <2> QED BY <1>1, <2>1, <2>3, <2>4, <2>5
<1>9. LoopsAgree'
  <2>1. pass.node # Nobody => pass.owner # o \/ obsState[o] # "Created"
    BY HandlersAssumption DEF IInv, TypeOK, LoopsAgree, Observers, ObserversIn
  <2> QED BY <1>1, <1>2, <1>5, <2>1, LoopsKept DEF IInv, graph, loop
<1>10. ASSUME NEW h \in Handler, Owed(h)' PROVE KnowsOrWill(h)'
  <2>1. Owed(h)
    BY <1>1, <1>2, <1>3, <1>10 DEF IInv, TypeOK, Owed
  <2> QED BY <1>1, <1>5, <2>1, KnowsKept DEF IInv, Informed, graph, loop
<1> QED BY <1>4, <1>6, <1>8, <1>9, <1>10 DEF IInv, Informed

-----------------------------------------------------------------------------
(***************************************************************************)
(* stabilise, up to its end.                                               *)
(***************************************************************************)

\* Who is in Covered(n), and whom CountIn counts.
LEMMA CoveredByOwner ==
  ASSUME NEW n
  PROVE  Covered(n) = {h \in registered : owner[h] = n \/ owner[h] \in Observers(n)}
BY DEF Covered, HandlersOf

LEMMA CountInByOwner ==
  ASSUME NEW n, NEW S
  PROVE  CountIn(n, S) = Cardinality({h \in registered : owner[h] \in S /\ Observing[owner[h]] = n})
<1>1. UNION {HandlersOf(o) : o \in {p \in S : Observing[p] = n}}
        = {h \in registered : owner[h] \in S /\ Observing[owner[h]] = n}
  BY DEF HandlersOf
<1> QED BY <1>1 DEF CountIn

\* State::stabilise_start.
LEMMA StabiliseStartInv == ASSUME IInv, StabiliseStart PROVE IInv'
<1> DEFINE added == {o \in Observer : obsState[o] = "Created"}
           dropped == {o \in Observer : obsState[o] = "Disallowed"}
           unneeded == {n \in {Observing[o] : o \in dropped} :
                          ~kept[n] /\ ObserversIn(n, obsState') = {}}
           Counts(n, S) == {h \in registered : owner[h] \in S /\ Observing[owner[h]] = n}
<1>1. UNCHANGED <<stabilisation_num, value, valid, kept, owner, registered, createdAt, previous,
                 shown, runQueue, pass, caller>>
  BY DEF StabiliseStart, graph, handlers, loop
<1>2. /\ status = "NotStabilising" /\ status' = "Stabilising"
      /\ stabilisation_num < MaxStabilisations
  BY DEF StabiliseStart
<1>3. obsState' = [o \in Observer |->
        CASE o \in added -> "InUse" [] o \in dropped -> "Unlinked" [] OTHER -> obsState[o]]
  BY DEF StabiliseStart
<1>4. num_on_update_handlers' = [n \in Node |->
        num_on_update_handlers[n] + CountIn(n, added) - CountIn(n, dropped)]
  BY DEF StabiliseStart
<1>5. handleAfter' = (handleAfter \union {Observing[o] : o \in added})
        \union {n \in unneeded : num_on_update_handlers'[n] > 0}
  BY DEF StabiliseStart
<1>6. /\ obsState' \in [Observer -> {"Unused", "Created", "InUse", "Disallowed", "Unlinked"}]
      /\ \A o \in Observer :
           /\ obsState'[o] = "InUse" <=> obsState[o] \in {"Created", "InUse"}
           /\ obsState'[o] \notin {"Created", "Disallowed"}
  BY <1>3 DEF IInv, TypeOK
<1>7. \A n \in Node : Observers(n)' = {o \in Observer : Observing[o] = n /\ obsState[o] \in {"Created", "InUse"}}
  BY <1>6 DEF Observers, ObserversIn
<1>8. pass.node = Nobody /\ runQueue = {} /\ pass = Idle
  BY <1>2 DEF IInv, LoopsAgree, Idle
<1> HIDE DEF added, dropped, unneeded
<1>9. ASSUME NEW n \in Node
      PROVE  /\ num_on_update_handlers'[n] \in Nat
             /\ Covered(n)' \in SUBSET Handler
             /\ num_on_update_handlers'[n] >= Cardinality(Covered(n)')
  <2>1. /\ Covered(n) = {h \in registered : owner[h] = n \/ owner[h] \in Observers(n)}
        /\ Covered(n)' = {h \in registered : owner[h] = n \/ owner[h] \in Observers(n)'}
    BY <1>1, CoveredByOwner DEF Covered, HandlersOf
  <2>2. /\ Covered(n) \union Counts(n, added) = Covered(n)' \union Counts(n, dropped)
        /\ Covered(n) \intersect Counts(n, added) = {}
        /\ Covered(n)' \intersect Counts(n, dropped) = {}
    BY <1>7, <2>1, HandlersAssumption DEF added, dropped, Observers, ObserversIn
  <2>3. /\ Covered(n) \in SUBSET Handler /\ Covered(n)' \in SUBSET Handler
        /\ Counts(n, added) \in SUBSET Handler /\ Counts(n, dropped) \in SUBSET Handler
    BY <2>1 DEF IInv, TypeOK
  <2> HIDE DEF Counts
  <2>4. Cardinality(Covered(n)) + Cardinality(Counts(n, added))
          = Cardinality(Covered(n)') + Cardinality(Counts(n, dropped))
    <3>1. Cardinality(Covered(n) \union Counts(n, added))
            = Cardinality(Covered(n)) + Cardinality(Counts(n, added))
      BY <2>2, <2>3, DisjointSizes
    <3>2. Cardinality(Covered(n)' \union Counts(n, dropped))
            = Cardinality(Covered(n)') + Cardinality(Counts(n, dropped))
      BY <2>2, <2>3, DisjointSizes
    <3> QED BY <2>2, <3>1, <3>2
  <2>5. num_on_update_handlers'[n] = num_on_update_handlers[n]
          + Cardinality(Counts(n, added)) - Cardinality(Counts(n, dropped))
    BY <1>4, CountInByOwner DEF Counts
  <2>6. /\ Cardinality(Covered(n)) \in Nat /\ Cardinality(Covered(n)') \in Nat
        /\ Cardinality(Counts(n, added)) \in Nat /\ Cardinality(Counts(n, dropped)) \in Nat
    BY <2>3, HandlersHaveSize
  <2>7. num_on_update_handlers[n] \in Nat /\ num_on_update_handlers[n] >= Cardinality(Covered(n))
    BY CountIsEnough DEF IInv, TypeOK
  <2> QED BY <2>3, <2>4, <2>5, <2>6, <2>7
<1>10. num_on_update_handlers' \in [Node -> Nat]
  BY <1>4, <1>9
<1>11. handleAfter \subseteq handleAfter' /\ handleAfter' \subseteq Node
  BY <1>5, HandlersAssumption DEF IInv, TypeOK, unneeded, added, dropped
<1>12. TypeOK'
  BY <1>1, <1>2, <1>6, <1>10, <1>11 DEF IInv, TypeOK
<1>13. Clock' /\ ToldTruly'
  BY <1>1, <1>2 DEF IInv, Clock, ToldTruly, NodeOf
<1>14. CountCoversHandlers'
  BY <1>9 DEF CountCoversHandlers, Covered
<1>15. LoopsAgree'
  BY <1>1, <1>2, <1>8, HandlersAssumption DEF IInv, LoopsAgree, Idle
<1>16. ASSUME NEW h \in Handler, Owed(h)' PROVE KnowsOrWill(h)'
  <2> DEFINE n == NodeOf(h)
  <2>1. n \in Node /\ n' = n /\ h \in registered
    BY <1>1, <1>12, <1>16, HandlersAssumption DEF Owed, NodeOf, TypeOK
  <2>2. SUFFICES UpToDate(h, n)' \/ n \in handleAfter'
    BY <1>2, <2>1 DEF KnowsOrWill
  <2>3. CASE owner[h] \in added
    BY <1>5, <2>3 DEF NodeOf, added
  <2>4. CASE owner[h] \notin added
    <3>1. Owed(h)
      BY <1>1, <1>6, <1>16, <2>4 DEF Owed, added
    <3>2. UpToDate(h, n) \/ n \in handleAfter
      <4>1. ~Awaiting(h)
        BY <1>8, <2>1, HandlersAssumption DEF Awaiting
      <4>2. createdAt[h] < stabilisation_num \/ createdAt[h] = stabilisation_num
        BY HandlersAssumption DEF IInv, TypeOK, Clock
      <4> QED BY <1>2, <3>1, <4>1, <4>2 DEF IInv, Informed, KnowsOrWill
    <3>3. CASE n \in handleAfter
      BY <1>11, <3>3
    <3>4. CASE UpToDate(h, n) /\ (Necessary(n)' <=> Necessary(n))
      BY <1>1, <2>1, <3>4 DEF UpToDate
    <3>5. CASE ~Necessary(n) /\ Necessary(n)'
      <4>1. PICK o \in Observer : Observing[o] = n /\ o \in added
        BY <1>1, <1>7, <2>1, <3>5 DEF Necessary, Observers, ObserversIn, added
      <4> QED BY <1>5, <4>1
    <3>6. CASE Necessary(n) /\ ~Necessary(n)'
      <4>1. ~kept[n] /\ ObserversIn(n, obsState') = {} /\ Observers(n) # {}
        BY <1>1, <2>1, <3>6 DEF Necessary, Observers, ObserversIn
      <4>2. PICK o \in Observer : Observing[o] = n /\ o \in dropped
        BY <1>6, <4>1 DEF Observers, ObserversIn, dropped
      <4>3. n \in unneeded
        BY <4>1, <4>2 DEF unneeded
      <4>4. h \in Covered(n)'
        BY <1>1, <1>16, <2>1, HandlersAssumption DEF Owed, NodeOf, Covered, HandlersOf, Observers, ObserversIn
      <4>5. num_on_update_handlers'[n] > 0
        <5>1. Cardinality(Covered(n)') > 0 /\ Cardinality(Covered(n)') \in Nat
          BY <1>9, <2>1, <4>4, HandlersHaveSize
        <5> QED BY <1>9, <2>1, <5>1
      <4> QED BY <1>5, <4>3, <4>5
    <3> QED BY <3>2, <3>3, <3>4, <3>5, <3>6
  <2> QED BY <2>3, <2>4
<1> QED BY <1>12, <1>13, <1>14, <1>15, <1>16 DEF IInv, Informed

\* A step in which n alone changes, and is to be handled if there is something to be told.
LEMMA GraphStepInv ==
  ASSUME IInv, GraphStep, NEW n \in Node, TypeOK',
         handleAfter \subseteq handleAfter',
         \A m \in Node : valid'[m] => valid[m],
         \A m \in Node \ {n} : value'[m] = value[m] /\ valid'[m] = valid[m] /\ kept'[m] = kept[m],
         \/ value'[n] = value[n] /\ valid'[n] = valid[n] /\ (Necessary(n)' <=> Necessary(n))
         \/ num_on_update_handlers[n] > 0 => n \in handleAfter'
  PROVE  IInv'
<1>1. UNCHANGED <<status, stabilisation_num, obsState, owner, registered, createdAt, previous, shown,
                 num_on_update_handlers, runQueue, pass, caller>>
  BY DEF GraphStep, handlers, loop
<1>2. status = "Stabilising"
  BY DEF GraphStep
<1>3. \A m \in Node : Observers(m)' = Observers(m)
  BY <1>1 DEF Observers, ObserversIn
<1>4. Clock'
  BY <1>1, <1>2 DEF IInv, Clock
<1>5. CountCoversHandlers'
  BY <1>1, <1>3 DEF IInv, CountCoversHandlers, HandlersOf
<1>6. LoopsAgree'
  BY <1>1, <1>2, HandlersAssumption DEF IInv, LoopsAgree, Idle
<1>7. ToldTruly'
  <2> SUFFICES ASSUME NEW h \in Handler, owner[h] # Nobody
               PROVE  /\ previous[h] = "Invalidated" => ~valid'[NodeOf(h)]
                      /\ owner[h] \in Observer => previous[h] # "Unnecessary"
    BY <1>1 DEF ToldTruly, NodeOf
  <2>1. NodeOf(h) \in Node
    BY HandlersAssumption DEF IInv, TypeOK, NodeOf
  <2> QED BY <2>1 DEF IInv, ToldTruly
<1>8. ASSUME NEW h \in Handler, Owed(h)' PROVE KnowsOrWill(h)'
  <2>1. Owed(h)
    BY <1>1, <1>8 DEF Owed
  <2>2. NodeOf(h)' = NodeOf(h) /\ NodeOf(h) \in Node /\ h \in Covered(NodeOf(h))
    BY <1>1, <2>1, OwedIsCovered DEF IInv, NodeOf
  <2>3. UpToDate(h, NodeOf(h)) \/ NodeOf(h) \in handleAfter
    BY <1>2, <2>1 DEF IInv, Informed, KnowsOrWill
  <2>4. num_on_update_handlers[NodeOf(h)] > 0
    BY <2>2, SomeoneIsCounted DEF IInv
  <2>5. UpToDate(h, NodeOf(h))' \/ NodeOf(h) \in handleAfter'
    <3>1. CASE NodeOf(h) # n
      BY <1>1, <1>3, <2>2, <2>3, <3>1 DEF UpToDate, Necessary
    <3>2. CASE NodeOf(h) = n
      BY <1>1, <2>2, <2>3, <2>4, <3>2 DEF UpToDate
    <3> QED BY <3>1, <3>2
  <2> QED BY <1>1, <1>2, <2>2, <2>5 DEF KnowsOrWill
<1> QED BY <1>4, <1>5, <1>6, <1>7, <1>8 DEF IInv, Informed

\* Node::maybe_change_value_manual.
LEMMA ChangedInv == ASSUME IInv, NEW n \in Node, Changed(n) PROVE IInv'
<1>1. /\ UNCHANGED <<valid, kept>>
      /\ value' = [value EXCEPT ![n] = stabilisation_num + 1]
      /\ handleAfter' = handleAfter \union {m \in {n} : num_on_update_handlers[m] > 0}
  BY DEF Changed, MaybeHandleAfter
<1>2. GraphStep /\ stabilisation_num + 1 \in 0 .. MaxStabilisations
  BY HandlersAssumption DEF Changed, GraphStep, IInv, TypeOK, Clock
<1>3. TypeOK'
  BY <1>1, <1>2 DEF GraphStep, handlers, loop, IInv, TypeOK
<1> QED BY <1>1, <1>2, <1>3, GraphStepInv DEF IInv, TypeOK

\* Node::add_parent_without_adjusting_heights.
LEMMA GainParentInv == ASSUME IInv, NEW n \in Node, GainParent(n) PROVE IInv'
<1>1. /\ UNCHANGED <<value, valid>>
      /\ ~kept[n] /\ kept' = [kept EXCEPT ![n] = TRUE]
      /\ handleAfter' = handleAfter
           \union {m \in {n} \ {k \in Node : Necessary(k)} : num_on_update_handlers[m] > 0}
  BY DEF GainParent, MaybeHandleAfter
<1>2. GraphStep
  BY DEF GainParent
<1>3. TypeOK'
  BY <1>1, <1>2 DEF GraphStep, handlers, loop, IInv, TypeOK
<1>4. Necessary(n)'
  BY <1>1 DEF Necessary, IInv, TypeOK
<1> QED BY <1>1, <1>2, <1>3, <1>4, GraphStepInv DEF IInv, TypeOK

\* Node::remove_parent.
LEMMA LoseParentsInv == ASSUME IInv, NEW n \in Node, LoseParents(n) PROVE IInv'
<1>1. /\ UNCHANGED <<value, valid>>
      /\ kept[n] /\ kept' = [kept EXCEPT ![n] = FALSE]
      /\ handleAfter' = handleAfter
           \union {m \in {n} \ {k \in Node : Observers(k) # {}} : num_on_update_handlers[m] > 0}
  BY DEF LoseParents, MaybeHandleAfter
<1>2. GraphStep
  BY DEF LoseParents
<1>3. TypeOK'
  BY <1>1, <1>2 DEF GraphStep, handlers, loop, IInv, TypeOK
<1>4. Necessary(n) /\ (Observers(n) # {} => Necessary(n)')
  BY <1>1, <1>2 DEF Necessary, Observers, ObserversIn, GraphStep
<1> QED BY <1>1, <1>2, <1>3, <1>4, GraphStepInv DEF IInv, TypeOK

\* Node::invalidate_node.
LEMMA InvalidateInv == ASSUME IInv, NEW n \in Node, Invalidate(n) PROVE IInv'
<1>1. /\ UNCHANGED kept
      /\ valid' = [valid EXCEPT ![n] = FALSE]
      /\ value' = [value EXCEPT ![n] = 0]
      /\ handleAfter' = handleAfter \union {m \in {n} : num_on_update_handlers[m] > 0}
  BY DEF Invalidate, MaybeHandleAfter
<1>2. GraphStep
  BY DEF Invalidate
<1>3. TypeOK'
  BY <1>1, <1>2, HandlersAssumption DEF GraphStep, handlers, loop, IInv, TypeOK
<1> QED BY <1>1, <1>2, <1>3, GraphStepInv DEF IInv, TypeOK

-----------------------------------------------------------------------------
(***************************************************************************)
(* The end of stabilise.                                                   *)
(***************************************************************************)

\* NodeUpdate says one of the four things that a handler can be told.
LEMMA NodeUpdateType == ASSUME NEW n PROVE NodeUpdate(n) \in Update
BY DEF NodeUpdate, Update

\* State::stabilise_end, up to the loops.
LEMMA StabiliseEndInv == ASSUME IInv, StabiliseEnd PROVE IInv'
<1>1. UNCHANGED <<value, valid, kept, obsState, owner, registered, createdAt, previous, shown,
                 num_on_update_handlers, pass, caller>>
  BY DEF StabiliseEnd, graph, handlers
<1>2. /\ status = "Stabilising" /\ status' = "RunningOnUpdateHandlers"
      /\ stabilisation_num' = stabilisation_num + 1
      /\ runQueue' = {[node |-> n, update |-> NodeUpdate(n)] : n \in handleAfter}
      /\ handleAfter' = {}
      /\ \A n \in Node : valid[n] /\ Necessary(n) => value[n] # 0
  BY DEF StabiliseEnd
<1>3. stabilisation_num \in Nat /\ stabilisation_num' \in 0 .. MaxStabilisations
  BY <1>2, HandlersAssumption DEF IInv, TypeOK, Clock
<1>4. runQueue' \subseteq [node : Node, update : Update]
  BY <1>2, NodeUpdateType DEF IInv, TypeOK
<1>5. TypeOK'
  BY <1>1, <1>2, <1>3, <1>4 DEF IInv, TypeOK
<1>6. \A n : /\ Observers(n)' = Observers(n)
             /\ Necessary(n)' = Necessary(n)
             /\ NodeUpdate(n)' = NodeUpdate(n)
  BY <1>1 DEF Observers, ObserversIn, Necessary, NodeUpdate
<1>7. Clock'
  <2>1. \A h \in Handler : createdAt[h] \in Nat /\ createdAt[h] <= stabilisation_num
    BY HandlersAssumption DEF IInv, TypeOK, Clock
  <2> QED BY <1>1, <1>2, <1>3, <2>1 DEF IInv, Clock
<1>8. CountCoversHandlers'
  BY <1>1, <1>6 DEF IInv, CountCoversHandlers, HandlersOf
<1>9. LoopsAgree'
  <2>1. pass = Idle
    BY <1>2 DEF IInv, LoopsAgree
  <2> QED BY <1>1, <1>2, <1>6, <2>1 DEF LoopsAgree, Idle
<1>10. ToldTruly'
  BY <1>1 DEF IInv, ToldTruly, NodeOf
<1>11. ASSUME NEW h \in Handler, Owed(h)' PROVE KnowsOrWill(h)'
  <2>1. Owed(h)
    BY <1>1, <1>11 DEF Owed
  <2>2. NodeOf(h)' = NodeOf(h)
    BY <1>1 DEF NodeOf
  <2>3. UpToDate(h, NodeOf(h)) \/ NodeOf(h) \in handleAfter
    BY <1>2, <2>1 DEF IInv, Informed, KnowsOrWill
  <2>4. createdAt'[h] # stabilisation_num'
    <3>1. createdAt[h] \in Nat /\ createdAt[h] <= stabilisation_num
      BY HandlersAssumption DEF IInv, TypeOK, Clock
    <3> QED BY <1>1, <1>2, <1>3, <3>1
  <2>5. CASE UpToDate(h, NodeOf(h))
    BY <1>1, <1>2, <1>6, <2>2, <2>4, <2>5 DEF UpToDate, KnowsOrWill
  <2>6. CASE NodeOf(h) \in handleAfter
    <3>1. [node |-> NodeOf(h), update |-> NodeUpdate(NodeOf(h))] \in runQueue'
      BY <1>2, <2>6
    <3>2. Awaiting(h)'
      BY <2>2, <3>1 DEF Awaiting
    <3> QED BY <1>2, <2>4, <3>2 DEF KnowsOrWill
  <2> QED BY <2>3, <2>5, <2>6
<1> QED BY <1>5, <1>7, <1>8, <1>9, <1>10, <1>11 DEF IInv, Informed

\* The graph and the tables do not change in a step of the loops.
LEMMA LoopFrame ==
  ASSUME LoopStep
  PROVE  /\ status = "RunningOnUpdateHandlers" /\ caller = Nobody
         /\ UNCHANGED <<stabilisation_num, value, valid, kept, obsState, owner, registered, createdAt,
                        num_on_update_handlers, handleAfter>>
         /\ \A n : /\ Observers(n)' = Observers(n)
                   /\ Necessary(n)' = Necessary(n)
                   /\ NodeUpdate(n)' = NodeUpdate(n)
         /\ \A x : HandlersOf(x)' = HandlersOf(x)
         /\ \A h : NodeOf(h)' = NodeOf(h)
BY DEF LoopStep, graph, Observers, ObserversIn, Necessary, NodeUpdate, HandlersOf, NodeOf

\* A step from one loop to another or from one turn to the next: no handler is called
\* and none that is awaited is left out.
LEMMA TurnInv ==
  ASSUME IInv, LoopStep, UNCHANGED <<status, previous, shown, caller>>,
         TypeOK', LoopsAgree',
         \A h \in Handler : Owed(h) /\ Awaiting(h) => Awaiting(h)'
  PROVE  IInv'
<1>1. Clock'
  BY LoopFrame DEF IInv, Clock
<1>2. CountCoversHandlers'
  BY LoopFrame DEF IInv, CountCoversHandlers
<1>3. ToldTruly'
  BY LoopFrame DEF IInv, ToldTruly, NodeOf
<1>4. ASSUME NEW h \in Handler, Owed(h)' PROVE KnowsOrWill(h)'
  <2>1. Owed(h)
    BY <1>4, LoopFrame DEF Owed
  <2>2. UpToDate(h, NodeOf(h))' <=> UpToDate(h, NodeOf(h))
    BY LoopFrame DEF UpToDate
  <2> QED BY <2>1, <2>2, LoopFrame DEF IInv, Informed, KnowsOrWill
<1> QED BY <1>1, <1>2, <1>3, <1>4 DEF IInv, Informed

\* run_on_update_handlers begins with a node.
LEMMA NextNodeInv == ASSUME IInv, NextNode PROVE IInv'
<1>1. LoopStep /\ pass.node = Nobody /\ UNCHANGED <<status, previous, shown, caller>>
  BY DEF NextNode
<1>2. PICK e \in runQueue :
        /\ runQueue' = runQueue \ {e}
        /\ pass' = [node |-> e.node, update |-> e.update, owner |-> e.node,
                    left |-> HandlersOf(e.node), owners |-> Observers(e.node)]
  BY DEF NextNode
<1>3. /\ pass'.node = e.node /\ pass'.update = e.update /\ pass'.owner = e.node
      /\ pass'.left = HandlersOf(e.node) /\ pass'.owners = Observers(e.node)
  BY <1>2
<1>4. e.node \in Node /\ e.update \in Update /\ e.update = NodeUpdate(e.node)
  BY <1>2 DEF IInv, TypeOK, LoopsAgree
<1>5. HandlersOf(e.node) \in SUBSET Handler /\ Observers(e.node) \in SUBSET Observer
  BY DEF HandlersOf, Observers, ObserversIn, IInv, TypeOK
<1>6. pass' \in [node : Node \union {Nobody}, update : Update \union {"None"},
                 owner : Observer \union Node \union {Nobody},
                 left : SUBSET Handler, owners : SUBSET Observer]
  BY <1>2, <1>4, <1>5
<1>7. TypeOK'
  BY <1>1, <1>2, <1>6, LoopFrame DEF IInv, TypeOK
<1>8. LoopsAgree'
  BY <1>1, <1>2, <1>3, <1>4, LoopFrame, HandlersAssumption DEF IInv, LoopsAgree
<1>9. ASSUME NEW h \in Handler, Owed(h), Awaiting(h) PROVE Awaiting(h)'
  <2>1. PICK f \in runQueue : f.node = NodeOf(h)
    BY <1>1, <1>9, OwedIsCovered, HandlersAssumption DEF IInv, Awaiting
  <2>2. CASE f # e
    BY <1>1, <1>2, <2>1, <2>2, LoopFrame DEF Awaiting
  <2>3. CASE f = e
    <3>1. owner[h] \in Observers(e.node) \/ (owner[h] = e.node /\ h \in HandlersOf(e.node))
      BY <1>9, <2>1, <2>3, HandlersAssumption DEF Owed, NodeOf, Observers, ObserversIn, HandlersOf
    <3> QED BY <1>1, <1>3, <2>1, <2>3, <3>1, LoopFrame DEF Awaiting
  <2> QED BY <2>2, <2>3
<1> QED BY <1>1, <1>7, <1>8, <1>9, TurnInv

\* and goes on with an observer,
LEMMA NextObserverInv == ASSUME IInv, NextObserver PROVE IInv'
<1>1. /\ LoopStep /\ pass.node # Nobody /\ pass.left = {}
      /\ UNCHANGED <<status, previous, shown, runQueue, caller>>
  BY DEF NextObserver
<1>2. PICK o \in pass.owners :
        pass' = [pass EXCEPT !.owner = o, !.owners = @ \ {o}, !.left = HandlersOf(o)]
  BY DEF NextObserver
<1>3. /\ pass'.node = pass.node /\ pass'.update = pass.update /\ pass'.owner = o
      /\ pass'.left = HandlersOf(o) /\ pass'.owners = pass.owners \ {o}
  BY <1>2 DEF IInv, TypeOK
<1>4. HandlersOf(o) \in SUBSET Handler /\ o \in Observer
  BY <1>2 DEF HandlersOf, IInv, TypeOK
<1>5. pass' \in [node : Node \union {Nobody}, update : Update \union {"None"},
                 owner : Observer \union Node \union {Nobody},
                 left : SUBSET Handler, owners : SUBSET Observer]
  BY <1>2, <1>4 DEF IInv, TypeOK
<1>6. TypeOK'
  BY <1>1, <1>5, LoopFrame DEF IInv, TypeOK
<1>7. LoopsAgree'
  BY <1>1, <1>2, <1>3, LoopFrame DEF IInv, LoopsAgree
<1>8. ASSUME NEW h \in Handler, Owed(h), Awaiting(h) PROVE Awaiting(h)'
  BY <1>1, <1>3, <1>8, LoopFrame DEF Awaiting, Owed, HandlersOf
<1> QED BY <1>1, <1>6, <1>7, <1>8, TurnInv

\* and returns.
LEMMA NodeDoneInv == ASSUME IInv, NodeDone PROVE IInv'
<1>1. /\ LoopStep /\ pass.node # Nobody /\ pass.left = {} /\ pass.owners = {} /\ pass' = Idle
      /\ UNCHANGED <<status, previous, shown, runQueue, caller>>
  BY DEF NodeDone
<1>2. TypeOK'
  BY <1>1, LoopFrame DEF IInv, TypeOK, Idle
<1>3. LoopsAgree'
  BY <1>1, LoopFrame DEF IInv, LoopsAgree, Idle
<1>4. ASSUME NEW h \in Handler, Owed(h), Awaiting(h) PROVE Awaiting(h)'
  BY <1>1, <1>4, LoopFrame DEF Awaiting
<1> QED BY <1>1, <1>2, <1>3, <1>4, TurnInv

\* A handler of the table that is being iterated is about the node that is being handled.
LEMMA LeftIsOfNode ==
  ASSUME TypeOK, LoopsAgree, NEW h \in pass.left
  PROVE  /\ h \in Handler /\ h \in registered /\ owner[h] = pass.owner /\ owner[h] # Nobody
         /\ pass.node \in Node /\ NodeOf(h) = pass.node
         /\ pass.update = NodeUpdate(pass.node)
         /\ owner[h] \in Observer => owner[h] \in Observers(pass.node)
<1>1. pass.node # Nobody
  BY DEF LoopsAgree, Idle
<1>2. pass.node \in Node /\ h \in Handler
  BY <1>1 DEF TypeOK
<1>3. /\ h \in HandlersOf(pass.owner)
      /\ pass.owner = pass.node \/ pass.owner \in Observers(pass.node)
      /\ pass.update = NodeUpdate(pass.node)
  BY <1>1 DEF LoopsAgree
<1> QED BY <1>2, <1>3, HandlersAssumption DEF HandlersOf, NodeOf, Observers, ObserversIn

(***************************************************************************)
(* One turn of the innermost loop.  After OnUpdateHandler::run the handler *)
(* knows what there is to know, whatever it was told before: there is no   *)
(* update "Necessary", a node that was invalid once is invalid, and the    *)
(* other cases in which it is not called have nothing to tell.             *)
(***************************************************************************)
LEMMA RunHandlerInv == ASSUME IInv, NEW h \in Handler, RunHandler(h) PROVE IInv'
<1> DEFINE u == IF MayRun(h) THEN Told(previous[h], pass.update) ELSE "None"
           n == pass.node
<1>1. /\ LoopStep /\ h \in pass.left
      /\ pass' = [pass EXCEPT !.left = @ \ {h}]
      /\ previous' = [previous EXCEPT ![h] = IF u = "None" THEN @ ELSE u]
      /\ shown' = [shown EXCEPT ![h] = IF u = "None" THEN @ ELSE value[pass.node]]
      /\ caller' = IF u = "None" THEN Nobody ELSE h
      /\ UNCHANGED <<status, runQueue>>
  BY DEF RunHandler
<1>2. /\ h \in registered /\ owner[h] = pass.owner /\ owner[h] # Nobody
      /\ n \in Node /\ NodeOf(h) = n
      /\ pass.update = NodeUpdate(n)
      /\ owner[h] \in Observer => owner[h] \in Observers(n)
  BY <1>1, LeftIsOfNode DEF IInv
<1>3. u \in Update \union {"None"} /\ (u # "None" => MayRun(h) /\ u = Told(previous[h], NodeUpdate(n)))
  BY <1>2 DEF Told, NodeUpdate, Update
<1>4. u = "Invalidated" => ~valid[n]
  BY <1>3 DEF Told, NodeUpdate
<1>5. u = "Unnecessary" => ~Necessary(n)
  BY <1>3 DEF Told, NodeUpdate
<1>6. /\ pass'.node = n /\ pass'.update = pass.update /\ pass'.owner = pass.owner
      /\ pass'.left = pass.left \ {h} /\ pass'.owners = pass.owners
      /\ pass' \in [node : Node \union {Nobody}, update : Update \union {"None"},
                    owner : Observer \union Node \union {Nobody},
                    left : SUBSET Handler, owners : SUBSET Observer]
  BY <1>1 DEF IInv, TypeOK
<1>7. TypeOK'
  <2>1. previous' \in [Handler -> Update \union {"NeverBeenUpdated"}]
    BY <1>1, <1>3 DEF IInv, TypeOK
  <2>2. shown' \in [Handler -> 0 .. MaxStabilisations]
    BY <1>1, <1>2 DEF IInv, TypeOK
  <2> QED BY <1>1, <1>6, <2>1, <2>2, LoopFrame DEF IInv, TypeOK
<1>8. Clock'
  <2>1. MayRun(h) => createdAt[h] < stabilisation_num
    BY DEF MayRun
  <2> QED BY <1>1, <1>2, <1>3, <2>1, LoopFrame DEF IInv, TypeOK, Clock
<1>9. CountCoversHandlers'
  BY <1>1, LoopFrame DEF IInv, CountCoversHandlers
<1>10. LoopsAgree'
  <2>1. pass'.node # Nobody
    BY <1>2, <1>6, HandlersAssumption
  <2>2. /\ pass'.owner = pass'.node \/ pass'.owner \in Observers(pass'.node)
        /\ pass'.owners \subseteq Observers(pass'.node)
        /\ pass'.left \subseteq HandlersOf(pass'.owner)
    BY <1>6, <2>1 DEF IInv, LoopsAgree
  <2> QED BY <1>1, <1>2, <1>6, <2>1, <2>2, LoopFrame DEF IInv, LoopsAgree
<1>11. ToldTruly'
  <2> SUFFICES ASSUME NEW g \in Handler, owner[g] # Nobody
               PROVE  /\ previous'[g] = "Invalidated" => ~valid[NodeOf(g)]
                      /\ owner[g] \in Observer => previous'[g] # "Unnecessary"
    BY <1>1, LoopFrame DEF ToldTruly
  <2>1. CASE g # h \/ u = "None"
    BY <1>1, <2>1 DEF IInv, TypeOK, ToldTruly
  <2>2. CASE g = h /\ u # "None"
    <3>1. previous'[h] = u
      BY <1>1, <2>2 DEF IInv, TypeOK
    <3>2. owner[h] \in Observer => Necessary(n)
      BY <1>2 DEF Necessary
    <3> QED BY <1>2, <1>4, <1>5, <2>2, <3>1, <3>2
  <2> QED BY <2>1, <2>2
<1>12. ASSUME NEW g \in Handler, Owed(g)' PROVE KnowsOrWill(g)'
  <2>1. CASE g # h
    <3>1. Owed(g)
      BY <1>1, <1>12, <2>1, LoopFrame DEF IInv, TypeOK, Owed
    <3>2. UpToDate(g, NodeOf(g))' <=> UpToDate(g, NodeOf(g))
      BY <1>1, <2>1, LoopFrame DEF IInv, TypeOK, UpToDate
    <3>3. Awaiting(g) => Awaiting(g)'
      BY <1>1, <1>6, <2>1, LoopFrame DEF Awaiting
    <3> QED BY <1>1, <3>1, <3>2, <3>3, LoopFrame DEF IInv, Informed, KnowsOrWill
  <2>2. CASE g = h /\ MayRun(h)
    <3>1. valid[n] /\ Necessary(n) => value[n] # 0
      BY <1>1, <1>2, LoopFrame DEF IInv, LoopsAgree
    <3>2. previous[h] = "Invalidated" => ~valid[n]
      BY <1>2 DEF IInv, ToldTruly
    <3>3. /\ previous'[h] = IF u = "None" THEN previous[h] ELSE u
          /\ shown'[h] = IF u = "None" THEN shown[h] ELSE value[n]
          /\ previous[h] \in Update \union {"NeverBeenUpdated"}
      BY <1>1 DEF IInv, TypeOK
    <3>4. u = Told(previous[h], NodeUpdate(n))
      BY <1>2, <2>2
    <3>5. UpToDate(h, n)'
      <4>1. n' = n /\ valid' = valid /\ value' = value /\ Necessary(n)' = Necessary(n)
        BY <1>1, <1>6, LoopFrame DEF Necessary
      <4>2. CASE ~valid[n]
        <5>1. NodeUpdate(n) = "Invalidated"
          BY <4>2 DEF NodeUpdate
        <5>2. u = IF previous[h] = "Invalidated" THEN "None" ELSE "Invalidated"
          BY <3>3, <3>4, <5>1 DEF Told, Update
        <5>3. previous'[h] = "Invalidated"
          BY <3>3, <5>2
        <5> QED BY <4>1, <4>2, <5>3 DEF UpToDate
      <4>3. CASE valid[n] /\ ~Necessary(n)
        <5>1. NodeUpdate(n) = "Unnecessary" /\ previous[h] # "Invalidated"
          BY <3>2, <4>3 DEF NodeUpdate
        <5>2. u = IF previous[h] = "Unnecessary" THEN "None" ELSE "Unnecessary"
          BY <3>3, <3>4, <5>1 DEF Told, Update
        <5>3. previous'[h] = "Unnecessary"
          BY <3>3, <5>2
        <5> QED BY <4>1, <4>3, <5>3 DEF UpToDate
      <4>4. CASE valid[n] /\ Necessary(n)
        <5>1. NodeUpdate(n) = "Changed" /\ previous[h] # "Invalidated"
          BY <3>1, <3>2, <4>4 DEF NodeUpdate
        <5>2. u \in {"Necessary", "Changed"}
          BY <3>3, <3>4, <5>1 DEF Told, Update
        <5>3. previous'[h] \in {"Necessary", "Changed"} /\ shown'[h] = value[n]
          BY <3>3, <5>2
        <5> QED BY <4>1, <4>4, <5>3 DEF UpToDate
      <4> QED BY <4>2, <4>3, <4>4
    <3> QED BY <1>1, <1>2, <2>2, <3>5, LoopFrame DEF KnowsOrWill
  <2>3. CASE g = h /\ ~MayRun(h)
    <3>1. previous' = previous /\ shown' = shown
      BY <1>1, <2>3 DEF IInv, TypeOK
    <3>2. Owed(h)
      BY <1>12, <2>3, <3>1, LoopFrame, <1>1 DEF Owed
    <3>3. ~(createdAt[h] < stabilisation_num)
      BY <1>2, <2>3, <3>2, HandlersAssumption DEF MayRun, Owed, IInv, Clock
    <3>4. UpToDate(h, NodeOf(h))' <=> UpToDate(h, NodeOf(h))
      BY <1>1, <3>1, LoopFrame DEF UpToDate
    <3> QED BY <1>1, <2>3, <3>2, <3>3, <3>4, LoopFrame DEF IInv, Informed, KnowsOrWill
  <2> QED BY <2>1, <2>2, <2>3
<1> QED BY <1>7, <1>8, <1>9, <1>10, <1>11, <1>12 DEF IInv, Informed

\* The closure of a handler returns.
LEMMA HandlerReturnsInv == ASSUME IInv, HandlerReturns PROVE IInv'
<1>1. /\ caller' = Nobody /\ caller # Nobody
      /\ UNCHANGED <<status, stabilisation_num, value, valid, kept, obsState, owner, registered,
                     createdAt, previous, shown, num_on_update_handlers, handleAfter, runQueue, pass>>
  BY DEF HandlerReturns, graph, handlers
<1>2. \A n : /\ Observers(n)' = Observers(n)
             /\ Necessary(n)' = Necessary(n)
             /\ NodeUpdate(n)' = NodeUpdate(n)
             /\ HandlersOf(n)' = HandlersOf(n)
  BY <1>1 DEF Observers, ObserversIn, Necessary, NodeUpdate, HandlersOf
<1>3. TypeOK' /\ Clock' /\ ToldTruly'
  BY <1>1 DEF IInv, TypeOK, Clock, ToldTruly, NodeOf
<1>4. CountCoversHandlers'
  BY <1>1, <1>2 DEF IInv, CountCoversHandlers
<1>5. LoopsAgree'
  BY <1>1, <1>2 DEF IInv, LoopsAgree, Idle
<1>6. ASSUME NEW h \in Handler, Owed(h)' PROVE KnowsOrWill(h)'
  <2>1. Owed(h) /\ NodeOf(h)' = NodeOf(h)
    BY <1>1, <1>6 DEF Owed, NodeOf
  <2>2. /\ UpToDate(h, NodeOf(h))' <=> UpToDate(h, NodeOf(h))
        /\ Awaiting(h)' <=> Awaiting(h)
    BY <1>1, <1>2, <2>1 DEF UpToDate, Awaiting
  <2> QED BY <1>1, <2>1, <2>2 DEF IInv, Informed, KnowsOrWill
<1> QED BY <1>3, <1>4, <1>5, <1>6 DEF IInv, Informed

\* stabilise returns.
LEMMA HandlersDoneInv == ASSUME IInv, HandlersDone PROVE IInv'
<1>1. /\ LoopStep /\ pass.node = Nobody /\ runQueue = {} /\ status' = "NotStabilising"
      /\ UNCHANGED <<previous, shown, runQueue, pass, caller>>
  BY DEF HandlersDone, loop
<1>2. TypeOK' /\ Clock' /\ ToldTruly'
  BY <1>1, LoopFrame DEF IInv, TypeOK, Clock, ToldTruly
<1>3. CountCoversHandlers'
  BY <1>1, LoopFrame DEF IInv, CountCoversHandlers
<1>4. LoopsAgree'
  BY <1>1, LoopFrame DEF IInv, LoopsAgree, Idle
<1>5. ASSUME NEW h \in Handler, Owed(h)' PROVE KnowsOrWill(h)'
  <2>1. Owed(h)
    BY <1>1, <1>5, LoopFrame DEF Owed
  <2>2. UpToDate(h, NodeOf(h))' <=> UpToDate(h, NodeOf(h))
    BY <1>1, LoopFrame DEF UpToDate
  <2>3. Awaiting(h)' <=> Awaiting(h)
    BY <1>1, LoopFrame DEF Awaiting
  <2> QED BY <1>1, <2>1, <2>2, <2>3, LoopFrame DEF IInv, Informed, KnowsOrWill
<1> QED BY <1>2, <1>3, <1>4, <1>5 DEF IInv, Informed

-----------------------------------------------------------------------------
(***************************************************************************)
(* The theorems.                                                           *)
(***************************************************************************)

\* Nothing is registered at first.
LEMMA InitInv == Init => IInv
<1> SUFFICES ASSUME Init PROVE IInv
  OBVIOUS
<1>1. TypeOK
  BY HandlersAssumption DEF Init, TypeOK, Idle
<1>2. Clock /\ ToldTruly
  BY HandlersAssumption DEF Init, Clock, ToldTruly
<1>3. LoopsAgree
  BY DEF Init, LoopsAgree, Idle
<1>4. Informed
  BY DEF Init, Informed, Owed
<1>5. CountCoversHandlers
  <2>1. \A n \in Node : Covered(n) = {}
    BY DEF Init, Covered, HandlersOf
  <2>2. \A n \in Node : num_on_update_handlers[n] >= Cardinality(Covered(n))
    BY <2>1, FS_EmptySet DEF Init
  <2> QED BY <1>1, <2>2, CountIsEnough
<1> QED BY <1>1, <1>2, <1>3, <1>4, <1>5 DEF IInv

\* The invariant is inductive.
LEMMA NextInv == IInv /\ [Next]_vars => IInv'
<1> SUFFICES ASSUME IInv, [Next]_vars PROVE IInv'
  OBVIOUS
<1>1. CASE UserCall
  BY <1>1, ObserveInv, DisallowInv, SubscribeInv, UnsubscribeInv, OnUpdateInv DEF UserCall
<1>2. CASE StabiliseStart
  BY <1>2, StabiliseStartInv
<1>3. CASE \E n \in Node : Changed(n) \/ GainParent(n) \/ LoseParents(n) \/ Invalidate(n)
  BY <1>3, ChangedInv, GainParentInv, LoseParentsInv, InvalidateInv
<1>4. CASE StabiliseEnd
  BY <1>4, StabiliseEndInv
<1>5. CASE NextNode \/ NextObserver \/ NodeDone
  BY <1>5, NextNodeInv, NextObserverInv, NodeDoneInv
<1>6. CASE \E h \in Handler : RunHandler(h)
  BY <1>6, RunHandlerInv
<1>7. CASE HandlerReturns \/ HandlersDone
  BY <1>7, HandlerReturnsInv, HandlersDoneInv
<1>8. CASE UNCHANGED vars
  <2>1. UNCHANGED <<status, stabilisation_num, value, valid, kept, obsState, owner, registered,
                    createdAt, previous, shown, num_on_update_handlers, handleAfter, runQueue,
                    pass, caller>>
    BY <1>8 DEF vars, graph, handlers, loop
  <2>2. \A n : /\ Observers(n)' = Observers(n)
               /\ Necessary(n)' = Necessary(n)
               /\ NodeUpdate(n)' = NodeUpdate(n)
               /\ HandlersOf(n)' = HandlersOf(n)
    BY <2>1 DEF Observers, ObserversIn, Necessary, NodeUpdate, HandlersOf
  <2>3. TypeOK' /\ Clock' /\ ToldTruly'
    BY <2>1 DEF IInv, TypeOK, Clock, ToldTruly, NodeOf
  <2>4. CountCoversHandlers' /\ LoopsAgree'
    BY <2>1, <2>2 DEF IInv, CountCoversHandlers, LoopsAgree, Idle
  <2>5. ASSUME NEW h \in Handler, Owed(h)' PROVE KnowsOrWill(h)'
    <3>1. Owed(h) /\ NodeOf(h)' = NodeOf(h)
      BY <2>1, <2>5 DEF Owed, NodeOf
    <3>2. /\ UpToDate(h, NodeOf(h))' <=> UpToDate(h, NodeOf(h))
          /\ Awaiting(h)' <=> Awaiting(h)
      BY <2>1, <2>2, <3>1 DEF UpToDate, Awaiting
    <3> QED BY <2>1, <3>1, <3>2 DEF IInv, Informed, KnowsOrWill
  <2> QED BY <2>3, <2>4, <2>5 DEF IInv, Informed
<1> QED BY <1>1, <1>2, <1>3, <1>4, <1>5, <1>6, <1>7, <1>8 DEF Next

\* IInv holds in every state.
THEOREM Invariance == Spec => []IInv
BY InitInv, NextInv, PTL DEF Spec

\* Every variable keeps its type; num_on_update_handlers in particular, from which
\* stabilise_start subtracts, is never negative.
THEOREM TypeCorrect == Spec => []TypeOK
<1>1. IInv => TypeOK
  BY DEF IInv
<1> QED BY <1>1, Invariance, PTL

\* The count of a node is never below the number of handlers to call for it.
THEOREM CountSuffices == Spec => []CountCoversHandlers
<1>1. IInv => CountCoversHandlers
  BY DEF IInv
<1> QED BY <1>1, Invariance, PTL

(***************************************************************************)
(* Between stabilisations the loops have come to every handler, so a       *)
(* handler that has to be kept informed is.                                *)
(***************************************************************************)
LEMMA OwedAreUpToDate ==
  ASSUME IInv, status = "NotStabilising", NEW h \in Handler, Owed(h),
         createdAt[h] < stabilisation_num
  PROVE  UpToDate(h, NodeOf(h))
<1>1. pass.node = Nobody /\ runQueue = {}
  BY DEF IInv, LoopsAgree, Idle
<1>2. NodeOf(h) \in Node
  BY OwedIsCovered DEF IInv
<1>3. ~Awaiting(h)
  BY <1>1, <1>2, HandlersAssumption DEF Awaiting
<1> QED BY <1>3 DEF IInv, Informed, KnowsOrWill

\* Subscriptions have been told what there is to know when stabilise returns.
THEOREM EverySubscriberIsTold == Spec => []SubscribersAreTold
<1>1. IInv => SubscribersAreTold
  <2> SUFFICES ASSUME IInv, status = "NotStabilising", NEW o \in Observer, NEW h \in HandlersOf(o),
                      obsState[o] = "InUse", createdAt[h] < stabilisation_num
               PROVE  UpToDate(h, Observing[o])
    BY DEF SubscribersAreTold
  <2>1. h \in Handler /\ Owed(h) /\ NodeOf(h) = Observing[o]
    BY DEF IInv, TypeOK, HandlersOf, Owed, NodeOf
  <2> QED BY <2>1, OwedAreUpToDate
<1> QED BY <1>1, Invariance, PTL

\* And so have the handlers of nodes that were ever called.
THEOREM EveryNodeHandlerIsTold == Spec => []NodeHandlersStayInformed
<1>1. IInv => NodeHandlersStayInformed
  <2> SUFFICES ASSUME IInv, status = "NotStabilising", NEW n \in Node, NEW h \in HandlersOf(n),
                      previous[h] # "NeverBeenUpdated"
               PROVE  UpToDate(h, n)
    BY DEF NodeHandlersStayInformed
  <2>1. h \in Handler /\ Owed(h) /\ NodeOf(h) = n
    BY HandlersAssumption DEF IInv, TypeOK, HandlersOf, Owed, NodeOf
  <2>2. createdAt[h] < stabilisation_num
    BY <2>1 DEF IInv, Clock
  <2> QED BY <2>1, <2>2, OwedAreUpToDate
<1> QED BY <1>1, Invariance, PTL

\* No panic of the handlers' code is reached.
THEOREM HandlersDoNotPanic == Spec => []NoHandlerPanics
<1>1. IInv => NoHandlerPanics
  BY HandlersAssumption
     DEF IInv, NoHandlerPanics, ToldTruly, LoopsAgree, Idle, Observers, ObserversIn, TypeOK
<1> QED BY <1>1, Invariance, PTL

\* No handler is called after it was unsubscribed or its observer disallowed.
THEOREM DroppedAreSilent == Spec => SilentOnceDropped
<1> DEFINE A == \A h \in Handler :
                  caller' = h /\ caller # h =>
                    h \in registered /\ (owner[h] \in Observer => obsState[owner[h]] = "InUse")
<1>1. IInv /\ [Next]_vars => [A]_vars
  <2> SUFFICES ASSUME IInv, Next, NEW h \in Handler, caller' = h, caller # h
               PROVE  h \in registered /\ (owner[h] \in Observer => obsState[owner[h]] = "InUse")
    OBVIOUS
  <2>1. h # Nobody
    BY HandlersAssumption
  <2>2. PICK g \in Handler : RunHandler(g)
    BY <2>1 DEF Next, UserCall, Observe, DisallowFutureUse, Subscribe, Unsubscribe, OnUpdate,
         StabiliseStart, Changed, GainParent, LoseParents, Invalidate, GraphStep, StabiliseEnd,
         NextNode, NextObserver, NodeDone, HandlerReturns, HandlersDone, loop
  <2>3. g = h /\ MayRun(h) /\ h \in pass.left
    BY <2>1, <2>2 DEF RunHandler
  <2>4. h \in registered /\ owner[h] = pass.owner
    BY <2>3, LeftIsOfNode DEF IInv
  <2> QED BY <2>3, <2>4 DEF MayRun
<1> QED BY <1>1, Invariance, PTL DEF Spec, SilentOnceDropped

-----------------------------------------------------------------------------
(***************************************************************************)
(* The lifetimes of variables.                                             *)
(***************************************************************************)
Out == dead \union alt \union broken

\* Values hold handles of variables that exist, and belong to variables that exist.
ContentsExist ==
  \A v \in Var : /\ Contents(v) \intersect Var \subseteq created
                 /\ v \notin created => Contents(v) \intersect Var = {} /\ pending[v] = NotSet

\* A variable is in Out if and only if it has lost its handles.
Gone == Out \intersect Handled = {}

Listed == created \subseteq Handled \union Out

\* Nothing waits in dead_vars_alt outside of its loop, and nothing after the State.
Drained ==
  /\ alt # {} => phase = "dead"
  /\ phase = "destroyed" => dead = {}

SetsApplied ==
  \A v \in Var : pending[v] # NotSet /\ Alive(v) =>
    v \notin broken /\ phase \in {"stabilising", "sets"}

\* The inductive invariant.
VarsIInv ==
  /\ VarsTypeOK
  /\ ContentsExist
  /\ Gone
  /\ Listed
  /\ Drained
  /\ SetsApplied

LEMMA NoVarNotSet == NoVar \notin Var /\ NotSet \notin Var
BY NumVarsAssumption DEF Var, NoVar, NotSet

-----------------------------------------------------------------------------
(***************************************************************************)
(* HandledGiven(b) is closed, and is the least closed set; in this state   *)
(* and in the next.                                                        *)
(***************************************************************************)
LEMMA HandledClosed ==
  ASSUME NEW b, held \subseteq Var
  PROVE  /\ HandledGiven(b) \subseteq Var
         /\ held \subseteq HandledGiven(b)
         /\ \A u \in HandledGiven(b) \union watched \union (created \ b) :
              Contents(u) \intersect Var \subseteq HandledGiven(b)
<1> DEFINE first == held \union In(watched \union (created \ b))
<1>1. HandledGiven(b) = {v \in Var : \A S \in SUBSET Var :
                            first \subseteq S /\ In(S) \subseteq S => v \in S}
  BY DEF HandledGiven
<1>2. first \subseteq HandledGiven(b)
  BY <1>1 DEF In
<1>3. ASSUME NEW u \in HandledGiven(b), NEW w \in Contents(u) \intersect Var
      PROVE  w \in HandledGiven(b)
  <2> SUFFICES ASSUME NEW S \in SUBSET Var, first \subseteq S, In(S) \subseteq S
               PROVE  w \in S
    BY <1>1
  <2>1. u \in S
    BY <1>1
  <2> QED
    BY <2>1 DEF In
<1>4. ASSUME NEW u \in watched \union (created \ b), NEW w \in Contents(u) \intersect Var
      PROVE  w \in HandledGiven(b)
  BY <1>2 DEF In
<1> QED
  BY <1>1, <1>2, <1>3, <1>4

LEMMA HandledClosedNext ==
  ASSUME NEW b, held' \subseteq Var
  PROVE  /\ HandledGiven(b)' \subseteq Var
         /\ held' \subseteq HandledGiven(b)'
         /\ \A u \in HandledGiven(b)' \union watched' \union (created' \ b) :
              Contents(u)' \intersect Var \subseteq HandledGiven(b)'
<1> DEFINE first == held' \union In(watched \union (created \ b))'
<1>1. HandledGiven(b)' = {v \in Var : \A S \in SUBSET Var :
                            first \subseteq S /\ In(S)' \subseteq S => v \in S}
  BY DEF HandledGiven
<1>2. first \subseteq HandledGiven(b)'
  BY <1>1 DEF In
<1>3. ASSUME NEW u \in HandledGiven(b)', NEW w \in Contents(u)' \intersect Var
      PROVE  w \in HandledGiven(b)'
  <2> SUFFICES ASSUME NEW S \in SUBSET Var, first \subseteq S, In(S)' \subseteq S
               PROVE  w \in S
    BY <1>1
  <2>1. u \in S
    BY <1>1
  <2> QED
    BY <2>1 DEF In
<1>4. ASSUME NEW u \in watched' \union (created' \ b), NEW w \in Contents(u)' \intersect Var
      PROVE  w \in HandledGiven(b)'
  BY <1>2 DEF In
<1> QED
  BY <1>1, <1>2, <1>3, <1>4

LEMMA HandledLeast ==
  ASSUME NEW b, NEW S \in SUBSET Var,
         held \subseteq S,
         \A u \in S \union watched \union (created \ b) : Contents(u) \intersect Var \subseteq S
  PROVE  HandledGiven(b) \subseteq S
BY DEF HandledGiven, In

LEMMA HandledLeastNext ==
  ASSUME NEW b, NEW S \in SUBSET Var,
         held' \subseteq S,
         \A u \in S \union watched' \union (created' \ b) : Contents(u)' \intersect Var \subseteq S
  PROVE  HandledGiven(b)' \subseteq S
BY DEF HandledGiven, In

\* The same, of Handled.
LEMMA Closed ==
  ASSUME VarsIInv
  PROVE  /\ Handled \subseteq created
         /\ held \subseteq Handled
         /\ \A u \in Handled \union watched \union (created \ broken) :
              Contents(u) \intersect Var \subseteq Handled
<1>1. held \subseteq Var /\ created \subseteq Var
  BY DEF VarsIInv, VarsTypeOK
<1>2. Handled \subseteq created
  BY <1>1, HandledLeast DEF Handled, VarsIInv, ContentsExist, VarsTypeOK
<1> QED
  BY <1>1, <1>2, HandledClosed DEF Handled

-----------------------------------------------------------------------------
(***************************************************************************)
(* What a step of the invariant comes to.  No variable but a new one gets  *)
(* a handle, and those that lose their last one enter Out.                 *)
(***************************************************************************)

\* A step that makes no variable and keeps the values' handles among those there are.
Moves ==
  /\ created' = created
  /\ broken \subseteq broken'
  /\ held' \subseteq Handled
  /\ watched' \subseteq watched \union held
  /\ \A u \in Var : Contents(u)' \intersect Var \subseteq
       Contents(u) \union {w \in Var : u \in Handled \union watched \union (created \ broken)
                                      /\ w \in Handled}

LEMMA MovesShrink ==
  ASSUME VarsIInv, Moves
  PROVE  Handled' \subseteq Handled
<1> DEFINE keepers == Handled \union watched' \union (created' \ broken')
<1>1. Handled \subseteq Var /\ held \subseteq Handled
  BY Closed DEF VarsIInv, VarsTypeOK
<1>2. keepers \subseteq Handled \union watched \union (created \ broken)
  BY <1>1 DEF Moves
<1>3. \A u \in keepers : Contents(u)' \intersect Var \subseteq Handled
  <2> SUFFICES ASSUME NEW u \in keepers, NEW w \in Contents(u)' \intersect Var
               PROVE  w \in Handled
    OBVIOUS
  <2>1. u \in Var
    BY <1>2, Closed DEF VarsIInv, VarsTypeOK
  <2>2. w \in Contents(u) \union Handled
    BY <2>1 DEF Moves
  <2>3. Contents(u) \intersect Var \subseteq Handled
    BY <1>2, Closed
  <2> QED
    BY <2>2, <2>3
<1> HIDE DEF keepers
<1>4. HandledGiven(broken)' \subseteq Handled
  <2>1. \A u \in Handled \union watched' \union (created' \ broken') :
          Contents(u)' \intersect Var \subseteq Handled
    BY <1>3 DEF keepers
  <2> QED
    BY <1>1, <2>1 DEF Moves, HandledGiven, In
<1> QED
  BY <1>4 DEF Handled

\* What holds of Out goes on holding.
LEMMA OutKept ==
  ASSUME VarsIInv, created' = created, Handled' \subseteq Handled,
         Out' = Out \union (Handled \ Handled')
  PROVE  Gone' /\ Listed'
BY DEF VarsIInv, Gone, Listed

(***************************************************************************)
(* When there is no State, what loses its last handle has its cycle broken *)
(* at once.  What is freed with it has lost its handles too, and its cycle *)
(* is broken in the same step: nothing is left that only keeps itself.     *)
(***************************************************************************)
LEMMA FreedAtOnce ==
  ASSUME VarsIInv, Moves, broken' = Out \union (Handled \ HandledGiven(Var)')
  PROVE  Handled' = HandledGiven(Var)'
<1> DEFINE reached == HandledGiven(Var)'
<1>1. held' \subseteq Var /\ created' \subseteq Var
  BY Closed DEF VarsIInv, VarsTypeOK, Moves
<1>2. /\ reached \subseteq Var
      /\ held' \subseteq reached
      /\ \A u \in reached \union watched' \union (created' \ Var) :
           Contents(u)' \intersect Var \subseteq reached
  BY <1>1, HandledClosedNext
<1>3. created' \ broken' \subseteq reached
  BY DEF VarsIInv, Listed, Out, Moves
<1>4. Handled' \subseteq reached
  <2>1. \A u \in reached \union watched' \union (created' \ broken') :
          Contents(u)' \intersect Var \subseteq reached
    BY <1>2, <1>3
  <2> HIDE DEF reached
  <2>2. HandledGiven(broken)' \subseteq reached
    BY <1>2, <2>1 DEF HandledGiven, In
  <2> QED
    BY <2>2 DEF Handled
<1>5. reached \subseteq Handled'
  <2>1. created' \ Var \subseteq created' \ broken'
    BY <1>1
  <2> QED
    BY <2>1 DEF Handled, HandledGiven, In
<1> QED
  BY <1>4, <1>5

LEMMA DropLastListsAll ==
  ASSUME VarsIInv, Moves, DropLast, alt' = alt
  PROVE  Out' = Out \union (Handled \ Handled')
<1>1. CASE phase # "destroyed"
  BY <1>1 DEF DropLast, Out
<1>2. CASE phase = "destroyed"
  <2>1. broken' = broken \union (Handled \ HandledGiven(Var)') /\ dead' = dead
    BY <1>2 DEF DropLast
  <2>2. Out = broken
    BY <1>2 DEF VarsIInv, Drained, Out
  <2> QED
    BY <2>1, <2>2, FreedAtOnce DEF Out
<1> QED
  BY <1>1, <1>2

\* A variable that is alive after the step was alive before it.
LEMMA AliveBefore ==
  ASSUME VarsIInv, Moves, NEW v \in Var, Alive(v)'
  PROVE  Alive(v)
<1>1. held \subseteq Handled
  BY Closed
<1> QED
  BY <1>1, MovesShrink DEF Alive, Moves

\* The sets that wait are still to be applied, if no cycle of theirs was broken.
LEMMA SetsKept ==
  ASSUME VarsIInv, Moves, NEW v \in Var, pending[v] # NotSet, Alive(v)',
         phase \in {"stabilising", "sets"} => broken' = broken,
         phase \in {"stabilising", "sets"} =>
           phase' \in {"stabilising", "sets"}
  PROVE  v \notin broken' /\ phase' \in {"stabilising", "sets"}
BY AliveBefore DEF VarsIInv, SetsApplied

-----------------------------------------------------------------------------
LEMMA InitIInv == VarsInit => VarsIInv
<1> SUFFICES ASSUME VarsInit PROVE VarsIInv
  OBVIOUS
<1> USE NoVarNotSet DEF VarsInit
<1>1. VarsTypeOK
  BY DEF VarsTypeOK
<1>2. ContentsExist
  BY DEF ContentsExist, Contents
<1>3. Gone /\ Listed /\ Drained /\ SetsApplied
  BY DEF Gone, Listed, Drained, SetsApplied, Out
<1> QED
  BY <1>1, <1>2, <1>3 DEF VarsIInv

(***************************************************************************)
(* The steps that drop handles: what they have in common.                  *)
(***************************************************************************)
LEMMA DropStep ==
  ASSUME VarsIInv, Moves, DropLast, UNCHANGED <<alt, phase>>
  PROVE  /\ Gone' /\ Listed' /\ Drained'
         /\ dead' \subseteq created' /\ broken' \subseteq created'
         /\ phase # "destroyed" => broken' = broken
<1>1. Handled' \subseteq Handled /\ Out' = Out \union (Handled \ Handled')
  BY MovesShrink, DropLastListsAll
<1>2. Gone' /\ Listed'
  BY <1>1, OutKept DEF Moves
<1>3. dead' \subseteq created' /\ broken' \subseteq created'
  BY <1>1, Closed DEF VarsIInv, VarsTypeOK, Out, Moves
<1>4. Drained' /\ (phase # "destroyed" => broken' = broken)
  BY DEF VarsIInv, Drained, DropLast
<1> QED
  BY <1>2, <1>3, <1>4

\* DropLast breaks cycles only where no set waits.
LEMMA DropLastBroken == DropLast => broken \subseteq broken'
BY DEF DropLast

LEMMA SetIInv ==
  ASSUME VarsIInv, NEW v \in Var, NEW x \in Value(v), Set(v, x)
  PROVE  VarsIInv'
<1> USE DEF Set, UserRuns
<1>1. x \in {NoVar} \union held
  BY DEF Value
<1>2. v \in held /\ held \subseteq Handled /\ held \subseteq created /\ created \subseteq Var
  <2>1. v \in held
    OBVIOUS
  <2> QED
    BY <2>1, Closed DEF VarsIInv, VarsTypeOK
<1>3. \A u \in Var : Contents(u)' \subseteq Contents(u) \union (IF u = v THEN {x} ELSE {})
  BY DEF Contents, VarsIInv, VarsTypeOK
<1>4. Moves
  BY <1>1, <1>2, <1>3, NoVarNotSet, DropLastBroken DEF Moves
<1>5. ContentsExist'
  <2>1. \A u \in Var : Contents(u)' \intersect Var \subseteq created'
    BY <1>1, <1>2, <1>3, NoVarNotSet DEF VarsIInv, ContentsExist
  <2>2. ASSUME NEW u \in Var, u \notin created'
        PROVE  Contents(u)' \intersect Var = {} /\ pending'[u] = NotSet
    <3>1. u \notin created /\ u # v
      BY <2>2, <1>2
    <3>2. Contents(u)' = Contents(u) /\ pending'[u] = pending[u]
      BY <3>1 DEF Contents, VarsIInv, VarsTypeOK
    <3> QED
      BY <3>1, <3>2 DEF VarsIInv, ContentsExist
  <2> QED
    BY <2>1, <2>2 DEF ContentsExist
<1>6. /\ Gone' /\ Listed' /\ Drained'
      /\ dead' \subseteq created' /\ broken' \subseteq created' /\ broken' = broken
  BY <1>4, DropStep
<1>7. VarsTypeOK'
  BY <1>1, <1>2, <1>6 DEF VarsIInv, VarsTypeOK
<1>8. SetsApplied'
  <2> SUFFICES ASSUME NEW w \in Var, pending'[w] # NotSet, Alive(w)'
               PROVE  w \notin broken' /\ phase' \in {"stabilising", "sets"}
    BY DEF SetsApplied
  <2>1. CASE pending'[w] = pending[w]
    BY <2>1, <1>4, <1>6, SetsKept
  <2>2. CASE pending'[w] # pending[w]
    BY <2>2, <1>2, <1>6 DEF VarsIInv, VarsTypeOK, Gone, Out
  <2> QED
    BY <2>1, <2>2
<1> QED
  BY <1>5, <1>6, <1>7, <1>8 DEF VarsIInv

\* Steps that neither touch the contents of variables nor drop a handle.
LEMMA HandledKept ==
  ASSUME VarsIInv, Moves, held \subseteq held', watched \subseteq watched',
         UNCHANGED <<inner, pending, copied, broken, dead, alt, phase>>
  PROVE  /\ Gone' /\ Listed' /\ Drained' /\ ContentsExist' /\ SetsApplied'
<1>1. Handled \subseteq Handled'
  BY DEF Handled, HandledGiven, In, Contents, Moves
<1>2. Gone' /\ Listed'
  BY <1>1, MovesShrink, OutKept DEF Out, Moves
<1>3. ContentsExist' /\ Drained'
  BY DEF VarsIInv, ContentsExist, Contents, Drained, Moves
<1>4. SetsApplied'
  BY SetsKept DEF SetsApplied
<1> QED
  BY <1>2, <1>3, <1>4

LEMMA TakeInnerIInv ==
  ASSUME VarsIInv, NEW v \in Var, TakeInner(v)
  PROVE  VarsIInv'
<1>1. PICK w \in Var : /\ (v \in held /\ w = inner[v]) \/ (v \in watched /\ w = copied[v])
                       /\ held' = held \union {w}
  BY DEF TakeInner
<1>2. UNCHANGED <<created, watched, inner, pending, copied, broken, dead, alt, phase>>
  BY DEF TakeInner
<1>3. w \in Handled
  BY <1>1, Closed DEF Contents
<1>4. Moves
  BY <1>1, <1>2, <1>3, Closed DEF Moves, Contents
<1>5. VarsTypeOK'
  BY <1>1, <1>2, <1>3, Closed DEF VarsIInv, VarsTypeOK
<1> QED
  BY <1>1, <1>2, <1>4, <1>5, HandledKept DEF VarsIInv

LEMMA WatchIInv ==
  ASSUME VarsIInv, NEW v \in Var, Watch(v)
  PROVE  VarsIInv'
<1>1. /\ v \in held /\ watched' = watched \union {v}
      /\ UNCHANGED <<created, held, inner, pending, copied, broken, dead, alt, phase>>
  BY DEF Watch
<1>2. Moves
  BY <1>1, Closed DEF Moves, Contents
<1>3. VarsTypeOK'
  BY <1>1 DEF VarsIInv, VarsTypeOK
<1> QED
  BY <1>1, <1>2, <1>3, HandledKept DEF VarsIInv

LEMMA DropHandleIInv ==
  ASSUME VarsIInv, NEW v \in Var, DropHandle(v) \/ Unwatch(v)
  PROVE  VarsIInv'
<1>1. /\ held' \subseteq held /\ watched' \subseteq watched /\ DropLast
      /\ UNCHANGED <<created, inner, pending, copied, alt, phase>>
  BY DEF DropHandle, Unwatch
<1>2. Moves
  BY <1>1, Closed, DropLastBroken DEF Moves, Contents
<1>3. /\ Gone' /\ Listed' /\ Drained'
      /\ dead' \subseteq created' /\ broken' \subseteq created'
      /\ phase # "destroyed" => broken' = broken
  BY <1>1, <1>2, DropStep
<1>4. VarsTypeOK'
  BY <1>1, <1>3 DEF VarsIInv, VarsTypeOK
<1>5. ContentsExist'
  BY <1>1 DEF VarsIInv, ContentsExist, Contents
<1>6. SetsApplied'
  BY <1>1, <1>2, <1>3, SetsKept DEF SetsApplied
<1> QED
  BY <1>3, <1>4, <1>5, <1>6 DEF VarsIInv

LEMMA RecomputeIInv ==
  ASSUME VarsIInv, NEW v \in Var, Recompute(v)
  PROVE  VarsIInv'
<1>1. /\ phase = "stabilising" /\ v \in watched /\ DropLast
      /\ copied' = [copied EXCEPT ![v] = inner[v]]
      /\ UNCHANGED <<created, held, watched, inner, pending, alt, phase>>
  BY DEF Recompute
<1>2. \A u \in Var : Contents(u)' \subseteq Contents(u)
  BY <1>1 DEF Contents, VarsIInv, VarsTypeOK
<1>3. Moves
  BY <1>1, <1>2, Closed, DropLastBroken DEF Moves
<1>4. /\ Gone' /\ Listed' /\ Drained'
      /\ dead' \subseteq created' /\ broken' \subseteq created' /\ broken' = broken
  BY <1>1, <1>3, DropStep
<1>5. VarsTypeOK'
  BY <1>1, <1>4 DEF VarsIInv, VarsTypeOK
<1>6. ContentsExist'
  BY <1>1, <1>2 DEF VarsIInv, ContentsExist
<1>7. SetsApplied'
  BY <1>1, <1>3, <1>4, SetsKept DEF SetsApplied
<1> QED
  BY <1>4, <1>5, <1>6, <1>7 DEF VarsIInv

LEMMA ApplySetIInv ==
  ASSUME VarsIInv, NEW v \in Var, ApplySet(v)
  PROVE  VarsIInv'
<1>1. /\ phase = "sets" /\ pending[v] # NotSet /\ DropLast
      /\ inner' = [inner EXCEPT ![v] = pending[v]]
      /\ pending' = [pending EXCEPT ![v] = NotSet]
      /\ UNCHANGED <<created, held, watched, copied, alt, phase>>
  BY DEF ApplySet
<1>2. \A u \in Var : Contents(u)' \intersect Var \subseteq Contents(u)
  BY <1>1, NoVarNotSet DEF Contents, VarsIInv, VarsTypeOK
<1>3. Moves
  BY <1>1, <1>2, Closed, DropLastBroken DEF Moves
<1>4. /\ Gone' /\ Listed' /\ Drained'
      /\ dead' \subseteq created' /\ broken' \subseteq created' /\ broken' = broken
  BY <1>1, <1>3, DropStep
<1>5. VarsTypeOK'
  BY <1>1, <1>4 DEF VarsIInv, VarsTypeOK
<1>6. ContentsExist'
  BY <1>1, <1>2 DEF VarsIInv, ContentsExist
<1>7. SetsApplied'
  BY <1>1, <1>3, <1>4, SetsKept DEF SetsApplied, VarsIInv, VarsTypeOK
<1> QED
  BY <1>4, <1>5, <1>6, <1>7 DEF VarsIInv

LEMMA BreakCycleIInv ==
  ASSUME VarsIInv, NEW v \in Var, BreakCycle(v)
  PROVE  VarsIInv'
<1>1. /\ phase = "dead" /\ v \in alt
      /\ alt' = alt \ {v} /\ broken' = broken \union {v}
      /\ dead' = dead \union (Handled \ Handled')
      /\ UNCHANGED <<created, held, watched, inner, pending, copied, phase>>
  BY DEF BreakCycle
<1>2. Moves
  BY <1>1, Closed DEF Moves, Contents
<1>3. Handled' \subseteq Handled /\ Out' = Out \union (Handled \ Handled')
  BY <1>1, <1>2, MovesShrink DEF Out
<1>4. Gone' /\ Listed'
  BY <1>1, <1>3, OutKept
<1>5. VarsTypeOK'
  BY <1>1, <1>3, Closed DEF VarsIInv, VarsTypeOK
<1>6. ContentsExist' /\ Drained'
  BY <1>1 DEF VarsIInv, ContentsExist, Contents, Drained
<1>7. SetsApplied'
  BY <1>1, <1>2, SetsKept DEF SetsApplied
<1> QED
  BY <1>4, <1>5, <1>6, <1>7 DEF VarsIInv

LEMMA DestroyIInv ==
  ASSUME VarsIInv, Destroy
  PROVE  VarsIInv'
<1>1. /\ phase = "idle" /\ phase' = "destroyed" /\ dead' = {}
      /\ broken' = broken \union dead \union (Handled \ HandledGiven(Var))
      /\ UNCHANGED <<created, held, watched, inner, pending, copied, alt>>
  BY DEF Destroy
<1>2. Moves
  BY <1>1, Closed DEF Moves, Contents
<1>3. alt = {}
  BY <1>1 DEF VarsIInv, Drained
<1>4. HandledGiven(Var)' = HandledGiven(Var)
  BY <1>1 DEF HandledGiven, In, Contents
<1>5. broken' = Out \union (Handled \ HandledGiven(Var)')
  BY <1>1, <1>3, <1>4 DEF Out
<1>6. Handled' \subseteq Handled /\ Out' = Out \union (Handled \ Handled')
  BY <1>1, <1>2, <1>3, <1>5, MovesShrink, FreedAtOnce DEF Out
<1>7. Gone' /\ Listed'
  BY <1>1, <1>6, OutKept
<1>8. VarsTypeOK'
  BY <1>1, Closed DEF VarsIInv, VarsTypeOK
<1>9. ContentsExist' /\ Drained'
  BY <1>1, <1>3 DEF VarsIInv, ContentsExist, Contents, Drained
<1>10. SetsApplied'
  BY <1>1, <1>2, SetsKept DEF SetsApplied
<1> QED
  BY <1>7, <1>8, <1>9, <1>10 DEF VarsIInv

\* A new variable has a handle, and takes none from the others.
LEMMA NewVarIInv ==
  ASSUME VarsIInv, NEW v \in Var, NEW x \in Value(v), NewVar(v, x)
  PROVE  VarsIInv'
<1>1. /\ v \notin created
      /\ created' = created \union {v} /\ held' = held \union {v}
      /\ inner' = [inner EXCEPT ![v] = x]
      /\ UNCHANGED <<watched, pending, copied, broken, dead, alt, phase>>
  BY DEF NewVar
<1>2. x \in {NoVar} \union held
  BY DEF Value
<1>3. held \subseteq Handled /\ Handled \subseteq created /\ created \subseteq Var
  BY Closed DEF VarsIInv, VarsTypeOK
<1>4. \A u \in Var : Contents(u)' \subseteq Contents(u) \union (IF u = v THEN {x} ELSE {})
  BY <1>1 DEF Contents, VarsIInv, VarsTypeOK
<1>5. Handled' \subseteq Handled \union {v}
  <2>1. \A u \in Handled \union {v} \union watched' \union (created' \ broken') :
          Contents(u)' \intersect Var \subseteq Handled \union {v}
    <3> SUFFICES ASSUME NEW u \in Handled \union {v} \union watched' \union (created' \ broken'),
                        NEW w \in Contents(u)' \intersect Var
                 PROVE  w \in Handled \union {v}
      OBVIOUS
    <3>1. CASE u = v
      <4>1. Contents(v) \intersect Var = {}
        BY <1>1 DEF VarsIInv, ContentsExist
      <4> QED
        BY <3>1, <4>1, <1>2, <1>3, <1>4, NoVarNotSet
    <3>2. CASE u # v
      <4>1. u \in Handled \union watched \union (created \ broken) /\ u \in Var
        BY <1>1, <1>3, <3>2 DEF VarsIInv, VarsTypeOK
      <4>2. w \in Contents(u)
        BY <4>1, <3>2, <1>4
      <4> QED
        BY <4>1, <4>2, Closed
    <3> QED
      BY <3>1, <3>2
  <2>2. HandledGiven(broken)' \subseteq Handled \union {v}
    <3>1. Handled \union {v} \in SUBSET Var /\ held' \subseteq Handled \union {v}
      BY <1>1, <1>3
    <3> QED
      BY <3>1, <2>1 DEF HandledGiven, In
  <2> QED
    BY <2>2 DEF Handled
<1>6. Handled \subseteq Handled'
  <2> DEFINE S == Handled' \intersect created
  <2>1. held' \subseteq Var
    BY <1>1, <1>3
  <2>2. /\ held' \subseteq Handled'
        /\ \A u \in Handled' \union watched' \union (created' \ broken') :
             Contents(u)' \intersect Var \subseteq Handled'
    <3>1. PICK b : b = broken
      OBVIOUS
    <3>2. Handled' = HandledGiven(b)' /\ broken' = b
      BY <1>1, <3>1 DEF Handled, HandledGiven, In
    <3> QED
      BY <2>1, <3>2, HandledClosedNext
  <2>3. \A u \in S \union watched \union (created \ broken) : Contents(u) \intersect Var \subseteq S
    <3> SUFFICES ASSUME NEW u \in S \union watched \union (created \ broken),
                        NEW w \in Contents(u) \intersect Var
                 PROVE  w \in S
      OBVIOUS
    <3>1. u \in created
      BY DEF VarsIInv, VarsTypeOK
    <3>2. Contents(u)' = Contents(u)
      BY <1>1, <1>3, <3>1 DEF Contents, VarsIInv, VarsTypeOK
    <3>3. w \in Handled'
      BY <1>1, <2>2, <3>2
    <3> QED
      BY <1>3, <3>1, <3>3 DEF VarsIInv, ContentsExist
  <2>4. S \in SUBSET Var /\ held \subseteq S
    BY <1>1, <1>3, <2>2 DEF VarsIInv, VarsTypeOK
  <2> HIDE DEF S
  <2>5. Handled \subseteq S
    BY <2>3, <2>4, HandledLeast DEF Handled
  <2> QED
    BY <2>5 DEF S
<1>7. v \in Handled'
  BY <1>1 DEF Handled, HandledGiven
<1>8. Gone' /\ Listed'
  BY <1>1, <1>5, <1>6, <1>7 DEF VarsIInv, VarsTypeOK, Gone, Listed, Out
<1>9. VarsTypeOK'
  BY <1>1, <1>2, <1>3 DEF VarsIInv, VarsTypeOK
<1>10. ContentsExist' /\ Drained'
  BY <1>1, <1>2, <1>3, <1>4, NoVarNotSet DEF VarsIInv, ContentsExist, Drained
<1>11. SetsApplied'
  <2> SUFFICES ASSUME NEW w \in Var, pending'[w] # NotSet, Alive(w)'
               PROVE  w \notin broken' /\ phase' \in {"stabilising", "sets"}
    BY DEF SetsApplied
  <2>1. w # v
    BY <1>1 DEF VarsIInv, ContentsExist
  <2>2. Alive(w)
    BY <1>1, <1>5, <2>1 DEF Alive
  <2> QED
    BY <1>1, <2>2 DEF VarsIInv, SetsApplied
<1> QED
  BY <1>8, <1>9, <1>10, <1>11 DEF VarsIInv

\* The steps that only move stabilise on.
LEMMA PhaseIInv ==
  ASSUME VarsIInv, StabiliseBegins \/ SetsBegin \/ DeadBegin \/ SwapDead \/ DeadEnd \/ StabiliseEnds
  PROVE  VarsIInv'
<1> USE DEF StabiliseBegins, SetsBegin, DeadBegin, SwapDead, DeadEnd, StabiliseEnds
<1>1. UNCHANGED <<created, held, watched, inner, pending, copied, broken>>
  OBVIOUS
<1>2. Handled' = Handled /\ \A v \in Var : Alive(v)' = Alive(v)
  BY <1>1 DEF Handled, HandledGiven, In, Contents, Alive
<1>3. Out' = Out
  BY <1>1 DEF Out
<1>4. VarsTypeOK'
  BY <1>1 DEF VarsIInv, VarsTypeOK
<1>5. ContentsExist' /\ Gone' /\ Listed'
  BY <1>1, <1>2, <1>3 DEF VarsIInv, ContentsExist, Contents, Gone, Listed
<1>6. Drained'
  BY DEF VarsIInv, Drained
<1>7. SetsApplied'
  BY <1>1, <1>2 DEF VarsIInv, SetsApplied
<1> QED
  BY <1>4, <1>5, <1>6, <1>7 DEF VarsIInv

LEMMA StutterIInv ==
  ASSUME VarsIInv, UNCHANGED lifetimeVars
  PROVE  VarsIInv'
<1>1. Handled' = Handled /\ \A v \in Var : Alive(v)' = Alive(v)
  BY DEF lifetimeVars, Handled, HandledGiven, In, Contents, Alive
<1> QED
  BY <1>1 DEF lifetimeVars, VarsIInv, VarsTypeOK, ContentsExist, Contents, Gone, Listed, Out, Drained, SetsApplied

LEMMA NextIInv == VarsIInv /\ [VarsNext]_lifetimeVars => VarsIInv'
<1> SUFFICES ASSUME VarsIInv, [VarsNext]_lifetimeVars PROVE VarsIInv'
  OBVIOUS
<1>1. CASE VarsCall
  BY <1>1, NewVarIInv, SetIInv, TakeInnerIInv, DropHandleIInv, WatchIInv DEF VarsCall
<1>2. CASE \E v \in Var : Recompute(v)
  BY <1>2, RecomputeIInv
<1>3. CASE EndStep
  BY <1>3, ApplySetIInv, BreakCycleIInv, PhaseIInv DEF EndStep
<1>4. CASE StabiliseBegins \/ SetsBegin \/ StabiliseEnds
  BY <1>4, PhaseIInv
<1>5. CASE Destroy
  BY <1>5, DestroyIInv
<1>6. CASE UNCHANGED lifetimeVars
  BY <1>6, StutterIInv
<1> QED
  BY <1>1, <1>2, <1>3, <1>4, <1>5, <1>6 DEF VarsNext

LEMMA VarsInvariance == VarsSpec => []VarsIInv
BY InitIInv, NextIInv, PTL DEF VarsSpec

-----------------------------------------------------------------------------
\* The types, and that values refer only to variables that exist (var.rs, State).
THEOREM VarsTypeCorrect == VarsSpec => []VarsTypeOK
<1>1. VarsIInv => VarsTypeOK
  BY DEF VarsIInv
<1> QED
  BY <1>1, VarsInvariance, PTL

(***************************************************************************)
(* Var::set and set_var_stabilise_end never find a variable without its    *)
(* watch node (the expect of var.rs), and no set is left over.             *)
(***************************************************************************)
THEOREM SetsMeetTheirWatch == VarsSpec => []SetMeetsWatch
<1>1. VarsIInv => SetMeetsWatch
  BY DEF VarsIInv, Gone, Out, SetsApplied, SetMeetsWatch
<1> QED
  BY <1>1, VarsInvariance, PTL

(***************************************************************************)
(* Drop for Var and the end of stabilise forget no variable, whatever held *)
(* its last handle and however deep it was nested.                         *)
(***************************************************************************)
THEOREM NothingLeaks == VarsSpec => []NoneForgotten
<1>1. VarsIInv => NoneForgotten
  BY DEF VarsIInv, Listed, Out, NoneForgotten, OnlyCycle, Alive
<1> QED
  BY <1>1, VarsInvariance, PTL

-----------------------------------------------------------------------------
(***************************************************************************)
(* All that is unreachable is freed.  What is left when dead_vars is empty *)
(* has a handle somewhere, in a variable that may itself be unreachable;   *)
(* but types nest, so the least of the unreachable ones cannot be held by  *)
(* another.                                                                *)
(***************************************************************************)
Nested == \A u \in Var : \A w \in Contents(u) \intersect Var : u < w

LEMMA NestedInvariance == VarsSpec => []Nested
<1>1. VarsInit => Nested
  BY NoVarNotSet DEF VarsInit, Nested, Contents
<1>2. VarsIInv /\ Nested /\ [VarsNext]_lifetimeVars => Nested'
  <2> SUFFICES ASSUME VarsIInv, Nested, [VarsNext]_lifetimeVars,
                      NEW u \in Var, NEW w \in Var, w \in Contents(u)'
               PROVE  u < w
    BY DEF Nested
  <2>1. CASE w \in Contents(u)
    BY <2>1 DEF Nested
  <2>2. ASSUME NEW v \in Var, NEW x \in Value(v), NewVar(v, x) \/ Set(v, x)
        PROVE  u < w
    <3>1. w \in Contents(u) \/ (u = v /\ w = x)
      BY <2>2 DEF NewVar, Set, Contents, VarsIInv, VarsTypeOK
    <3>2. w = x /\ u = v => u < w
      BY NoVarNotSet DEF Value
    <3> QED
      BY <3>1, <3>2, <2>1
  <2>3. ASSUME NEW v \in Var, Recompute(v) \/ ApplySet(v)
        PROVE  u < w
    <3>1. w \in Contents(u)
      BY <2>3, NoVarNotSet DEF Recompute, ApplySet, Contents, VarsIInv, VarsTypeOK
    <3> QED
      BY <3>1, <2>1
  <2>4. CASE UNCHANGED <<inner, pending, copied>>
    BY <2>4, <2>1 DEF Contents
  <2> QED
    BY <2>2, <2>3, <2>4
    DEF VarsNext, VarsCall, EndStep, TakeInner, DropHandle, Watch, Unwatch, StabiliseBegins, SetsBegin,
        DeadBegin, SwapDead, BreakCycle, DeadEnd, StabiliseEnds, Destroy, lifetimeVars
<1> QED
  BY <1>1, <1>2, VarsInvariance, PTL DEF VarsSpec

LEMMA LeastVar ==
  ASSUME NEW S, S \subseteq Var, S # {}
  PROVE  \E v \in S : \A u \in S : ~(u < v)
<1>1. S \subseteq Nat
  BY NumVarsAssumption DEF Var
<1>2. PICK v \in S : \A u \in S : ~(<<u, v>> \in OpToRel(<, Nat))
  BY <1>1, NatLessThanWellFounded, WFMin
<1> QED
  BY <1>1, <1>2 DEF OpToRel

LEMMA NothingLeft ==
  ASSUME VarsIInv, Nested, dead \union alt = {}
  PROVE  Garbage = {}
<1> SUFFICES ASSUME Garbage # {} PROVE FALSE
  OBVIOUS
<1>1. held \subseteq Var /\ created \subseteq Var /\ watched \subseteq created
  BY DEF VarsIInv, VarsTypeOK
<1>2. PICK v \in Garbage : \A u \in Garbage : ~(u < v)
  <2>1. Garbage \subseteq Var
    BY <1>1 DEF Garbage
  <2> QED
    BY <2>1, LeastVar
<1>3. v \in created /\ v \notin watched /\ v \notin HandledGiven(Var)
  BY DEF Garbage
<1>4. v \in Handled
  BY <1>3 DEF Garbage, Alive, VarsIInv, Listed, Out
<1>5. /\ held \subseteq HandledGiven(Var)
      /\ \A u \in HandledGiven(Var) \union watched :
           Contents(u) \intersect Var \subseteq HandledGiven(Var)
  BY <1>1, HandledClosed
<1> DEFINE S == Handled \ {v}
<1>6. ASSUME NEW u \in S \union watched \union (created \ broken),
             NEW w \in Contents(u) \intersect Var
      PROVE  w \in S
  <2>1. w \in Handled
    BY Closed
  <2>2. u \in created /\ Alive(u)
    BY <1>1, Closed DEF Alive
  <2>3. w # v
    <3> SUFFICES ASSUME w = v PROVE FALSE
      OBVIOUS
    <3>1. u < v
      BY <1>1, <2>2 DEF Nested
    <3>2. u \in watched \union HandledGiven(Var)
      BY <1>2, <2>2, <3>1 DEF Garbage
    <3> QED
      BY <1>3, <1>5, <3>2
  <2> QED
    BY <2>1, <2>3
<1>7. S \in SUBSET Var /\ held \subseteq S
  BY <1>1, <1>3, <1>5, Closed
<1> HIDE DEF S
<1>8. Handled \subseteq S
  BY <1>6, <1>7, HandledLeast DEF Handled
<1> QED
  BY <1>4, <1>8 DEF S

(***************************************************************************)
(* The loop of stabilise_end over dead_vars leaves nothing behind that     *)
(* user code cannot reach, in any depth of variables in variables.         *)
(***************************************************************************)
THEOREM EverythingIsFreed == VarsSpec => FreedByStabilise
<1>1. VarsIInv /\ Nested /\ [VarsNext]_lifetimeVars => [FreedAtEnd]_lifetimeVars
  <2> SUFFICES ASSUME VarsIInv, Nested, VarsNext, phase = "dead", phase' = "handlers"
               PROVE  Garbage' = {}
    BY DEF FreedAtEnd
  <2>1. DeadEnd
    BY DEF VarsNext, VarsCall, EndStep, NewVar, Set, TakeInner, DropHandle, Watch, Unwatch, UserRuns,
           StabiliseBegins, Recompute, SetsBegin, ApplySet, DeadBegin, SwapDead, BreakCycle,
           StabiliseEnds, Destroy
  <2>2. Garbage = {}
    BY <2>1, NothingLeft DEF DeadEnd
  <2> QED
    BY <2>1, <2>2 DEF DeadEnd, Garbage, Alive, Handled, HandledGiven, In, Contents
<1> QED
  BY <1>1, VarsInvariance, NestedInvariance, PTL DEF VarsSpec, FreedByStabilise
=============================================================================
