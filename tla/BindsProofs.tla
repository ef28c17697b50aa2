----------------------------- MODULE BindsProofs -----------------------------
(***************************************************************************)
(* Theorems about Binds, for any graph, any program of the closures and    *)
(* any number of nodes that they make: the types of all fields, that what  *)
(* a run of a closure created dies with the run, and that heights rise.    *)
(* The invariant, the calls that follow one another and the run of a       *)
(* closure are in BindsInvariant; here are the steps of the user, the      *)
(* types, and at last the heights, through all the steps once more.        *)
(***************************************************************************)
EXTENDS BindsInvariant

-----------------------------------------------------------------------------
(***************************************************************************)
(* The calls of the user, and the first and the last step of stabilise.    *)
(***************************************************************************)
LEMMA CallsKept ==
  ASSUME NEW rank, UNCHANGED <<kind, calls>>, Stack(rank), CallsTyped, Covered
  PROVE  /\ Stack(rank)' /\ CallsTyped' /\ Covered'
         /\ \A d, k, q : Called(d, k, q)' <=> Called(d, k, q)
<1>1. Stack(rank)' /\ Covered' /\ \A d, k, q : Called(d, k, q)' <=> Called(d, k, q)
  BY DEF Stack, Covered, Called
<1>2. CallsTyped'
  <2>1. SUFFICES ASSUME NEW f \in Range(calls), CallTyped(f) PROVE CallTyped(f)'
    BY DEF CallsTyped
  <2> QED BY <2>1 DEF CallTyped, Exists, IsMain
<1> QED BY <1>1, <1>2

\* The user's calls between two stabilisations.
LEMMA UserInv ==
  ASSUME NEW rank \in [Node -> Nat], TypeOK, Inv(rank),
         UNCHANGED <<made, children, created, valid, values, height, links, invalidated, turn, calls>>,
         \/ heap' = heap
         \/ \E v \in VarNode : ~stabilising /\ valid[v] /\ Necessary(v) /\ heap' = heap \union {v}
  PROVE  Inv(rank)'
<1>0. Stack(rank) /\ CallsTyped /\ Covered /\ Heap
  BY DEF Inv
<1>1. /\ Stack(rank)' /\ CallsTyped' /\ Covered'
      /\ \A d, k, q : Called(d, k, q)' <=> Called(d, k, q)
  BY <1>0, CallsKept DEF made
<1>2. Graph' /\ Ranked(rank)'
  BY GraphKept DEF Inv, made
<1>3. Validity'
  BY <1>1, ValidityKept DEF Inv, made, Marked, Dying
<1>4. Links' /\ Observers' /\ Times'
  BY <1>1, LinksKept, ObserversKept, TimesKept
     DEF Inv, made, links, values, turn, Link, Unlink, Marked, Placing
<1>5. Told'
  BY <1>1, ToldKept DEF Inv, made, links, turn, Link, Dying, Marked, Queued
<1>6. Heap'
  <2>1. \A k : Queued(k)' => Queued(k) \/ (valid[k] /\ Necessary(k))
    BY DEF turn, Queued
  <2>2. ASSUME NEW k \in Node PROVE Heaped(k)'
    <3>1. Heaped(k)
      BY <1>0 DEF Heap
    <3>2. (Necessary(k)' <=> Necessary(k)) /\ valid'[k] = valid[k] /\ height'[k] = height[k]
      BY DEF Necessary, links
    <3>3. (Marked(k)' <=> Marked(k)) /\ (Called("lower", k, NoNode)' <=> Called("lower", k, NoNode))
      BY <1>1 DEF Marked
    <3> QED BY <2>1, <3>1, <3>2, <3>3 DEF Heaped
  <2>3. direct' = direct /\ calls' = calls /\ stabilising' = stabilising
    BY DEF turn
  <2>4. ~stabilising => heap' \subseteq VarNode
    BY <1>0 DEF Heap
  <2> QED BY <1>0, <2>2, <2>3, <2>4 DEF Heap
<1> QED BY <1>1, <1>2, <1>3, <1>4, <1>5, <1>6 DEF Inv

LEMMA SetVarInv ==
  ASSUME NEW rank \in [Node -> Nat], TypeOK, Inv(rank), NEW v \in VarNode, NEW x, valid[v],
         SetVar(v, x)
  PROVE  Inv(rank)'
<1>1. UNCHANGED <<made, children, created, valid, values, height, links, invalidated, turn, calls>>
  BY DEF SetVar
<1>2. \/ heap' = heap
      \/ ~stabilising /\ valid[v] /\ Necessary(v) /\ heap' = heap \union {v}
  BY DEF SetVar
<1> QED BY <1>1, <1>2, UserInv

LEMMA ToggleObserverInv ==
  ASSUME NEW rank \in [Node -> Nat], TypeOK, Inv(rank), NEW n, ToggleObserver(n)
  PROVE  Inv(rank)'
BY UserInv DEF ToggleObserver

LEMMA StartCalls ==
  ASSUME NEW rank, NEW s, s = DoEach("add_observer", Observable) \o DoEach("remove_observer", Observable)
  PROVE  /\ s \in Seq(Call) /\ Ordered(rank, s) /\ Heard(s)
         /\ \A d, n, p : [do |-> d, node |-> n, with |-> p] \in Range(s) <=>
              d \in Observing /\ n \in Range(Observable) /\ p = NoNode
<1>1. Observable \in Seq(Node \union {NoNode}) /\ \A n \in Range(Observable) : n \in Node
  <2>1. Observable \in Seq(Top \ LhsNode)
    BY NodeAssumption
  <2>2. \A n \in Range(Observable) : n \in Top \ LhsNode
    BY <2>1, ElementInSet
  <2>3. Observable \in Seq(Node \union {NoNode})
    <3>1. \A S, T : \A t \in Seq(S) : S \subseteq T => t \in Seq(T)
      OBVIOUS
    <3>2. Top \ LhsNode \subseteq Node \union {NoNode}
      BY DEF Node
    <3> QED BY <2>1, <3>1, <3>2
  <2> QED BY <2>2, <2>3 DEF Node
<1> DEFINE a == DoEach("add_observer", Observable)
           r == DoEach("remove_observer", Observable)
<1>2. /\ a \in Seq(Call)
      /\ \A d, n, p : [do |-> d, node |-> n, with |-> p] \in Range(a)
              <=> d = "add_observer" /\ n \in Range(Observable) /\ p = NoNode
  <2>1. "add_observer" \in Function
    BY DEF Function
  <2> QED BY <1>1, <2>1, DoEachFacts
<1>3. /\ r \in Seq(Call)
      /\ \A d, n, p : [do |-> d, node |-> n, with |-> p] \in Range(r)
              <=> d = "remove_observer" /\ n \in Range(Observable) /\ p = NoNode
  <2>1. "remove_observer" \in Function
    BY DEF Function
  <2> QED BY <1>1, <2>1, DoEachFacts
<1> HIDE DEF a, r
<1>4. s = a \o r
  BY DEF a, r
<1>5. s \in Seq(Call) /\ \A x : x \in Range(s) <=> x \in Range(a) \/ x \in Range(r)
  <2>1. /\ a \o r \in Seq(Call)
        /\ \A x : x \in Range(a \o r) <=> x \in Range(a) \/ x \in Range(r)
    BY <1>2, <1>3, Concatenation
  <2> QED BY <1>4, <2>1, Zenon
<1>6. ASSUME NEW d, NEW n, NEW p
      PROVE  [do |-> d, node |-> n, with |-> p] \in Range(s) <=>
               d \in Observing /\ n \in Range(Observable) /\ p = NoNode
  <2> DEFINE g == [do |-> d, node |-> n, with |-> p]
  <2>1. g \in Range(a) <=> d = "add_observer" /\ n \in Range(Observable) /\ p = NoNode
    BY <1>2
  <2>2. g \in Range(r) <=> d = "remove_observer" /\ n \in Range(Observable) /\ p = NoNode
    BY <1>3
  <2>3. g \in Range(s) <=> g \in Range(a) \/ g \in Range(r)
    BY <1>5
  <2> HIDE DEF g
  <2>4. g \in Range(s) <=> d \in Observing /\ n \in Range(Observable) /\ p = NoNode
    BY <2>1, <2>2, <2>3 DEF Observing
  <2> QED BY <2>4 DEF g
<1>7. ASSUME NEW i \in DOMAIN s PROVE s[i].do \in Observing
  <2>0. DOMAIN s = 1 .. Len(s)
    BY <1>5
  <2>1. s[i] \in Range(s) /\ s[i] \in Call
    <3>1. s[i] \in Range(s)
      BY <1>7, Zenon DEF Range
    <3> QED BY <1>5, <3>1, ElementInSet
  <2>2. PICK f \in Call : f = s[i]
    BY <2>1
  <2>3. f = [do |-> f.do, node |-> f.node, with |-> f.with]
    BY <2>2, CallFields, Zenon
  <2>4. [do |-> f.do, node |-> f.node, with |-> f.with] \in Range(s)
    BY <2>1, <2>2, <2>3
  <2>5. f.do \in Observing
    BY <1>6, <2>4
  <2> QED BY <2>2, <2>5
<1>8. Ordered(rank, s)
  <2>1. ASSUME NEW f, NEW g, f.do \in Observing, g.do \in Observing PROVE Before(rank, f, g)
    BY <2>1 DEF Before, Observing, Linking, Ending
  <2> QED BY <1>7, <2>1 DEF Ordered
<1>9. Heard(s)
  BY <1>7 DEF Heard, Adding, Observing
<1> QED BY <1>5, <1>6, <1>8, <1>9

LEMMA StabiliseStartInv ==
  ASSUME NEW rank \in [Node -> Nat], TypeOK, Inv(rank), StabiliseStart
  PROVE  Inv(rank)'
<1>0. Heap /\ ~stabilising /\ calls = <<>> /\ direct = {}
  BY DEF Inv, Heap, StabiliseStart
<1>1. \A d, n, p : ~Called(d, n, p)
  BY <1>0, Idle
<1>2. stabilising' /\ UNCHANGED <<made, children, created, valid, values, height, links, heap, invalidated, now,
                 direct, panicked, user>>
  BY DEF StabiliseStart
<1> DEFINE s == DoEach("add_observer", Observable) \o DoEach("remove_observer", Observable)
<1>4. calls' = s
  BY DEF StabiliseStart
<1>5. /\ s \in Seq(Call) /\ Ordered(rank, s) /\ Heard(s)
      /\ \A d, n, p : [do |-> d, node |-> n, with |-> p] \in Range(s) <=>
           d \in Observing /\ n \in Range(Observable) /\ p = NoNode
  BY StartCalls, Zenon
<1> HIDE DEF s
<1>6. \A f \in Range(s) : CallTyped(f)'
  <2>1. ASSUME NEW f \in Range(s) PROVE CallTyped(f)'
    <3>1. f \in Call
      BY <1>5, ElementInSet
    <3>2. f = [do |-> f.do, node |-> f.node, with |-> f.with]
      BY <3>1, CallFields, Zenon
    <3>3. PICK d, n, p : d = f.do /\ n = f.node /\ p = f.with
      OBVIOUS
    <3>30. [do |-> d, node |-> n, with |-> p] \in Range(s)
      BY <2>1, <3>2, <3>3
    <3>31. d \in Observing /\ n \in Range(Observable) /\ p = NoNode
      <4>1. [do |-> d, node |-> n, with |-> p] \in Range(s) <=>
              d \in Observing /\ n \in Range(Observable) /\ p = NoNode
        BY <1>5
      <4> QED BY <3>30, <4>1, Zenon
    <3>4. f.do \in Observing /\ f.node \in Range(Observable) /\ f.with = NoNode
      BY <3>3, <3>31
    <3>5. f.node # NoNode
      <4>1. Observable \in Seq(Top \ LhsNode) /\ NoNode \notin Node
        BY NodeAssumption
      <4> QED BY <3>4, <4>1, ElementInSet DEF Node
    <3> QED BY <3>4, <3>5 DEF CallTyped, Observing, Paired
  <2> QED BY <2>1
<1>7. /\ Stack(rank)' /\ CallsTyped' /\ Covered'
      /\ \A d, n, p : Called(d, n, p)' <=> [do |-> d, node |-> n, with |-> p] \in Range(s)
  <2>1. UNCHANGED kind
    BY <1>2 DEF made
  <2> QED BY <1>0, <1>4, <1>5, <1>6, <2>1, Begin
<1>8. ASSUME NEW d, NEW n, NEW p, d \notin Observing PROVE ~Called(d, n, p)'
  <2>1. Called(d, n, p)' <=> [do |-> d, node |-> n, with |-> p] \in Range(s)
    BY <1>7
  <2>2. [do |-> d, node |-> n, with |-> p] \in Range(s) <=>
           d \in Observing /\ n \in Range(Observable) /\ p = NoNode
    BY <1>5
  <2> QED BY <1>8, <2>1, <2>2
<1>9. \A d, n, p : d \notin Observing => (Called(d, n, p)' <=> Called(d, n, p))
  BY <1>1, <1>8
<1>10. Graph' /\ Ranked(rank)'
  BY <1>2, GraphKept DEF Inv, made
<1>11. Validity'
  BY <1>2, <1>9, ValidityKept DEF Inv, made, Marked, Dying, Observing
<1>12. Links' /\ Observers' /\ Times'
  BY <1>2, <1>9, LinksKept, ObserversKept, TimesKept
     DEF Inv, made, links, values, turn, Link, Unlink, Marked, Placing, Observing
<1>13. Told'
  BY <1>2, <1>9, ToldKept DEF Inv, made, links, turn, Link, Dying, Marked, Queued, Observing
<1>14. Heap'
  <2>1. ASSUME NEW k \in Node PROVE Heaped(k)'
    <3>1. Heaped(k)
      BY <1>0 DEF Heap
    <3>2. (Queued(k)' <=> Queued(k)) /\ (Necessary(k)' <=> Necessary(k)) /\ valid' = valid /\ height' = height
      BY <1>2 DEF Queued, Necessary, links
    <3>3. (Marked(k)' <=> Marked(k)) /\ (Called("lower", k, NoNode)' => Called("lower", k, NoNode))
      BY <1>9 DEF Marked, Observing
    <3> QED BY <3>1, <3>2, <3>3 DEF Heaped
  <2> QED BY <1>0, <1>2, <2>1 DEF Heap
<1> QED BY <1>7, <1>10, <1>11, <1>12, <1>13, <1>14 DEF Inv

LEMMA StabiliseEndInv ==
  ASSUME NEW rank \in [Node -> Nat], TypeOK, Inv(rank), StabiliseEnd
  PROVE  Inv(rank)'
<1>0. Heap /\ Times /\ Stack(rank) /\ CallsTyped /\ Covered
  BY DEF Inv
<1>1. /\ calls = <<>> /\ heap \union direct = {} /\ ~stabilising' /\ now' = now + 1
      /\ UNCHANGED <<made, children, created, valid, values, height, links, heap, invalidated, calls,
                 direct, panicked, user>>
  BY DEF StabiliseEnd, TypeOK
<1>2. \A d, n, p : ~Called(d, n, p)
  BY <1>1, Idle
<1>3. /\ Stack(rank)' /\ CallsTyped' /\ Covered'
      /\ \A d, k, q : Called(d, k, q)' <=> Called(d, k, q)
  BY <1>0, <1>1, CallsKept DEF made
<1>4. Graph' /\ Ranked(rank)'
  BY <1>1, GraphKept DEF Inv, made
<1>5. Validity'
  BY <1>1, <1>3, ValidityKept DEF Inv, made, Marked, Dying
<1>6. Links' /\ Observers'
  BY <1>1, <1>3, LinksKept, ObserversKept
     DEF Inv, made, links, Link, Unlink, Marked, Placing
<1>7. Told'
  BY <1>1, <1>3, ToldKept DEF Inv, made, links, Link, Dying, Marked, Queued
<1>8. Times'
  <2>1. ASSUME NEW n \in Node PROVE changedAt'[n] <= now'
    <3>1. changedAt[n] <= now /\ changedAt[n] \in Int /\ now \in Nat
      BY <1>0 DEF Times, TypeOK
    <3>2. changedAt'[n] = changedAt[n]
      BY <1>1 DEF values
    <3> QED BY <1>1, <3>1, <3>2
  <2> QED BY <1>2, <1>3, <2>1 DEF Times, Marked
<1>9. Heap'
  <2>1. ASSUME NEW k \in Node PROVE Heaped(k)'
    <3>1. Heaped(k)
      BY <1>0 DEF Heap
    <3>2. (Queued(k)' <=> Queued(k)) /\ (Necessary(k)' <=> Necessary(k)) /\ valid' = valid /\ height' = height
      BY <1>1 DEF Queued, Necessary, links
    <3>3. (Marked(k)' <=> Marked(k)) /\ (Called("lower", k, NoNode)' => Called("lower", k, NoNode))
      BY <1>3 DEF Marked
    <3> QED BY <3>1, <3>2, <3>3 DEF Heaped
  <2> QED BY <1>0, <1>1, <2>1 DEF Heap
<1> QED BY <1>3, <1>4, <1>5, <1>6, <1>7, <1>8, <1>9 DEF Inv

-----------------------------------------------------------------------------
(***************************************************************************)
(* Types.                                                                  *)
(***************************************************************************)
LEMMA NodeFinite == IsFiniteSet(Node)
<1>1. TopNode \in Seq(Top) /\ IsFiniteSet(Fresh)
  BY NodeAssumption
<1>2. PICK len \in Nat : len = Len(TopNode) /\ DOMAIN TopNode = 1 .. len
  BY <1>1
<1>3. TopNode \in [1 .. len -> Top]
  BY <1>1, <1>2
<1>4. \A t \in Top : \E i \in 1 .. len : TopNode[i] = t
  BY <1>2 DEF Top, Range
<1>5. TopNode \in Surjection(1 .. len, Top)
  BY <1>3, <1>4 DEF Surjection
<1>6. IsFiniteSet(Top)
  <2>1. ExistsSurjection(1 .. len, Top)
    BY <1>5 DEF ExistsSurjection
  <2> QED BY <1>2, <2>1, FS_NatSurjection, Zenon
<1> QED BY <1>1, <1>6, FS_Union DEF Node

LEMMA PlaceHeight ==
  ASSUME TypeOK, NEW n \in Node, NEW S, S \subseteq Node
  PROVE  GreatestOf({height[n]} \union {height[c] + 1 : c \in S}) \in Int
<1> DEFINE above == [c \in Node |-> IF c \in S THEN {n} ELSE {}]
<1>1. above \in [Node -> SUBSET Node] /\ height \in [Node -> Int]
  BY DEF TypeOK
<1>2. GreatestOf(Bounds(above, height, height, n)) \in Int
  BY <1>1, NodeFinite, GreatestOfBounds
<1>3. Bounds(above, height, height, n) = {height[n]} \union {height[c] + 1 : c \in S}
  <2>1. {d \in DOMAIN above : n \in above[d]} = S
    OBVIOUS
  <2> QED BY <2>1 DEF Bounds
<1> QED BY <1>2, <1>3

LEMMA AboveRanked ==
  ASSUME NEW rank, TypeOK, Graph, Ranked(rank), Links
  PROVE  Above \in [Node -> SUBSET Node] /\ \A c \in Node : \A n \in Above[c] : rank[c] < rank[n]
<1>1. ASSUME NEW c \in Node, NEW n, n \in Range(parents[c]) PROVE n \in Node /\ rank[c] < rank[n]
  <2>1. n \in Node
    BY <1>1, ElementInSet DEF TypeOK
  <2>2. Child(c, n)
    BY <1>1, <2>1 DEF Links, Linked, IsParent
  <2>3. Exists(n)
    BY <2>1, <2>2, Children
  <2> QED BY <2>1, <2>2, <2>3 DEF Ranked, RankedAt, Child
<1>2. ASSUME NEW c \in Node, NEW n, n \in Range(created[c]) \ {NoNode} PROVE n \in Node /\ rank[c] < rank[n]
  <2>1. n \in Node
    <3>1. created[c] \in Seq(Node \union {NoNode})
      BY DEF TypeOK
    <3>2. n \in Node \union {NoNode}
      BY <1>2, <3>1, ElementInSet
    <3> QED BY <1>2, <3>2
  <2>2. InRun(n, c)
    BY <1>2 DEF InRun
  <2>3. Exists(c)
    BY <2>1, <2>2 DEF Graph, Created, Exists
  <2> QED BY <2>1, <2>2, <2>3 DEF Ranked, RankedAt
<1>3. \A c \in Node : Above[c] = Range(parents[c]) \union
        IF valid[c] THEN {m \in Range(created[c]) \ {NoNode} : Necessary(m)} ELSE {}
  BY DEF Above
<1>4. \A c \in Node : \A n \in Above[c] : n \in Node /\ rank[c] < rank[n]
  BY <1>1, <1>2, <1>3
<1> QED BY <1>4 DEF Above

LEMMA AdjustedHeights ==
  ASSUME NEW rank \in [Node -> Nat], TypeOK, Inv(rank)
  PROVE  LeastHeights(Above, height) \in [Node -> Int]
<1>1. Above \in [Node -> SUBSET Node] /\ \A c \in Node : \A n \in Above[c] : rank[c] < rank[n]
  BY AboveRanked DEF Inv
<1>2. height \in [Node -> Int] /\ IsFiniteSet(Node)
  BY NodeFinite DEF TypeOK
<1> QED BY <1>1, <1>2, LeastHeightsRecursion, Zenon

\* Vars are not invalidated.
VarsLive == \A v \in VarNode : valid[v] /\ ~Dying(v)

Harmless(first) == \A v \in VarNode, d \in {"invalidate", "mark"} :
  [do |-> d, node |-> v, with |-> NoNode] \notin Range(first)

LEMMA VarsLiveAfter ==
  ASSUME VarsLive, calls \in Seq(Call), calls # <<>>, NEW first \in Seq(Call), Calls(first),
         Harmless(first), \A v \in VarNode : valid'[v]
  PROVE  VarsLive' /\ calls' \in Seq(Call)
<1>1. /\ calls' \in Seq(Call)
      /\ \A d, n, p : Called(d, n, p) <=>
              Waiting(d, n, p) \/ Head(calls) = [do |-> d, node |-> n, with |-> p]
      /\ \A d, n, p : Called(d, n, p)' <=>
              Waiting(d, n, p) \/ [do |-> d, node |-> n, with |-> p] \in Range(first)
  BY Turn, Zenon DEF Calls
<1>2. ASSUME NEW v \in VarNode PROVE ~Dying(v)'
  <2>1. ~Called("invalidate", v, NoNode) /\ ~Called("mark", v, NoNode)
    BY DEF VarsLive, Dying, Marked
  <2>2. ~Waiting("invalidate", v, NoNode) /\ ~Waiting("mark", v, NoNode)
    BY <1>1, <2>1
  <2>3. /\ [do |-> "invalidate", node |-> v, with |-> NoNode] \notin Range(first)
        /\ [do |-> "mark", node |-> v, with |-> NoNode] \notin Range(first)
    BY DEF Harmless
  <2>4. ~Called("invalidate", v, NoNode)' /\ ~Called("mark", v, NoNode)'
    BY <1>1, <2>2, <2>3
  <2> QED BY <2>4 DEF Dying, Marked
<1> QED BY <1>1, <1>2 DEF VarsLive

LEMMA VarsLiveReturn ==
  ASSUME VarsLive, calls \in Seq(Call), calls # <<>>, Returns, \A v \in VarNode : valid'[v]
  PROVE  VarsLive' /\ calls' \in Seq(Call)
<1>1. Tail(calls) \in Seq(Call) /\ \A x : x \in Range(Tail(calls)) => x \in Range(calls)
  BY HeadAndTail
<1>2. \A v : Dying(v)' => Dying(v)
  BY <1>1 DEF Returns, Dying, Marked, Called
<1> QED BY <1>1, <1>2 DEF VarsLive, Returns

LEMMA VarsLiveKept ==
  ASSUME VarsLive, calls' = calls, \A v \in VarNode : valid'[v]
  PROVE  VarsLive'
BY DEF VarsLive, Dying, Marked, Called

LEMMA VarFacts ==
  ASSUME Graph, NEW v \in VarNode
  PROVE  v \in Node /\ v \in Top /\ kind[v] = "Var" /\ children[v] = <<>> /\ scope[v] = NoNode /\ v \notin Fresh
         /\ \A b \in Node : ~InRun(v, b)
<1>1. v \in Top /\ v \in Node /\ v \notin Fresh /\ TopKind[v] = "Var"
  BY NodeAssumption DEF VarNode, Node
<1>2. kind[v] = "Var" /\ scope[v] = NoNode
  BY <1>1 DEF Graph, TopNodes
<1>3. children[v] = <<>>
  BY <1>1, <1>2 DEF Graph, Shapes, Shape
<1>4. \A b \in Node : ~InRun(v, b)
  BY <1>1, <1>2, NodeAssumption DEF Graph, Created
<1> QED BY <1>1, <1>2, <1>3, <1>4

LEMMA BecameNecessaryCalls ==
  ASSUME NEW rank \in [Node -> Nat], TypeOK, Graph, VarsLive, calls # <<>>, NEW n \in Node,
         NEW after, after \in {<<>>, <<Do("propagate_invalidity", NoNode)>>},
         BecameNecessary(n, after), valid' = valid
  PROVE  VarsLive' /\ calls' \in Seq(Call) /\ height' \in [Node -> Int] /\ panicked' \in BOOLEAN
<1>1. /\ Starts(n) \in Seq(Call)
      /\ \A d, k, q : [do |-> d, node |-> k, with |-> q] \in Range(Starts(n)) => StartsCall(n, d, k, q)
  BY StartsFacts
<1> DEFINE pi == Do("propagate_invalidity", NoNode)
<1>2. pi \in Call /\ pi = [do |-> "propagate_invalidity", node |-> NoNode, with |-> NoNode]
  BY CallMade DEF Do, Function
<1>3. after \in Seq(Call) /\ \A x : x \in Range(after) => x = pi
  <2>1. CASE after = <<>>
    BY <2>1, NothingOrdered
  <2>2. CASE after = <<pi>>
    <3> HIDE DEF pi
    <3>1. <<pi>> \in Seq(Call) /\ \A g : g \in Range(<<pi>>) <=> g = pi
      BY <1>2, OneCall
    <3> QED BY <2>2, <3>1
  <2> QED BY <2>1, <2>2
<1> HIDE DEF pi
<1>4. PICK first : first = Starts(n) \o after
  OBVIOUS
<1>5. first \in Seq(Call) /\ \A x : x \in Range(first) <=> x \in Range(Starts(n)) \/ x \in Range(after)
  <2>1. /\ Starts(n) \o after \in Seq(Call)
        /\ \A x : x \in Range(Starts(n) \o after) <=> x \in Range(Starts(n)) \/ x \in Range(after)
    BY <1>1, <1>3, Concatenation
  <2> QED BY <1>4, <2>1, Zenon
<1>6. Calls(first)
  <2>1. calls' = (ForChildren("add_parent", n) \o <<Do("place", n)>> \o after) \o Tail(calls)
    BY DEF BecameNecessary, Calls
  <2> QED BY <1>4, <2>1 DEF Calls, Starts
<1>7. Harmless(first)
  <2>1. SUFFICES ASSUME NEW v \in VarNode, NEW d \in {"invalidate", "mark"}
                 PROVE  [do |-> d, node |-> v, with |-> NoNode] \notin Range(first)
    BY DEF Harmless
  <2>2. ~StartsCall(n, d, v, NoNode)
    BY DEF StartsCall
  <2>3. [do |-> d, node |-> v, with |-> NoNode] # pi
    BY <1>2
  <2>4. [do |-> d, node |-> v, with |-> NoNode] \notin Range(Starts(n))
    BY <1>1, <2>2, Zenon
  <2> QED BY <1>3, <1>5, <2>3, <2>4
<1>8. VarsLive' /\ calls' \in Seq(Call)
  <2>1. \A v \in VarNode : valid'[v]
    BY DEF VarsLive
  <2>2. calls \in Seq(Call)
    BY DEF TypeOK
  <2> QED BY <1>5, <1>6, <1>7, <2>1, <2>2, VarsLiveAfter
<1>9. panicked' \in BOOLEAN
  BY Zenon DEF BecameNecessary
<1>10. height' \in [Node -> Int]
  BY DEF BecameNecessary, StartHeight, ScopeHeight, TypeOK
<1> QED BY <1>8, <1>9, <1>10

LEMMA BecameUnnecessaryCalls ==
  ASSUME TypeOK, Graph, VarsLive, calls # <<>>, NEW n \in Node, BecameUnnecessary(n), valid' = valid
  PROVE  VarsLive' /\ calls' \in Seq(Call) /\ height' \in [Node -> Int] /\ heap' \subseteq Node
<1>1. PICK first : first = ForChildren("remove_parent", n)
  OBVIOUS
<1>2. /\ first \in Seq(Call)
      /\ \A d, c, p : [do |-> d, node |-> c, with |-> p] \in Range(first)
              <=> d = "remove_parent" /\ valid[n] /\ Child(c, n) /\ p = n
  <2>1. "remove_parent" \in Function /\ children \in [Node -> Seq(Node)]
    BY DEF Function, TypeOK
  <2> QED BY <1>1, <2>1, ForChildrenFacts
<1>3. Harmless(first)
  BY <1>2 DEF Harmless
<1>4. Calls(first) /\ calls \in Seq(Call) /\ \A v \in VarNode : valid'[v]
  BY <1>1 DEF BecameUnnecessary, VarsLive, TypeOK
<1>5. VarsLive' /\ calls' \in Seq(Call)
  BY <1>2, <1>3, <1>4, VarsLiveAfter
<1> QED BY <1>5 DEF BecameUnnecessary, TypeOK

LEMMA LowerTyped ==
  ASSUME NEW rank, TypeOK, Inv(rank), VarsLive, NEW n, NEW p, Runs("lower", n, p), Lower(n)
  PROVE  TypeOK' /\ VarsLive'
<1>1. n \in Node /\ calls # <<>> /\ calls \in Seq(Call)
  <2>1. Scene(rank, "lower", n, p)
    BY Context, Zenon
  <2> QED BY <2>1 DEF Scene, Paired
<1>2. Returns /\ \A v \in VarNode : valid'[v]
  BY DEF Lower, VarsLive
<1>3. VarsLive' /\ calls' \in Seq(Call)
  BY <1>1, <1>2, VarsLiveReturn
<1>4. height' \in [Node -> Int]
  BY <1>1 DEF Lower, ScopeHeight, TypeOK
<1> QED BY <1>3, <1>4 DEF Lower, TypeOK, made, values, links, turn, user

LEMMA PlaceTyped ==
  ASSUME NEW rank, TypeOK, Inv(rank), VarsLive, NEW n, NEW p, Runs("place", n, p), Place(n)
  PROVE  TypeOK' /\ VarsLive'
<1>1. n \in Node /\ calls # <<>> /\ calls \in Seq(Call)
  <2>1. Scene(rank, "place", n, p)
    BY Context, Zenon
  <2> QED BY <2>1 DEF Scene, Paired
<1>2. Returns /\ \A v \in VarNode : valid'[v]
  BY DEF Place, VarsLive
<1>3. VarsLive' /\ calls' \in Seq(Call)
  BY <1>1, <1>2, VarsLiveReturn
<1>4. height' \in [Node -> Int]
  <2>1. Range(ChildrenOf(n)) \subseteq Node
    <3>1. ChildrenOf(n) \in Seq(Node)
      <4>1. children[n] \in Seq(Node)
        BY <1>1 DEF TypeOK
      <4> QED BY <4>1, NothingOrdered DEF ChildrenOf
    <3> QED BY <3>1, ElementInSet
  <2> DEFINE g == GreatestOf({height[n]} \union {height[c] + 1 : c \in Range(ChildrenOf(n))})
  <2>2. g \in Int
    BY <1>1, <2>1, PlaceHeight
  <2>3. height' = [height EXCEPT ![n] = g]
    BY DEF Place, GreatestOf
  <2> HIDE DEF g
  <2> QED BY <1>1, <2>2, <2>3 DEF TypeOK
<1>5. heap' \subseteq Node
  BY <1>1 DEF Place, TypeOK
<1> QED BY <1>3, <1>4, <1>5 DEF Place, TypeOK, made, values, links, turn, user

LEMMA AdjustHeightsTyped ==
  ASSUME NEW rank \in [Node -> Nat], TypeOK, Inv(rank), VarsLive, NEW c, NEW p,
         Runs("adjust_heights", c, p), AdjustHeights(c, p)
  PROVE  TypeOK' /\ VarsLive'
<1>1. calls # <<>> /\ calls \in Seq(Call)
  <2>1. Scene(rank, "adjust_heights", c, p)
    BY Context, Zenon
  <2> QED BY <2>1 DEF Scene, Paired
<1>2. Returns /\ \A v \in VarNode : valid'[v]
  BY DEF AdjustHeights, VarsLive
<1>3. VarsLive' /\ calls' \in Seq(Call)
  BY <1>1, <1>2, VarsLiveReturn
<1>4. PICK raised \in [Node -> Int] : raised = LeastHeights(Above, height)
  BY AdjustedHeights
<1>5. height' = height \/ height' = [n \in Node |-> IF Necessary(n) THEN raised[n] ELSE height[n]]
  BY <1>4 DEF AdjustHeights
<1>6. height' \in [Node -> Int]
  BY <1>5 DEF TypeOK
<1>7. panicked' \in BOOLEAN
  <2>1. CASE height[c] < height[p]
    BY <2>1 DEF AdjustHeights, TypeOK
  <2>2. CASE ~(height[c] < height[p])
    <3> DEFINE X == \E b \in {n \in Node : Necessary(n) /\ raised[n] # height[n]} :
                       valid[b] /\ NoNode \in Range(created[b])
    <3>1. panicked' = X
      BY <1>4, <2>2, Zenon DEF AdjustHeights
    <3>2. X \in BOOLEAN
      OBVIOUS
    <3> QED BY <3>1, <3>2, Zenon
  <2> QED BY <2>1, <2>2
<1> QED BY <1>3, <1>6, <1>7 DEF AdjustHeights, TypeOK, made, values, links, turn, user

LEMMA QueueIfOlderTyped ==
  ASSUME NEW rank, TypeOK, Inv(rank), VarsLive, NEW c, NEW p,
         Runs("queue_if_older", c, p), QueueIfOlder(c, p)
  PROVE  TypeOK' /\ VarsLive'
<1>1. p \in Node /\ calls # <<>> /\ calls \in Seq(Call)
  <2>1. Scene(rank, "queue_if_older", c, p)
    BY Context, Zenon
  <2> QED BY <2>1 DEF Scene, Paired
<1>2. Returns /\ \A v \in VarNode : valid'[v]
  BY DEF QueueIfOlder, VarsLive
<1>3. VarsLive' /\ calls' \in Seq(Call)
  BY <1>1, <1>2, VarsLiveReturn
<1>4. heap' \subseteq Node /\ panicked' \in BOOLEAN
  <2>1. Insert(p) \/ UNCHANGED <<heap, panicked>>
    BY DEF QueueIfOlder
  <2>2. CASE Insert(p)
    <3>1. heap' \subseteq Node
      BY <1>1, <2>2 DEF Insert, TypeOK
    <3>2. panicked' \in BOOLEAN
      BY <2>2, Zenon DEF Insert
    <3> QED BY <3>1, <3>2
  <2> QED BY <2>1, <2>2 DEF TypeOK
<1> QED BY <1>3, <1>4 DEF QueueIfOlder, TypeOK, made, values, links, turn, user

LEMMA ChangeTyped ==
  ASSUME NEW rank, TypeOK, Inv(rank), VarsLive, NEW b, NEW p, Runs("change", b, p), Change(b)
  PROVE  TypeOK' /\ VarsLive'
<1>1. /\ b \in Node /\ calls # <<>> /\ calls \in Seq(Call)
      /\ \A k \in Node : ~Unlink(b, k)
  <2>1. Scene(rank, "change", b, p)
    BY Context, Zenon
  <2>2. ASSUME NEW k \in Node PROVE ~Called("remove_parent", b, k)
    <3>1. ~Waiting("remove_parent", b, k)
      BY <2>1, Zenon DEF Scene, Under
    <3> QED BY <2>1, <3>1 DEF Scene
  <2> QED BY <2>1, <2>2 DEF Scene, Unlink
<1>2. Returns /\ \A v \in VarNode : valid'[v]
  BY DEF Change, VarsLive
<1>3. VarsLive' /\ calls' \in Seq(Call)
  BY <1>1, <1>2, VarsLiveReturn
<1>4. /\ heap' \subseteq Node /\ direct' \subseteq Node
      /\ value' \in [Node -> Bit \union {NoValue}] /\ changedAt' \in [Node -> Int]
  <2>1. MaybeChangeValue(b, 0) /\ Links
    BY DEF Change, Inv
  <2>2. 0 \in Bit \union {NoValue}
    BY DEF Bit
  <2> QED BY <1>1, <2>1, <2>2, MaybeChangeValueFacts
<1> QED BY <1>3, <1>4 DEF Change, TypeOK, made, links, user

LEMMA DrainTyped ==
  ASSUME NEW rank, TypeOK, Inv(rank), VarsLive, NEW n, NEW p, Runs("drain", n, p), Drain(n)
  PROVE  TypeOK' /\ VarsLive'
<1>1. n \in Node /\ calls # <<>> /\ calls \in Seq(Call) /\ IsMain(n) /\ Graph
  <2>1. Scene(rank, "drain", n, p)
    BY Context, Zenon
  <2> QED BY <2>1 DEF Scene, Paired, Inv
<1>2. PICK b \in Node : b = children[n][1]
  BY <1>1, MainChildren DEF Lhs
<1>3. PICK first : first = DoEach("invalidate", created[b])
  OBVIOUS
<1>4. /\ first \in Seq(Call)
      /\ \A d, k, q : [do |-> d, node |-> k, with |-> q] \in Range(first)
              <=> d = "invalidate" /\ k \in Range(created[b]) /\ q = NoNode
  <2>1. "invalidate" \in Function /\ created[b] \in Seq(Node \union {NoNode})
    BY DEF Function, TypeOK
  <2> QED BY <1>3, <2>1, DoEachFacts
<1>5. Harmless(first)
  <2>1. \A v \in VarNode : v \notin Range(created[b])
    BY <1>1, VarFacts DEF InRun
  <2> QED BY <1>4, <2>1 DEF Harmless
<1>6. Calls(first) /\ \A v \in VarNode : valid'[v]
  BY <1>2, <1>3 DEF Drain, VarsLive
<1>7. VarsLive' /\ calls' \in Seq(Call)
  BY <1>1, <1>4, <1>5, <1>6, VarsLiveAfter
<1>8. created' \in [Node -> Seq(Node \union {NoNode})]
  <2>1. created' = [created EXCEPT ![b] = <<>>]
    BY <1>2 DEF Drain
  <2> QED BY <2>1, NothingOrdered DEF TypeOK
<1> QED BY <1>7, <1>8 DEF Drain, TypeOK, made, values, links, turn, user

LEMMA InvalidateNodeTyped ==
  ASSUME NEW rank \in [Node -> Nat], TypeOK, Inv(rank), VarsLive, NEW n, NEW p, Runs("invalidate", n, p),
         InvalidateNode(n)
  PROVE  TypeOK' /\ VarsLive'
<1>1. n \in Node \union {NoNode} /\ calls # <<>> /\ calls \in Seq(Call) /\ Called("invalidate", n, NoNode) /\ Graph /\ Ranked(rank)
  <2>1. Scene(rank, "invalidate", n, p)
    BY Context, Zenon
  <2> QED BY <2>1 DEF Scene, Paired, Inv
<1>2. CASE n = NoNode \/ ~valid[n]
  <2>1. Returns /\ \A v \in VarNode : valid'[v]
    BY <1>2 DEF InvalidateNode, VarsLive
  <2>2. VarsLive' /\ calls' \in Seq(Call)
    BY <1>1, <2>1, VarsLiveReturn
  <2> QED BY <1>2, <2>2 DEF InvalidateNode, TypeOK, made, values, links, turn, user
<1>3. CASE ~(n = NoNode \/ ~valid[n])
  <2>1. n \in Node /\ valid[n] /\ n \notin VarNode
    BY <1>1, <1>3 DEF VarsLive, Dying
  <2>2. PICK first : first = Ends(n)
    OBVIOUS
  <2>3. /\ first \in Seq(Call)
        /\ \A d, k, q : [do |-> d, node |-> k, with |-> q] \in Range(first) => EndsCall(n, d, k, q)
    BY <1>1, <2>1, <2>2, EndsFacts
  <2>4. Harmless(first)
    <3>1. ASSUME NEW v \in VarNode, NEW d \in {"invalidate", "mark"} PROVE ~EndsCall(n, d, v, NoNode)
      BY <2>1 DEF EndsCall
    <3> QED BY <2>3, <3>1, Zenon DEF Harmless
  <2>5. Calls(first) /\ \A v \in VarNode : valid'[v]
    <3>1. calls' = Ends(n) \o Tail(calls) /\ valid' = valid
      BY <1>3 DEF InvalidateNode, Ends, Calls
    <3> QED BY <2>2, <3>1 DEF Calls, VarsLive
  <2>6. VarsLive' /\ calls' \in Seq(Call)
    BY <1>1, <2>3, <2>4, <2>5, VarsLiveAfter
  <2>7. /\ value' \in [Node -> Bit \union {NoValue}] /\ changedAt' \in [Node -> Int]
        /\ recomputedAt' \in [Node -> Int]
    <3>1. /\ value' = [value EXCEPT ![n] = NoValue]
          /\ changedAt' = [changedAt EXCEPT ![n] = now]
          /\ recomputedAt' = [recomputedAt EXCEPT ![n] = now]
      BY <1>3 DEF InvalidateNode
    <3> QED BY <2>1, <3>1 DEF TypeOK
  <2> QED BY <1>3, <2>6, <2>7 DEF InvalidateNode, TypeOK, made, links, turn, user
<1> QED BY <1>2, <1>3

LEMMA MarkInvalidTyped ==
  ASSUME NEW rank, TypeOK, Inv(rank), VarsLive, NEW n, NEW p, Runs("mark", n, p), MarkInvalid(n)
  PROVE  TypeOK' /\ VarsLive'
<1>1. n \in Node /\ calls # <<>> /\ calls \in Seq(Call) /\ Called("mark", n, NoNode)
  <2>1. Scene(rank, "mark", n, p)
    BY Context, Zenon
  <2> QED BY <2>1 DEF Scene, Paired
<1>2. n \notin VarNode
  BY <1>1 DEF VarsLive, Dying, Marked
<1>3. valid' \in [Node -> BOOLEAN] /\ \A v \in VarNode : valid'[v] = valid[v]
  BY <1>2 DEF MarkInvalid, TypeOK, VarNode, Node
<1>4. VarsLive' /\ calls' \in Seq(Call)
  <2>1. Returns /\ \A v \in VarNode : valid'[v]
    BY <1>3 DEF MarkInvalid, VarsLive
  <2> QED BY <1>1, <2>1, VarsLiveReturn
<1>5. invalidated' \in Seq(Node)
  <2>1. parents[n] \in Seq(Node) /\ invalidated \in Seq(Node)
    BY <1>1 DEF TypeOK
  <2>2. invalidated \o parents[n] \in Seq(Node)
    BY <2>1, Concatenation
  <2> QED BY <2>2 DEF MarkInvalid
<1>6. heap' \subseteq Node
  BY DEF MarkInvalid, TypeOK
<1> QED BY <1>3, <1>4, <1>5, <1>6 DEF MarkInvalid, TypeOK, made, values, links, turn, user

LEMMA PropagateInvalidityTyped ==
  ASSUME NEW rank, TypeOK, Inv(rank), VarsLive, NEW x, NEW p, Runs("propagate_invalidity", x, p),
         PropagateInvalidity
  PROVE  TypeOK' /\ VarsLive'
<1>1. calls # <<>> /\ calls \in Seq(Call) /\ Graph
  BY DEF TypeOK, Runs, Inv
<1>2. /\ UNCHANGED <<made, children, created, valid, values, height, links, turn, user>>
      /\ \A v \in VarNode : valid'[v]
  BY DEF PropagateInvalidity, VarsLive
<1>3. CASE invalidated = <<>>
  <2>1. Returns /\ UNCHANGED <<heap, panicked, invalidated>>
    BY <1>3 DEF PropagateInvalidity
  <2>2. VarsLive' /\ calls' \in Seq(Call)
    BY <1>1, <1>2, <2>1, VarsLiveReturn
  <2> QED BY <1>2, <2>1, <2>2 DEF TypeOK, made, values, links, turn, user
<1>4. CASE invalidated # <<>>
  <2>0. invalidated \in Seq(Node)
    BY DEF TypeOK
  <2>1. PICK n \in Node : n = Last(invalidated)
    BY <1>4, <2>0, LastFacts
  <2>2. invalidated' \in Seq(Node)
    BY <1>4, <2>0, LastFacts DEF PropagateInvalidity
  <2>3. \/ UNCHANGED <<calls, heap, panicked>>
        \/ /\ ShouldBeInvalidated(n)
           /\ calls' = <<Do("invalidate", n)>> \o calls /\ UNCHANGED <<heap, panicked>>
        \/ Insert(n) /\ UNCHANGED calls
    BY <1>4, <2>1 DEF PropagateInvalidity
  <2>4. CASE calls' = calls
    <3>1. VarsLive'
      BY <1>2, <2>4, VarsLiveKept
    <3>2. heap' \subseteq Node /\ panicked' \in BOOLEAN
      <4>1. CASE heap' = heap /\ panicked' = panicked
        BY <4>1 DEF TypeOK
      <4>2. CASE Insert(n)
        <5>1. heap' \subseteq Node
          BY <4>2 DEF Insert, TypeOK
        <5>2. panicked' \in BOOLEAN
          BY <4>2, Zenon DEF Insert
        <5> QED BY <5>1, <5>2
      <4> QED BY <2>3, <4>1, <4>2
    <3> QED BY <1>2, <2>2, <2>4, <3>1, <3>2 DEF TypeOK, made, values, links, turn, user
  <2>5. CASE ShouldBeInvalidated(n) /\ calls' = <<Do("invalidate", n)>> \o calls /\ UNCHANGED <<heap, panicked>>
    <3>1. n \notin VarNode
      <4>1. SUFFICES ASSUME n \in VarNode PROVE FALSE
        OBVIOUS
      <4>2. kind[n] = "Var" /\ children[n] = <<>>
        BY <1>1, <4>1, VarFacts
      <4> QED BY <2>5, <4>2, NothingOrdered DEF ShouldBeInvalidated
    <3> DEFINE f == Do("invalidate", n)
    <3>2. f \in Call /\ f = [do |-> "invalidate", node |-> n, with |-> NoNode]
      BY CallMade DEF Do, Function
    <3> HIDE DEF f
    <3>3. <<f>> \in Seq(Call) /\ \A g : g \in Range(<<f>>) <=> g = f
      BY <3>2, OneCall
    <3>4. /\ <<f>> \o calls \in Seq(Call)
          /\ \A g : g \in Range(<<f>> \o calls) <=> g \in Range(<<f>>) \/ g \in Range(calls)
      BY <1>1, <3>3, Concatenation
    <3>5. calls' = <<f>> \o calls
      BY <2>5 DEF f
    <3>6. calls' \in Seq(Call) /\ \A g : g \in Range(calls') => g = f \/ g \in Range(calls)
      BY <3>3, <3>4, <3>5
    <3>7. ASSUME NEW v \in VarNode PROVE ~Dying(v)'
      <4>1. [do |-> "invalidate", node |-> v, with |-> NoNode] # f /\ [do |-> "mark", node |-> v, with |-> NoNode] # f
        BY <3>1, <3>2
      <4>2. ~Called("invalidate", v, NoNode) /\ ~Called("mark", v, NoNode)
        BY DEF VarsLive, Dying, Marked
      <4> QED BY <3>6, <4>1, <4>2 DEF Called, Dying, Marked
    <3>8. VarsLive'
      BY <1>2, <3>7 DEF VarsLive
    <3> QED BY <1>2, <2>2, <2>5, <3>6, <3>8 DEF TypeOK, made, values, links, turn, user
  <2> QED BY <2>3, <2>4, <2>5
<1> QED BY <1>3, <1>4

LEMMA AddParentTyped ==
  ASSUME NEW rank \in [Node -> Nat], TypeOK, Inv(rank), VarsLive, NEW c, NEW p,
         Runs("add_parent", c, p), AddParentWithoutAdjustingHeights(c, p)
  PROVE  TypeOK' /\ VarsLive'
<1>1. c \in Node /\ p \in Node /\ calls # <<>> /\ calls \in Seq(Call) /\ Graph
  <2>1. Scene(rank, "add_parent", c, p)
    BY Context, Zenon
  <2> QED BY <2>1 DEF Scene, Paired, Inv
<1>2. parents' \in [Node -> Seq(Node)]
  <2>1. Append(parents[c], p) \in Seq(Node)
    BY <1>1, AppendFacts DEF TypeOK
  <2> QED BY <2>1 DEF AddParentWithoutAdjustingHeights, TypeOK
<1>3. invalidated' \in Seq(Node)
  <2>1. Append(invalidated, p) \in Seq(Node)
    BY <1>1, AppendFacts DEF TypeOK
  <2> QED BY <2>1 DEF AddParentWithoutAdjustingHeights, TypeOK
<1>4. UNCHANGED <<made, children, created, valid, values, observed, forced, heap, turn, user>>
  BY DEF AddParentWithoutAdjustingHeights
<1>5. VarsLive' /\ calls' \in Seq(Call) /\ height' \in [Node -> Int] /\ panicked' \in BOOLEAN
  <2>1. CASE Necessary(c)
    <3>1. Returns /\ UNCHANGED <<height, panicked>> /\ \A v \in VarNode : valid'[v]
      BY <2>1 DEF AddParentWithoutAdjustingHeights, VarsLive
    <3>2. VarsLive' /\ calls' \in Seq(Call)
      BY <1>1, <3>1, VarsLiveReturn
    <3> QED BY <3>1, <3>2 DEF TypeOK
  <2>2. CASE ~Necessary(c)
    <3>1. BecameNecessary(c, <<>>) /\ valid' = valid
      BY <2>2 DEF AddParentWithoutAdjustingHeights
    <3> QED BY <1>1, <3>1, BecameNecessaryCalls
  <2> QED BY <2>1, <2>2
<1> QED BY <1>2, <1>3, <1>4, <1>5 DEF TypeOK, made, values, turn, user

LEMMA AddObserverTyped ==
  ASSUME NEW rank \in [Node -> Nat], TypeOK, Inv(rank), VarsLive, NEW n, NEW p,
         Runs("add_observer", n, p), AddObserver(n)
  PROVE  TypeOK' /\ VarsLive'
<1>1. n \in Node /\ calls # <<>> /\ calls \in Seq(Call) /\ Graph
  <2>1. Scene(rank, "add_observer", n, p)
    BY Context, Zenon
  <2> QED BY <2>1 DEF Scene, Paired, Inv
<1>2. observed' \subseteq Node
  BY <1>1 DEF AddObserver, TypeOK
<1>4. UNCHANGED <<made, children, created, valid, values, parents, forced, heap, invalidated, turn,
                 user>>
  BY DEF AddObserver
<1>5. VarsLive' /\ calls' \in Seq(Call) /\ height' \in [Node -> Int] /\ panicked' \in BOOLEAN
  <2>1. CASE n \notin wanted \/ Necessary(n)
    <3>1. Returns /\ UNCHANGED <<height, panicked>> /\ \A v \in VarNode : valid'[v]
      BY <2>1 DEF AddObserver, VarsLive
    <3>2. VarsLive' /\ calls' \in Seq(Call)
      BY <1>1, <3>1, VarsLiveReturn
    <3> QED BY <3>1, <3>2 DEF TypeOK
  <2>2. CASE ~(n \notin wanted \/ Necessary(n))
    <3>1. BecameNecessary(n, <<Do("propagate_invalidity", NoNode)>>) /\ valid' = valid
      BY <2>2 DEF AddObserver
    <3> QED BY <1>1, <3>1, BecameNecessaryCalls
  <2> QED BY <2>1, <2>2
<1> QED BY <1>2, <1>4, <1>5 DEF TypeOK, made, values, turn, user

\* What Node::check_if_unnecessary leaves.
LEMMA CheckTyped ==
  ASSUME TypeOK, Graph, VarsLive, calls # <<>>, NEW n \in Node, CheckIfUnnecessary(n), valid' = valid
  PROVE  VarsLive' /\ calls' \in Seq(Call) /\ height' \in [Node -> Int] /\ heap' \subseteq Node
<1>1. CASE Returns /\ UNCHANGED <<height, heap>>
  <2>1. calls \in Seq(Call) /\ \A v \in VarNode : valid'[v]
    BY DEF TypeOK, VarsLive
  <2>2. VarsLive' /\ calls' \in Seq(Call)
    BY <1>1, <2>1, VarsLiveReturn
  <2> QED BY <1>1, <2>2 DEF TypeOK
<1>2. CASE BecameUnnecessary(n)
  BY <1>2, BecameUnnecessaryCalls
<1> QED BY <1>1, <1>2 DEF CheckIfUnnecessary

LEMMA RemoveParentTyped ==
  ASSUME NEW rank, TypeOK, Inv(rank), VarsLive, NEW c, NEW p, Runs("remove_parent", c, p),
         RemoveParent(c, p)
  PROVE  TypeOK' /\ VarsLive'
<1>1. c \in Node /\ p \in Node /\ calls # <<>> /\ Graph /\ Links /\ Unlink(c, p)
  <2>1. Scene(rank, "remove_parent", c, p)
    BY Context, Zenon
  <2> QED BY <2>1 DEF Scene, Paired, Inv, Unlink
<1>2. parents' \in [Node -> Seq(Node)]
  <2>1. p \in Range(parents[c]) /\ Single(parents[c]) /\ parents[c] \in Seq(Node)
    BY <1>1 DEF Links, Linked, IsParent, TypeOK
  <2>2. Without(parents[c], p) \in Seq(Node)
    BY <2>1, WithoutFacts
  <2> QED BY <2>2 DEF RemoveParent, TypeOK
<1>3. CheckIfUnnecessary(c) /\ valid' = valid
  BY DEF RemoveParent
<1>4. VarsLive' /\ calls' \in Seq(Call) /\ height' \in [Node -> Int] /\ heap' \subseteq Node
  BY <1>1, <1>3, CheckTyped
<1> QED BY <1>2, <1>4 DEF RemoveParent, TypeOK, made, values, turn, user

LEMMA ReleaseTyped ==
  ASSUME NEW rank, TypeOK, Inv(rank), VarsLive, NEW o, NEW p, Runs("release", o, p), Release(o)
  PROVE  TypeOK' /\ VarsLive'
<1>1. o \in Node /\ calls # <<>> /\ Graph
  <2>1. Scene(rank, "release", o, p)
    BY Context, Zenon
  <2> QED BY <2>1 DEF Scene, Paired, Inv
<1>2. CheckIfUnnecessary(o) /\ valid' = valid
  BY DEF Release
<1>3. VarsLive' /\ calls' \in Seq(Call) /\ height' \in [Node -> Int] /\ heap' \subseteq Node
  BY <1>1, <1>2, CheckTyped
<1> QED BY <1>3 DEF Release, TypeOK, made, values, turn, user

LEMMA RemoveObserverTyped ==
  ASSUME NEW rank, TypeOK, Inv(rank), VarsLive, NEW n, NEW p, Runs("remove_observer", n, p),
         RemoveObserver(n)
  PROVE  TypeOK' /\ VarsLive'
<1>1. n \in Node /\ calls # <<>> /\ calls \in Seq(Call) /\ Graph
  <2>1. Scene(rank, "remove_observer", n, p)
    BY Context, Zenon
  <2> QED BY <2>1 DEF Scene, Paired, Inv
<1>2. valid' = valid /\ observed' \subseteq Node
  BY DEF RemoveObserver, TypeOK
<1>3. VarsLive' /\ calls' \in Seq(Call) /\ height' \in [Node -> Int] /\ heap' \subseteq Node
  <2>1. CASE n \in observed \ wanted
    <3>1. CheckIfUnnecessary(n)
      BY <2>1 DEF RemoveObserver
    <3> QED BY <1>1, <1>2, <3>1, CheckTyped
  <2>2. CASE ~(n \in observed \ wanted)
    <3>1. Returns /\ UNCHANGED <<height, heap>> /\ \A v \in VarNode : valid'[v]
      BY <1>2, <2>2 DEF RemoveObserver, VarsLive
    <3>2. VarsLive' /\ calls' \in Seq(Call)
      BY <1>1, <3>1, VarsLiveReturn
    <3> QED BY <3>1, <3>2 DEF TypeOK
  <2> QED BY <2>1, <2>2
<1> QED BY <1>2, <1>3 DEF RemoveObserver, TypeOK, made, values, turn, user

LEMMA DropTyped ==
  ASSUME NEW rank, TypeOK, Inv(rank), VarsLive, NEW p, Runs("drop", NoNode, p), Drop
  PROVE  TypeOK' /\ VarsLive'
<1>1. calls # <<>> /\ calls \in Seq(Call) /\ Graph
  BY DEF TypeOK, Runs, Inv
<1>2. CASE NotHeld = {}
  <2>1. Returns /\ UNCHANGED <<made, children, created, valid, values, height, links, heap,
                            invalidated, turn, panicked, user>> /\ \A v \in VarNode : valid'[v]
    BY <1>2 DEF Drop, VarsLive
  <2>2. VarsLive' /\ calls' \in Seq(Call)
    BY <1>1, <2>1, VarsLiveReturn
  <2> QED BY <2>1, <2>2 DEF TypeOK, made, values, links, turn, user
<1>3. CASE NotHeld # {}
  <2>1. PICK n \in Fresh : Dropped(n)
    BY <1>3, DropFacts
  <2>2. n \in Node /\ n \notin VarNode
    BY <1>1, VarFacts DEF Node
  <2>3. /\ kind' = [kind EXCEPT ![n] = "None"]
        /\ children' = [children EXCEPT ![n] = <<>>]
        /\ scope' = [scope EXCEPT ![n] = NoNode]
        /\ code' = [code EXCEPT ![n] = NoValue]
        /\ created' \in [Node -> Seq(Node \union {NoNode})]
        /\ valid' = [valid EXCEPT ![n] = TRUE]
        /\ value' = [value EXCEPT ![n] = NoValue]
        /\ recomputedAt' = [recomputedAt EXCEPT ![n] = Never]
        /\ changedAt' = [changedAt EXCEPT ![n] = Never]
        /\ height' = [height EXCEPT ![n] = -1]
        /\ UNCHANGED <<parents, observed, forced, heap, invalidated, now, stabilising, direct, calls,
                       panicked, user>>
    BY <2>1 DEF Dropped
  <2>4. /\ kind' \in [Node -> {"None", "Var", "Map", "Lhs", "Main"}]
        /\ scope' \in [Node -> Node \union {NoNode}]
        /\ code' \in [Node -> DOMAIN Program \union {NoValue}]
        /\ value' \in [Node -> Bit \union {NoValue}]
    BY <2>2, <2>3 DEF TypeOK
  <2>5. children' \in [Node -> Seq(Node)]
    BY <2>2, <2>3, NothingOrdered DEF TypeOK
  <2>6. valid' \in [Node -> BOOLEAN] /\ \A v \in VarNode : valid'[v] = valid[v]
    BY <2>2, <2>3 DEF TypeOK, VarNode, Node
  <2>7. /\ recomputedAt' \in [Node -> Int] /\ changedAt' \in [Node -> Int] /\ height' \in [Node -> Int]
    BY <2>2, <2>3 DEF TypeOK, Never
  <2>8. VarsLive'
    BY <2>3, <2>6, VarsLiveKept DEF VarsLive
  <2> QED BY <2>3, <2>4, <2>5, <2>6, <2>7, <2>8 DEF TypeOK, user
<1> QED BY <1>2, <1>3

LEMMA UserTyped ==
  ASSUME TypeOK, Graph, VarsLive,
         \/ \E v \in VarNode, x \in Bit : SetVar(v, x)
         \/ \E n \in Range(Observable) : ToggleObserver(n)
         \/ StabiliseEnd
  PROVE  TypeOK' /\ VarsLive'
<1>1. CASE \E v \in VarNode, x \in Bit : SetVar(v, x)
  <2>1. PICK v \in VarNode, x \in Bit : SetVar(v, x)
    BY <1>1
  <2>2. v \in Node
    BY VarFacts
  <2>3. VarsLive'
    BY <2>1, VarsLiveKept DEF SetVar, VarsLive
  <2>4. varValue' \in [VarNode -> Bit] /\ setAt' \in [VarNode -> Nat] /\ heap' \subseteq Node
    BY <2>1, <2>2 DEF SetVar, TypeOK
  <2> QED BY <2>1, <2>3, <2>4 DEF SetVar, TypeOK, made, values, links, turn
<1>2. CASE \E n \in Range(Observable) : ToggleObserver(n)
  <2>1. PICK n \in Range(Observable) : ToggleObserver(n)
    BY <1>2
  <2>2. n \in Node
    <3>1. Observable \in Seq(Top \ LhsNode)
      BY NodeAssumption
    <3> QED BY <3>1, ElementInSet DEF Node
  <2>3. VarsLive'
    BY <2>1, VarsLiveKept DEF ToggleObserver, VarsLive
  <2>4. wanted' \subseteq Node
    BY <2>1, <2>2 DEF ToggleObserver, TypeOK
  <2> QED BY <2>1, <2>3, <2>4 DEF ToggleObserver, TypeOK, made, values, links, turn
<1>3. CASE StabiliseEnd
  <2>1. VarsLive'
    BY <1>3, VarsLiveKept DEF StabiliseEnd, VarsLive
  <2>2. now' \in Nat /\ stabilising' \in BOOLEAN
    <3>1. now' = now + 1 /\ stabilising' = FALSE
      BY <1>3, Zenon DEF StabiliseEnd
    <3>2. stabilising' \in BOOLEAN
      BY <3>1, Zenon
    <3> QED BY <3>1, <3>2 DEF TypeOK
  <2>3. UNCHANGED <<kind, scope, code, children, created, valid, value, recomputedAt, changedAt,
                    height, parents, observed, forced, heap, invalidated, calls, direct, panicked,
                    varValue, setAt, wanted>>
    BY <1>3 DEF StabiliseEnd, made, values, links, user
  <2> QED BY <2>1, <2>2, <2>3 DEF TypeOK
<1> QED BY <1>1, <1>2, <1>3

LEMMA StabiliseStartTyped ==
  ASSUME NEW rank \in [Node -> Nat], TypeOK, Inv(rank), VarsLive, StabiliseStart
  PROVE  TypeOK' /\ VarsLive'
<1> DEFINE s == DoEach("add_observer", Observable) \o DoEach("remove_observer", Observable)
<1>1. calls' = s
  BY DEF StabiliseStart
<1>2. /\ s \in Seq(Call) /\ Ordered(rank, s) /\ Heard(s)
      /\ \A d, n, p : [do |-> d, node |-> n, with |-> p] \in Range(s) <=>
           d \in Observing /\ n \in Range(Observable) /\ p = NoNode
  BY StartCalls, Zenon
<1> HIDE DEF s
<1>3. ASSUME NEW v \in VarNode PROVE ~Dying(v)'
  <2>1. [do |-> "invalidate", node |-> v, with |-> NoNode] \notin Range(s)
    BY <1>2 DEF Observing
  <2>2. [do |-> "mark", node |-> v, with |-> NoNode] \notin Range(s)
    BY <1>2 DEF Observing
  <2> QED BY <1>1, <2>1, <2>2 DEF Dying, Marked, Called
<1>4. VarsLive'
  BY <1>3 DEF VarsLive, StabiliseStart
<1> QED BY <1>1, <1>2, <1>4 DEF StabiliseStart, TypeOK, made, values, links, user

LEMMA RecomputeValueTyped ==
  ASSUME NEW rank \in [Node -> Nat], TypeOK, Inv(rank), VarsLive, NEW n, IsNext(n),
         ~RecomputePanics(n), RecomputeValue(n)
  PROVE  TypeOK' /\ VarsLive'
<1>1. n \in Node /\ calls = <<>>
  BY NextIsQueued
<1>2. \A k \in Node : ~Unlink(n, k)
  BY <1>1, BetweenTurns DEF Unlink
<1> DEFINE v == IF kind[n] = "Var" THEN varValue[n] ELSE 1 - value[children[n][1]]
<1>3. v \in Bit
  <2>1. CASE kind[n] = "Var"
    <3>1. n \in VarNode
      <4>1. n \in Top
        BY <1>1, <2>1 DEF Inv, Graph, FreshNodes, Node
      <4>2. kind[n] = TopKind[n]
        BY <4>1 DEF Inv, Graph, TopNodes
      <4> QED BY <2>1, <4>1, <4>2 DEF VarNode
    <3> QED BY <2>1, <3>1 DEF TypeOK
  <2>2. CASE kind[n] # "Var"
    <3>1. kind[n] = "Map"
      BY <2>2 DEF RecomputeValue
    <3>2. value[children[n][1]] # NoValue
      BY <3>1 DEF RecomputePanics
    <3>3. children[n] \in Seq(Node) /\ Len(children[n]) = 1
      BY <1>1, <3>1 DEF TypeOK, Inv, Graph, Shapes, Shape
    <3>4. children[n][1] \in Node
      BY <3>3
    <3>5. value[children[n][1]] \in Bit
      BY <3>2, <3>4 DEF TypeOK
    <3> QED BY <2>2, <3>5 DEF Bit
  <2> QED BY <2>1, <2>2
<1>4. MaybeChangeValue(n, v)
  BY DEF RecomputeValue
<1> HIDE DEF v
<1>5. /\ heap' \subseteq Node /\ direct' \subseteq Node /\ changedAt' \in [Node -> Int]
      /\ value' \in [Node -> Bit \union {NoValue}]
  BY <1>1, <1>2, <1>3, <1>4, MaybeChangeValueFacts DEF Inv
<1>6. recomputedAt' \in [Node -> Int]
  BY <1>1 DEF RecomputeValue, TypeOK
<1>7. UNCHANGED <<made, children, created, valid, height, links, invalidated, now, stabilising,
                 calls, panicked, user>>
  BY DEF RecomputeValue
<1>8. VarsLive'
  BY <1>7, VarsLiveKept DEF VarsLive
<1> QED BY <1>5, <1>6, <1>7, <1>8 DEF TypeOK, made, links, user

LEMMA RecomputeMainTyped ==
  ASSUME NEW rank \in [Node -> Nat], TypeOK, Inv(rank), VarsLive, NEW n, IsNext(n),
         ~RecomputePanics(n), RecomputeMain(n)
  PROVE  TypeOK' /\ VarsLive'
<1>1. n \in Node /\ calls = <<>> /\ IsMain(n)
  BY NextIsQueued DEF RecomputeMain, IsMain
<1>2. \A k \in Node : ~Unlink(n, k)
  BY <1>1, BetweenTurns DEF Unlink
<1>3. HasRhs(n) /\ Rhs(n) \in Node
  BY <1>1, MainNext
<1> DEFINE c == children[n][2]
<1>4. c \in Node
  BY <1>3 DEF Rhs
<1>5. UNCHANGED <<made, children, created, valid, height, links, invalidated, now, stabilising,
                 panicked, user>>
      /\ recomputedAt' = [recomputedAt EXCEPT ![n] = now]
  BY DEF RecomputeMain
<1>6. recomputedAt' \in [Node -> Int]
  BY <1>1, <1>5 DEF TypeOK
<1>7. /\ heap' \subseteq Node /\ direct' \subseteq Node /\ changedAt' \in [Node -> Int]
      /\ value' \in [Node -> Bit \union {NoValue}]
      /\ calls' \in Seq(Call) /\ VarsLive'
  <2>1. CASE valid[c] /\ value[c] # NoValue
    <3>1. MaybeChangeValue(n, value[c]) /\ calls' = calls
      BY <2>1 DEF RecomputeMain
    <3>2. value[c] \in Bit \union {NoValue}
      BY <1>4 DEF TypeOK
    <3>3. PICK v \in Bit \union {NoValue} : MaybeChangeValue(n, v)
      BY <3>1, <3>2
    <3>4. /\ heap' \subseteq Node /\ direct' \subseteq Node /\ changedAt' \in [Node -> Int]
          /\ value' \in [Node -> Bit \union {NoValue}]
      BY <1>1, <1>2, <3>3, MaybeChangeValueFacts DEF Inv
    <3>5. VarsLive'
      BY <1>5, <3>1, VarsLiveKept DEF VarsLive
    <3> QED BY <3>1, <3>4, <3>5 DEF TypeOK
  <2>2. CASE ~(valid[c] /\ value[c] # NoValue)
    <3>1. heap' = heap \ {n} /\ direct' = {} /\ UNCHANGED <<value, changedAt>>
      BY <2>2 DEF RecomputeMain
    <3>2. calls' = <<>> \/ calls' = <<Do("invalidate", n), Do("propagate_invalidity", NoNode)>>
      BY <2>2 DEF RecomputeMain
    <3>3. calls' \in Seq(Call) /\ VarsLive'
      <4>1. CASE calls' = <<>>
        BY <1>1, <1>5, <4>1, VarsLiveKept DEF VarsLive, TypeOK
      <4>2. CASE calls' = <<Do("invalidate", n), Do("propagate_invalidity", NoNode)>>
        <5> DEFINE f == Do("invalidate", n)
                   g == Do("propagate_invalidity", NoNode)
        <5>1. f \in Call /\ g \in Call
          BY <1>1, CallMade DEF Do, Function
        <5>2. f = [do |-> "invalidate", node |-> n, with |-> NoNode]
              /\ g = [do |-> "propagate_invalidity", node |-> NoNode, with |-> NoNode]
          BY DEF Do
        <5> HIDE DEF f, g
        <5>3. calls' \in Seq(Call)
          BY <4>2, <5>1 DEF f, g
        <5>4. \A x : x \in Range(calls') <=> x = f \/ x = g
          BY <4>2, TupleRange, Zenon DEF f, g
        <5>5. ASSUME NEW v \in VarNode PROVE ~Dying(v)'
          <6>1. v # n
            BY <1>1, VarFacts DEF Inv, IsMain
          <6>2. ASSUME NEW d \in {"invalidate", "mark"} PROVE [do |-> d, node |-> v, with |-> NoNode] \notin Range(calls')
            <7>1. [do |-> d, node |-> v, with |-> NoNode] # f
              BY <5>2, <6>1, SameCall, Zenon
            <7>2. [do |-> d, node |-> v, with |-> NoNode] # g
              <8>1. d # "propagate_invalidity"
                OBVIOUS
              <8> QED BY <5>2, <8>1, SameCall, Zenon
            <7> QED BY <5>4, <7>1, <7>2, Zenon
          <6>3. [do |-> "invalidate", node |-> v, with |-> NoNode] \notin Range(calls')
            BY <6>2
          <6>4. [do |-> "mark", node |-> v, with |-> NoNode] \notin Range(calls')
            BY <6>2
          <6> QED BY <6>3, <6>4, Zenon DEF Dying, Marked, Called
        <5> QED BY <1>5, <5>3, <5>5 DEF VarsLive
      <4> QED BY <3>2, <4>1, <4>2
    <3> QED BY <3>1, <3>3 DEF TypeOK
  <2> QED BY <2>1, <2>2
<1> QED BY <1>5, <1>6, <1>7 DEF TypeOK, made, links, user

LEMMA RecomputeLhsTyped ==
  ASSUME NEW rank \in [Node -> Nat], TypeOK, Inv(rank), VarsLive, NEW b, IsNext(b),
         ~RecomputePanics(b), RecomputeLhs(b)
  PROVE  TypeOK' /\ VarsLive'
<1>0. now \in Int /\ recomputedAt \in [Node -> Int] /\ changedAt \in [Node -> Int]
  BY DEF TypeOK
<1>1. b \in Node /\ TypedBuild
      /\ \E m, new, l \in Node, of \in Top : \E M, old : Ran(rank, b, m, M, new, l, of, old)
  BY RunFacts, Zenon
<1>20. PICK m \in Node, new \in Node, l \in Node, of \in Top :
        \E M, old : Ran(rank, b, m, M, new, l, of, old)
  BY <1>1
<1>2. PICK M, old : Ran(rank, b, m, M, new, l, of, old)
  BY <1>20
<1>3. /\ old \in Seq(Node) /\ calls' \in Seq(Call) /\ parents' \in [Node -> Seq(Node)]
      /\ \A k : k \in forced' <=> k \in Range(old) /\ old # <<new>>
      /\ heap' = heap \ {b} /\ direct' = {}
      /\ recomputedAt' = [recomputedAt EXCEPT ![b] = now]
      /\ changedAt' = [changedAt EXCEPT ![b] = now]
      /\ UNCHANGED <<valid, value, height, observed, invalidated, now, stabilising, panicked, user>>
  BY <1>2 DEF Ran, Relinked
<1>4. forced' \subseteq Node
  BY <1>3, ElementInSet
<1>5. recomputedAt' \in [Node -> Int] /\ changedAt' \in [Node -> Int]
  <2>1. /\ recomputedAt' = [recomputedAt EXCEPT ![b] = now]
        /\ changedAt' = [changedAt EXCEPT ![b] = now]
    BY <1>3, Zenon
  <2>2. now \in Int /\ recomputedAt \in [Node -> Int] /\ changedAt \in [Node -> Int]
    BY <1>0
  <2>3. b \in Node
    BY <1>1, Zenon
  <2> QED BY ONLY <2>1, <2>2, <2>3
<1>6. ASSUME NEW v \in VarNode PROVE ~Dying(v)'
  <2>1. /\ \A c, p : Link(c, p)' <=> c = new /\ p = m /\ old # <<new>>
        /\ \A c, p : ~Unlink(c, p)'
        /\ \A n : ~Marked(n)' /\ ~Placing(n)' /\ ~Called("drain", n, NoNode)' /\ ~Called("lower", n, NoNode)'
        /\ \A n : Dying(n)' <=> InRun(n, b) /\ old # <<>>
        /\ \A o : Called("release", o, NoNode)' <=> o \in Range(old) /\ old # <<new>>
        /\ \A c, p : Called("queue_if_older", c, p)' => p = m
        /\ Called("propagate_invalidity", NoNode, NoNode)'
    BY <1>1, <1>2, RunCalled, Zenon
  <2>2. ~InRun(v, b)
    BY <1>1, VarFacts DEF Inv
  <2> QED BY <2>1, <2>2, Zenon
<1>7. VarsLive'
  BY <1>3, <1>6 DEF VarsLive
<1>8. /\ kind' \in [Node -> {"None", "Var", "Map", "Lhs", "Main"}]
      /\ children' \in [Node -> Seq(Node)]
      /\ scope' \in [Node -> Node \union {NoNode}]
      /\ code' \in [Node -> DOMAIN Program \union {NoValue}]
      /\ created' \in [Node -> Seq(Node \union {NoNode})]
  BY <1>1 DEF TypedBuild
<1>9. heap' \subseteq Node /\ direct' \subseteq Node
  BY <1>3 DEF TypeOK
<1>10. UNCHANGED <<valid, value, height, observed, invalidated, now, stabilising, panicked, varValue,
                   setAt, wanted>>
  BY <1>3 DEF user
<1> QED BY <1>3, <1>4, <1>5, <1>7, <1>8, <1>9, <1>10 DEF TypeOK

LEMMA RecomputeTyped ==
  ASSUME NEW rank \in [Node -> Nat], TypeOK, Inv(rank), VarsLive, NEW n, Recompute(n)
  PROVE  TypeOK' /\ VarsLive'
<1>1. CASE RecomputePanics(n)
  <2>1. Panic
    BY <1>1 DEF Recompute
  <2>2. VarsLive'
    BY <2>1, VarsLiveKept DEF Panic, VarsLive
  <2>3. panicked' = TRUE
    BY <2>1, Zenon DEF Panic
  <2>4. panicked' \in BOOLEAN
    BY <2>3, Zenon
  <2> QED BY <2>1, <2>2, <2>4 DEF Panic, TypeOK, made, values, links, turn, user
<1>2. CASE ~RecomputePanics(n)
  <2>1. IsNext(n) /\ (RecomputeValue(n) \/ RecomputeMain(n) \/ RecomputeLhs(n))
    BY <1>2 DEF Recompute
  <2> QED BY <1>2, <2>1, RecomputeValueTyped, RecomputeMainTyped, RecomputeLhsTyped, Zenon
<1> QED BY <1>1, <1>2

-----------------------------------------------------------------------------
(***************************************************************************)
(* The initial states.                                                     *)
(***************************************************************************)
\* The order in which the nodes at the top were made.
FirstRank(n) == IF n \in Top THEN CHOOSE i \in DOMAIN TopNode : TopNode[i] = n ELSE 0

LEMMA FirstRankFacts ==
  /\ [n \in Node |-> FirstRank(n)] \in [Node -> Nat]
  /\ \A i \in DOMAIN TopNode : TopNode[i] \in Top /\ FirstRank(TopNode[i]) = i
  /\ \A n \in Top : FirstRank(n) \in DOMAIN TopNode /\ TopNode[FirstRank(n)] = n
<1>1. DOMAIN TopNode \subseteq Nat
  BY NodeAssumption
<1>2. ASSUME NEW n \in Top PROVE FirstRank(n) \in DOMAIN TopNode /\ TopNode[FirstRank(n)] = n
  <2>1. \E i \in DOMAIN TopNode : TopNode[i] = n
    BY DEF Top, Range
  <2> QED BY <2>1 DEF FirstRank
<1>3. ASSUME NEW i \in DOMAIN TopNode PROVE TopNode[i] \in Top /\ FirstRank(TopNode[i]) = i
  <2>1. TopNode[i] \in Top
    BY DEF Top, Range
  <2>2. FirstRank(TopNode[i]) \in DOMAIN TopNode /\ TopNode[FirstRank(TopNode[i])] = TopNode[i]
    BY <1>2, <2>1
  <2> QED BY <2>1, <2>2, NodeAssumption
<1>4. ASSUME NEW n \in Node PROVE FirstRank(n) \in Nat
  <2>1. CASE n \in Top
    BY <1>1, <1>2, <2>1
  <2>2. CASE n \notin Top
    BY <2>2 DEF FirstRank
  <2> QED BY <2>1, <2>2
<1> QED BY <1>2, <1>3, <1>4

LEMMA InitTyped == Init => TypeOK /\ VarsLive
<1> SUFFICES ASSUME Init PROVE TypeOK /\ VarsLive
  OBVIOUS
<1>0. <<>> \in Seq(Node) /\ <<>> \in Seq(Node \union {NoNode}) /\ <<>> \in Seq(Call)
  OBVIOUS
<1>1. \A n \in Top : TopKind[n] \in {"None", "Var", "Map", "Lhs", "Main"} /\ TopChildren[n] \in Seq(Node)
  <2>1. \A S, T : \A t \in Seq(S) : S \subseteq T => t \in Seq(T)
    OBVIOUS
  <2>2. Top \subseteq Node
    BY DEF Node
  <2> QED BY <2>1, <2>2, TopAssumption
<1>2. kind \in [Node -> {"None", "Var", "Map", "Lhs", "Main"}]
  BY <1>1 DEF Init
<1>3. children \in [Node -> Seq(Node)]
  BY <1>0, <1>1 DEF Init
<1>4. code \in [Node -> DOMAIN Program \union {NoValue}]
  BY ProgramAssumption DEF Init
<1>5. parents \in [Node -> Seq(Node)] /\ created \in [Node -> Seq(Node \union {NoNode})]
  BY <1>0 DEF Init
<1>6. /\ scope \in [Node -> Node \union {NoNode}] /\ valid \in [Node -> BOOLEAN]
      /\ value \in [Node -> Bit \union {NoValue}]
      /\ recomputedAt \in [Node -> Int] /\ changedAt \in [Node -> Int] /\ height \in [Node -> Int]
  BY DEF Init, Never
<1>7. invalidated \in Seq(Node) /\ calls \in Seq(Call)
  BY <1>0 DEF Init
<1>8. /\ observed \subseteq Node /\ forced \subseteq Node /\ heap \subseteq Node /\ direct \subseteq Node
      /\ now \in Nat /\ varValue \in [VarNode -> Bit] /\ setAt \in [VarNode -> Nat] /\ wanted \subseteq Node
  BY DEF Init
<1>9. stabilising \in BOOLEAN /\ panicked \in BOOLEAN
  <2>1. stabilising = FALSE /\ panicked = FALSE
    BY Zenon DEF Init
  <2> QED BY <2>1, Zenon
<1>10. TypeOK
  BY <1>2, <1>3, <1>4, <1>5, <1>6, <1>7, <1>8, <1>9 DEF TypeOK
<1>11. VarsLive
  <2>1. \A d, n, p : ~Called(d, n, p)
    BY Idle DEF Init
  <2>2. \A v \in VarNode : v \in Node
    BY DEF VarNode, Node
  <2> QED BY <2>1, <2>2 DEF Init, VarsLive, Dying, Marked
<1> QED BY <1>10, <1>11

LEMMA InitGraph ==
  ASSUME Init
  PROVE  Graph
<1>0. TypeOK
  BY InitTyped
<1>1. ASSUME NEW n \in Top
      PROVE  /\ n \in Node /\ n \notin Fresh /\ kind[n] = TopKind[n] /\ children[n] = TopChildren[n]
             /\ TopKind[n] \in {"Var", "Map", "Lhs", "Main"}
             /\ TopChildren[n] \in Seq(Top)
             /\ Len(TopChildren[n]) = IF TopKind[n] = "Var" THEN 0 ELSE 1
             /\ code[n] = IF TopKind[n] = "Lhs" THEN TopCode[n] ELSE NoValue
  BY TopAssumption, NodeAssumption DEF Init, Node, VarNode, LhsNode
<1>2. ASSUME NEW n \in Node, n \notin Top PROVE kind[n] = "None" /\ children[n] = <<>>
  BY <1>2 DEF Init
<1>3. \A n \in Node : scope[n] = NoNode /\ created[n] = <<>>
  BY DEF Init
<1>4. \A b, n \in Node : ~InRun(n, b)
  BY <1>3, NothingOrdered, Zenon DEF InRun
<1>5. ASSUME NEW n \in Top, TopKind[n] # "Var"
      PROVE  /\ Lhs(n) \in Top /\ TopChildren[n][1] = Lhs(n)
             /\ kind[Lhs(n)] = "Lhs" <=> TopKind[n] = "Main"
             /\ kind[Lhs(n)] # "None"
  <2>1. Len(children[n]) = 1 /\ children[n] \in Seq(Top) /\ Lhs(n) = TopChildren[n][1]
    BY <1>1, <1>5 DEF Lhs
  <2>2. Lhs(n) \in Top
    BY <2>1 DEF Lhs
  <2>3. kind[Lhs(n)] = TopKind[Lhs(n)] /\ TopKind[Lhs(n)] \in {"Var", "Map", "Lhs", "Main"}
    BY <1>1, <2>2
  <2>4. TopChildren[n][1] \in LhsNode <=> TopKind[n] = "Main"
    BY <1>5, TopAssumption DEF VarNode
  <2> QED BY <2>1, <2>2, <2>3, <2>4 DEF LhsNode
<1>6. TopNodes
  BY <1>1, <1>3, <1>5 DEF TopNodes, VarNode, Node
<1>7. FreshNodes
  <2>1. \A n \in Fresh : n \in Node /\ n \notin Top
    BY NodeAssumption DEF Node
  <2> QED BY <1>2, <2>1 DEF FreshNodes, Exists
<1>8. NoNodes
  BY <1>1, <1>2, <1>3 DEF NoNodes, Exists
<1>9. ASSUME NEW n \in Node PROVE Shape(n)
  <2>1. CASE n \notin Top
    BY <1>2, <2>1 DEF Shape
  <2>2. CASE n \in Top
    <3>1. TopKind[n] = "Var" => children[n] = <<>>
      BY <1>1, <2>2
    <3>2. TopKind[n] = "Lhs" => code[n] \in DOMAIN Program
      BY <1>1, <2>2, ProgramAssumption DEF LhsNode
    <3>3. /\ kind[n] = TopKind[n] /\ kind[n] \in {"Var", "Map", "Lhs", "Main"}
          /\ kind[n] # "Var" => Len(children[n]) = 1
      BY <1>1, <2>2
    <3>4. kind[n] # "Var" => kind[Lhs(n)] # "None" /\ (kind[Lhs(n)] = "Lhs" <=> kind[n] = "Main")
      BY <1>5, <2>2, <3>3
    <3> QED BY <3>1, <3>2, <3>3, <3>4 DEF Shape
  <2> QED BY <2>1, <2>2
<1>10. OneMain
  <2>1. SUFFICES ASSUME NEW m \in Node, NEW k \in Node, IsMain(m), IsMain(k), Lhs(m) = Lhs(k) PROVE m = k
    BY DEF OneMain
  <2>2. m \in Top /\ k \in Top /\ TopKind[m] = "Main" /\ TopKind[k] = "Main"
    BY <1>1, <1>2, <2>1 DEF IsMain
  <2> QED BY <1>5, <2>1, <2>2, TopAssumption
<1> QED BY <1>4, <1>6, <1>7, <1>8, <1>9, <1>10 DEF Graph, Shapes, Created

LEMMA InitRanked ==
  ASSUME Init, NEW rank, rank = [n \in Node |-> FirstRank(n)]
  PROVE  Ranked(rank)
<1>1. \A b, n \in Node : ~InRun(n, b)
  <2>1. \A n \in Node : created[n] = <<>>
    BY DEF Init
  <2> QED BY <2>1, NothingOrdered, Zenon DEF InRun
<1>2. SUFFICES ASSUME NEW n \in Node, Exists(n) PROVE RankedAt(rank, n)
  BY DEF Ranked
<1>3. n \in Top /\ kind[n] = TopKind[n] /\ children[n] = TopChildren[n]
  BY <1>2 DEF Init, Exists
<1>4. PICK i \in DOMAIN TopNode : TopNode[i] = n /\ rank[n] = i /\ i \in Nat
  <2>1. rank[n] = FirstRank(n)
    OBVIOUS
  <2>2. DOMAIN TopNode \subseteq Nat
    BY NodeAssumption
  <2> QED BY <1>3, <2>1, <2>2, FirstRankFacts
<1>5. \A j \in DOMAIN TopNode : rank[TopNode[j]] = j
  BY FirstRankFacts DEF Node
<1>6. ASSUME NEW c \in Range(children[n]) PROVE rank[c] < rank[n]
  <2>1. PICK j \in 1 .. i - 1 : c = TopNode[j]
    BY <1>3, <1>4, TopAssumption
  <2>2. j \in DOMAIN TopNode
    <3>1. PICK len \in Nat : DOMAIN TopNode = 1 .. len
      BY NodeAssumption
    <3> QED BY <3>1, <1>4, <2>1
  <2> QED BY <1>4, <1>5, <2>1, <2>2
<1>7. ASSUME kind[n] = "Lhs", NEW j \in DOMAIN TopNode, j < Reach[code[n]]
      PROVE  rank[TopNode[j]] < rank[n]
  <2>1. n \in LhsNode /\ code[n] = TopCode[n]
    BY <1>3, <1>7 DEF Init, LhsNode
  <2>2. Reach[code[n]] <= i
    BY <1>4, <2>1, ReachFacts DEF Reaches
  <2>3. Reach[code[n]] \in Nat /\ j \in Nat
    <3>1. DOMAIN TopNode \subseteq Nat
      BY NodeAssumption
    <3>2. TopCode[n] \in DOMAIN Program
      BY <2>1, ProgramAssumption
    <3> QED BY <2>1, <3>1, <3>2, ReachFacts
  <2> QED BY <1>4, <1>5, <1>7, <2>2, <2>3
<1>8. IsMain(n) => Lhs(n) \in Node
  <2>1. SUFFICES ASSUME IsMain(n) PROVE Lhs(n) \in Node
    OBVIOUS
  <2>2. n \in Top \ VarNode /\ TopChildren[n] \in Seq(Top) /\ Len(TopChildren[n]) = 1
    BY <1>3, <2>1, TopAssumption DEF IsMain, VarNode
  <2>3. TopChildren[n][1] \in Top
    BY <2>2
  <2> QED BY <1>3, <2>3 DEF Lhs, Node
<1> QED BY <1>1, <1>6, <1>7, <1>8 DEF RankedAt

LEMMA InitInv == Init => \E rank \in [Node -> Nat] : Inv(rank)
<1> SUFFICES ASSUME Init PROVE \E rank \in [Node -> Nat] : Inv(rank)
  OBVIOUS
<1> DEFINE first == [n \in Node |-> FirstRank(n)]
<1>1. first \in [Node -> Nat]
  BY FirstRankFacts
<1>2. PICK rank \in [Node -> Nat] : rank = first
  BY <1>1
<1>3. Graph /\ Ranked(rank)
  BY <1>2, InitGraph, InitRanked
<1> HIDE DEF first
<1>4. /\ calls = <<>> /\ observed = {} /\ forced = {} /\ heap = {} /\ direct = {} /\ invalidated = <<>>
      /\ now = 0 /\ stabilising = FALSE
  BY Zenon DEF Init
<1>5. \A n \in Node : /\ valid[n] /\ parents[n] = <<>> /\ created[n] = <<>> /\ changedAt[n] = -1
                      /\ height[n] = -1
  BY DEF Init, Never
<1>6. \A d, n, p : ~Called(d, n, p)
  BY <1>4, Idle
<1>7. \A n \in Node : ~Necessary(n)
  BY <1>4, <1>5 DEF Necessary
<1>8. \A p, c \in Node : ~IsParent(p, c)
  BY <1>5, NothingOrdered, Zenon DEF IsParent
<1>9. CallsTyped
  BY <1>4, NothingOrdered, Zenon DEF CallsTyped
<1>10. Stack(rank) /\ Covered
  BY <1>4, NothingOrdered, Zenon DEF Stack, Covered
<1>11. Validity
  <2>1. \A n \in Fresh : ~Exists(n)
    BY NodeAssumption DEF Init, Exists, Node
  <2>2. ASSUME NEW m \in Node, IsMain(m) PROVE created[Lhs(m)] = <<>>
    <3>1. Shape(m) /\ m \in Top
      BY <1>3, <2>2 DEF Graph, Shapes, Init, IsMain
    <3>2. children[m] \in Seq(Node) /\ Len(children[m]) \in {1, 2}
      BY <2>2, <3>1, InitTyped DEF Shape, TypeOK, IsMain
    <3>3. Lhs(m) \in Node
      <4>1. \A len \in {1, 2} : 1 \in 1 .. len
        OBVIOUS
      <4> QED BY <3>2, <4>1 DEF Lhs
    <3> QED BY <1>5, <3>3
  <2> QED BY <1>5, <2>1, <2>2 DEF Validity, Emptied
<1>12. Links
  <2>1. \A c \in Node : Single(parents[c])
    BY <1>5 DEF Single
  <2> QED BY <1>6, <1>7, <1>8, <2>1 DEF Links, Linked, Link, Unlink, Placing
<1>13. Observers
  BY <1>4, <1>6 DEF Observers
<1>14. Times
  BY <1>4, <1>5, <1>6 DEF Times, Marked
<1>15. Heap
  BY <1>4, <1>5, <1>6 DEF Heap, Heaped, Queued
<1>16. Told
  BY <1>4, <1>7 DEF Told, ToldOf
<1> QED BY <1>3, <1>9, <1>10, <1>11, <1>12, <1>13, <1>14, <1>15, <1>16 DEF Inv

-----------------------------------------------------------------------------
(***************************************************************************)
(* The theorems.                                                           *)
(***************************************************************************)
\* The call at the head of the stack is made.
Makes(n, p) ==
  \/ Runs("add_observer", n, p) /\ AddObserver(n)
  \/ Runs("remove_observer", n, p) /\ RemoveObserver(n)
  \/ Runs("add_parent", n, p) /\ AddParentWithoutAdjustingHeights(n, p)
  \/ Runs("place", n, p) /\ Place(n)
  \/ Runs("remove_parent", n, p) /\ RemoveParent(n, p)
  \/ Runs("release", n, p) /\ Release(n)
  \/ Runs("invalidate", n, p) /\ InvalidateNode(n)
  \/ Runs("lower", n, p) /\ Lower(n)
  \/ Runs("drain", n, p) /\ Drain(n)
  \/ Runs("mark", n, p) /\ MarkInvalid(n)
  \/ Runs("propagate_invalidity", n, p) /\ PropagateInvalidity
  \/ Runs("adjust_heights", n, p) /\ AdjustHeights(n, p)
  \/ Runs("queue_if_older", n, p) /\ QueueIfOlder(n, p)
  \/ Runs("change", n, p) /\ Change(n)
  \/ n = NoNode /\ Runs("drop", NoNode, p) /\ Drop

LEMMA ProceedMakes ==
  ASSUME NEW rank, TypeOK, Inv(rank), Proceed
  PROVE  \E n, p : Makes(n, p)
<1>1. calls # <<>>
  BY DEF Proceed
<1>2. Head(calls) \in Call /\ Head(calls) \in Range(calls)
  BY <1>1, HeadAndTail DEF TypeOK
<1> DEFINE f == Head(calls)
           n == f.node
           p == f.with
<1>3. f = [do |-> f.do, node |-> f.node, with |-> f.with]
  BY <1>2, CallFields
<1>4. f.do = "drop" => n = NoNode
  BY <1>2 DEF Inv, CallsTyped, CallTyped
<1>5. \A d : f.do = d => Runs(d, n, p)
  BY <1>1, <1>3 DEF Runs
<1>6. \/ f.do = "add_observer" /\ AddObserver(n)
      \/ f.do = "remove_observer" /\ RemoveObserver(n)
      \/ f.do = "add_parent" /\ AddParentWithoutAdjustingHeights(n, p)
      \/ f.do = "place" /\ Place(n)
      \/ f.do = "remove_parent" /\ RemoveParent(n, p)
      \/ f.do = "release" /\ Release(n)
      \/ f.do = "invalidate" /\ InvalidateNode(n)
      \/ f.do = "lower" /\ Lower(n)
      \/ f.do = "drain" /\ Drain(n)
      \/ f.do = "mark" /\ MarkInvalid(n)
      \/ f.do = "propagate_invalidity" /\ PropagateInvalidity
      \/ f.do = "adjust_heights" /\ AdjustHeights(n, p)
      \/ f.do = "queue_if_older" /\ QueueIfOlder(n, p)
      \/ f.do = "change" /\ Change(n)
      \/ f.do = "drop" /\ Drop
  BY DEF Proceed
<1> HIDE DEF f, n, p
<1>7. f.do = "drop" => n = NoNode /\ Runs("drop", NoNode, p)
  BY <1>4, <1>5
<1>8. CASE f.do = "drop" /\ Drop
  BY <1>7, <1>8 DEF Makes
<1>9. CASE ~(f.do = "drop" /\ Drop)
  BY <1>5, <1>6, <1>9 DEF Makes
<1> QED BY <1>8, <1>9

LEMMA ProceedInv ==
  ASSUME NEW rank \in [Node -> Nat], TypeOK, Inv(rank), ~panicked, ~panicked', Proceed
  PROVE  Inv(rank)'
<1>1. PICK n, p : Makes(n, p)
  BY ProceedMakes
<1> QED BY <1>1, AddObserverInv, RemoveObserverInv, AddParentInv, PlaceInv, RemoveParentInv, ReleaseInv,
           InvalidateNodeInv, LowerInv, DrainInv, MarkInvalidInv, PropagateInvalidityInv,
           AdjustHeightsInv, QueueIfOlderInv, ChangeInv, DropInv, Zenon DEF Makes

LEMMA ProceedTyped ==
  ASSUME NEW rank \in [Node -> Nat], TypeOK, Inv(rank), VarsLive, Proceed
  PROVE  TypeOK' /\ VarsLive'
<1>1. PICK n, p : Makes(n, p)
  BY ProceedMakes
<1> QED BY <1>1, AddObserverTyped, RemoveObserverTyped, AddParentTyped, PlaceTyped, RemoveParentTyped,
           ReleaseTyped, InvalidateNodeTyped, LowerTyped, DrainTyped, MarkInvalidTyped,
           PropagateInvalidityTyped, AdjustHeightsTyped, QueueIfOlderTyped, ChangeTyped, DropTyped,
           Zenon DEF Makes

LEMMA RecomputeInv ==
  ASSUME NEW rank \in [Node -> Nat], TypeOK, Inv(rank), ~panicked', NEW n, Recompute(n)
  PROVE  \E r \in [Node -> Nat] : Inv(r)'
<1>1. ~RecomputePanics(n) /\ IsNext(n) /\ (RecomputeValue(n) \/ RecomputeMain(n) \/ RecomputeLhs(n))
  BY DEF Recompute, Panic
<1>2. CASE RecomputeValue(n) \/ RecomputeMain(n)
  <2>1. Inv(rank)'
    BY <1>1, <1>2, RecomputeValueInv, RecomputeMainInv, Zenon
  <2> QED BY <2>1
<1>3. CASE RecomputeLhs(n)
  BY <1>1, <1>3, RecomputeLhsInv, Zenon
<1> QED BY <1>1, <1>2, <1>3

\* The inductive invariant.  Nothing is said of the state after a panic.
IInv == TypeOK /\ (~panicked => VarsLive /\ \E rank \in [Node -> Nat] : Inv(rank))

LEMMA InitIInv == Init => IInv
BY InitTyped, InitInv, Zenon DEF IInv

LEMMA NextTyped ==
  ASSUME NEW rank \in [Node -> Nat], TypeOK, Inv(rank), VarsLive, Next
  PROVE  TypeOK' /\ VarsLive'
<1>1. CASE \/ \E v \in VarNode, x \in Bit : SetVar(v, x)
           \/ \E n \in Range(Observable) : ToggleObserver(n)
           \/ StabiliseEnd
  <2>1. Graph
    BY DEF Inv
  <2> QED BY <1>1, <2>1, UserTyped, Zenon
<1>2. CASE StabiliseStart
  BY <1>2, StabiliseStartTyped, Zenon
<1>3. CASE \E n \in Node : Recompute(n)
  BY <1>3, RecomputeTyped, Zenon
<1>4. CASE Proceed
  BY <1>4, ProceedTyped, Zenon
<1> QED BY <1>1, <1>2, <1>3, <1>4, Zenon DEF Next

LEMMA NextInv ==
  ASSUME NEW rank \in [Node -> Nat], TypeOK, Inv(rank), VarsLive, Next, ~panicked'
  PROVE  \E r \in [Node -> Nat] : Inv(r)'
<1>0. ~panicked
  BY DEF Next
<1>1. CASE \E v \in VarNode, x \in Bit : SetVar(v, x)
  <2>1. PICK v \in VarNode, x \in Bit : SetVar(v, x)
    BY <1>1
  <2>2. Inv(rank)'
    BY <2>1, SetVarInv DEF VarsLive
  <2> QED BY <2>2
<1>2. CASE \E n \in Range(Observable) : ToggleObserver(n)
  <2>1. Inv(rank)'
    BY <1>2, ToggleObserverInv, Zenon
  <2> QED BY <2>1
<1>3. CASE StabiliseStart
  <2>1. Inv(rank)'
    BY <1>3, StabiliseStartInv, Zenon
  <2> QED BY <2>1
<1>4. CASE \E n \in Node : Recompute(n)
  BY <1>4, RecomputeInv, Zenon
<1>5. CASE Proceed
  <2>1. Inv(rank)'
    BY <1>0, <1>5, ProceedInv, Zenon
  <2> QED BY <2>1
<1>6. CASE StabiliseEnd
  <2>1. Inv(rank)'
    BY <1>6, StabiliseEndInv, Zenon
  <2> QED BY <2>1
<1> QED BY <1>1, <1>2, <1>3, <1>4, <1>5, <1>6, Zenon DEF Next

LEMMA NextIInv == IInv /\ [Next]_vars => IInv'
<1>1. ASSUME IInv, Next PROVE IInv'
  <2>1. ~panicked
    BY <1>1 DEF Next
  <2>2. PICK rank \in [Node -> Nat] : Inv(rank)
    BY <1>1, <2>1 DEF IInv
  <2>3. TypeOK /\ VarsLive
    BY <1>1, <2>1 DEF IInv
  <2>4. TypeOK' /\ VarsLive'
    BY <1>1, <2>2, <2>3, NextTyped, Zenon
  <2>5. ~panicked' => \E r \in [Node -> Nat] : Inv(r)'
    BY <1>1, <2>2, <2>3, NextInv, Zenon
  <2> QED BY <2>4, <2>5, Zenon DEF IInv
<1>2. ASSUME IInv, UNCHANGED vars PROVE IInv'
  <2>1. TypeOK'
    BY <1>2 DEF IInv, TypeOK, vars, made, values, links, turn, user
  <2>2. ASSUME ~panicked' PROVE VarsLive' /\ \E rank \in [Node -> Nat] : Inv(rank)'
    <3>1. ~panicked
      BY <1>2, <2>2 DEF vars
    <3>2. VarsLive /\ TypeOK
      BY <1>2, <3>1 DEF IInv
    <3>3. PICK rank \in [Node -> Nat] : Inv(rank)
      BY <1>2, <3>1 DEF IInv
    <3>4. UNCHANGED <<made, children, created, valid, values, height, links, invalidated, turn, calls>>
          /\ heap' = heap
      BY <1>2 DEF vars
    <3>5. Inv(rank)'
      BY <3>2, <3>3, <3>4, UserInv, Zenon
    <3>6. VarsLive'
      BY <3>2, <3>4, VarsLiveKept DEF VarsLive
    <3> QED BY <3>5, <3>6
  <2> QED BY <2>1, <2>2 DEF IInv
<1> QED BY <1>1, <1>2

LEMMA Invariance == Spec => []IInv
BY InitIInv, NextIInv, PTL DEF Spec

(***************************************************************************)
(* Fields keep the types that the code declares, through every call: a     *)
(* vector of parents has nodes only, the closure of a bind is one of the   *)
(* program's, and what a step takes from a sequence is there.              *)
(***************************************************************************)
THEOREM TypeCorrect == Spec => []TypeOK
<1>1. IInv => TypeOK
  BY DEF IInv
<1> QED BY <1>1, Invariance, PTL

(***************************************************************************)
(* What a run of a closure created dies with the run, and nothing lives on *)
(* what is dead: Node::invalidate_node, invalidate_nodes_created_on_rhs    *)
(* and State::propagate_invalidity reach every node that they should, for  *)
(* binds nested and chained in any way, replaced, shared by other nodes or *)
(* not necessary at the time.  Nothing is said of the state after a panic. *)
(***************************************************************************)
THEOREM RunsDie == Spec => []OldRunsDead
<1>1. IInv => OldRunsDead
  <2> SUFFICES ASSUME IInv, ~panicked PROVE OldRunsDead
    BY DEF OldRunsDead
  <2>1. TypeOK
    BY DEF IInv
  <2>2. PICK rank \in [Node -> Nat] : Inv(rank)
    BY DEF IInv
  <2>3. ASSUME calls = <<>>, NEW n \in Node, scope[n] # NoNode, valid[n]
        PROVE  n \in Range(created[scope[n]]) /\ \E m \in MainOf(scope[n]) : valid[m]
    <3>1. n \in Fresh /\ Exists(n)
      BY <2>2, <2>3 DEF Inv, Graph, TopNodes, NoNodes, Node
    <3>2. /\ \A d, k, p : ~Called(d, k, p)
          /\ forced = {} /\ invalidated = <<>>
          /\ \A k \in Node : ~Dying(k)
      BY <2>1, <2>2, <2>3, BetweenTurns, Zenon
    <3>3. Homed(n)
      BY <2>2, <2>3, <3>1, <3>2 DEF Inv, Validity
    <3>4. PICK m \in Node : Keeps(m, n)
      BY <3>3 DEF Homed
    <3>5. m \in MainOf(scope[n]) /\ IsMain(m) /\ Lhs(m) = scope[n]
      BY <3>4 DEF Keeps, MainOf, IsMain, Lhs
    <3>6. InRun(n, scope[n])
      BY <3>3 DEF Homed
    <3>7. created[Lhs(m)] # <<>>
      BY <3>5, <3>6, NothingOrdered, Zenon DEF InRun
    <3>8. valid[m]
      BY <2>2, <3>5, <3>7 DEF Inv, Validity, Emptied
    <3> QED BY <3>5, <3>6, <3>8 DEF InRun
  <2>4. ASSUME ~stabilising, NEW n \in Node, Necessary(n), valid[n], NEW c \in Range(children[n])
        PROVE  valid[c]
    <3>1. calls = <<>> /\ direct = {} /\ heap \subseteq VarNode
      BY <2>2, <2>4 DEF Inv, Heap
    <3>2. /\ \A d, k, p : ~Called(d, k, p)
          /\ forced = {} /\ invalidated = <<>>
          /\ \A k \in Node : ~Dying(k)
      BY <2>1, <2>2, <3>1, BetweenTurns, Zenon
    <3>3. c \in Node /\ Child(c, n) /\ kind[n] # "Var"
      BY <2>1, <2>2, <2>4, Children DEF Inv, Child
    <3>4. ToldOf(n, c)
      BY <2>2, <3>3 DEF Inv, Told
    <3>5. n \notin Range(invalidated)
      BY <3>2, NothingOrdered, Zenon
    <3>6. ~Queued(n)
      <4>1. n \notin VarNode
        BY <2>2, <3>3, VarFacts DEF Inv
      <4> QED BY <3>1, <4>1 DEF Queued
    <3> QED BY <2>4, <3>2, <3>3, <3>4, <3>5, <3>6 DEF ToldOf, Link
  <2> QED BY <2>3, <2>4 DEF OldRunsDead
<1> QED BY <1>1, Invariance, PTL

-----------------------------------------------------------------------------
(***************************************************************************)
(* Heights.  What holds of them while calls are under way, beside what Inv *)
(* says.                                                                   *)
(***************************************************************************)
\* The input of a main node's bind.
Input(m) == Lhs(Lhs(m))

\* p is about to be put above its right-hand side c by adjust_heights.
Adjust(c, p) == Called("adjust_heights", c, p)

\* Nodes are being linked; or a main node has been, and heights are not yet adjusted.
Starting == \E d \in Linking : \E n, p : Called(d, n, p)
Busy == Starting \/ \E c, m : Adjust(c, m)

(***************************************************************************)
(* Where the nodes that closures make are used: a Map and a bind that a    *)
(* closure makes are of nodes at the top; a right-hand side is at the top, *)
(* made by this bind, or made by the bind that is this one's input.  The   *)
(* two nodes of a bind are made together, and so are they invalidated.     *)
(***************************************************************************)
UsedFrom(o, m) ==
  \/ o \in Top
  \/ scope[o] = Lhs(m)
  \/ IsMain(Input(m)) /\ scope[o] = Lhs(Input(m))

Uses ==
  /\ \A n \in Node : scope[n] # n
  /\ \A n \in Fresh : kind[n] \in {"Map", "Lhs"} => Lhs(n) \in Top
  /\ \A m \in Node : IsMain(m) => scope[Lhs(m)] = scope[m]
  /\ \A m \in Node : IsMain(m) /\ HasRhs(m) => UsedFrom(Rhs(m), m)
  /\ \A m \in Node : IsMain(m) /\ scope[m] # NoNode /\ InRun(Lhs(m), scope[m]) => InRun(m, scope[m])

(***************************************************************************)
(* The order in which a node is linked: to its first child at once, and it *)
(* is placed when it is linked to all.  f is before g on the stack.        *)
(***************************************************************************)
InLine(f, g) == g.do = "add_parent" =>
  g.node # Lhs(g.with) /\ ~(f.do = "place" /\ f.node = g.with)
Lined(s) == \A i, j \in DOMAIN s : i < j => InLine(s[i], s[j])

(***************************************************************************)
(* A node is linked to its children because it became necessary, and then  *)
(* it is placed, after those below it and before those above; or because   *)
(* its right-hand side was replaced.  The lhs-change node of a bind has    *)
(* its place before the right-hand side is linked, so that nothing in the  *)
(* bind's scope is necessary earlier.                                      *)
(***************************************************************************)
Opening ==
  /\ \A c, p \in Node : Link(c, p) => Placing(p) \/ Adjust(c, p)
  /\ \A m \in Node : IsMain(m) /\ HasRhs(m) /\ (Link(Lhs(m), m) \/ Placing(Lhs(m))) => Link(Rhs(m), m)
  /\ \A n, q \in Node : Placing(n) /\ IsParent(q, n) => Placing(q) \/ Adjust(n, q)
  /\ \A n \in Node : scope[n] # NoNode /\ Placing(scope[n]) => ~Necessary(n)

\* Valid nodes are above their scope, and so are those of the last run of a valid bind.
Scoped(n) == valid[n] \/ \E b \in Node : InRun(n, b) /\ valid[b]

Rising(c, p) == height[c] < height[p] \/ Placing(p) \/ Unlink(c, p) \/ Adjust(c, p)

High ==
  /\ \A n \in Node : height[n] >= -1
  /\ \A c, p \in Node : IsParent(p, c) => Rising(c, p)
  /\ \A n \in Node : Necessary(n) /\ Scoped(n) => ScopeHeight(n) < height[n]

Ended == \A n \in Node :
  /\ Marked(n) => valid[n]
  /\ Called("lower", n, NoNode) => Necessary(n)

\* An lhs-change node becomes invalid because of its input, or with its main node; and
\* nothing is invalidated while nodes are linked, but for what an old run made.
Fated(m) ==
  /\ valid[m] /\ ~valid[Lhs(m)] => ~valid[Input(m)] \/ (Dying(m) /\ ~Busy)
  /\ valid[m] /\ Dying(Lhs(m)) => ~valid[Input(m)] \/ Dying(m)
Fates == \A m \in Node : IsMain(m) => Fated(m)

(***************************************************************************)
(* Between the run of a closure and adjust_heights: the main node m is     *)
(* linked to c.  What is told of invalid nodes, and what is about to be    *)
(* invalidated, is not above m; so adjust_heights, which raises only m and *)
(* what is above it, raises none of it.                                    *)
(***************************************************************************)
Relinking(rank, c, m) ==
  /\ IsMain(m) /\ HasRhs(m) /\ c = Rhs(m)
  /\ IsParent(m, Lhs(m)) /\ IsParent(Lhs(m), Input(m)) /\ ~Placing(Lhs(m))
  /\ \A n \in Range(invalidated) : rank[n] <= rank[m]
  /\ \A n \in Node : Called("invalidate", n, NoNode) => scope[n] = Lhs(m) /\ rank[n] < rank[m]
  /\ \A k, q \in Node : Link(k, q) => rank[q] <= rank[m]
  /\ \A o \in forced : UsedFrom(o, m)

Turning(rank) ==
  /\ \A c, m \in Node : Adjust(c, m) => Relinking(rank, c, m)
  /\ Starting => (\E c, m \in Node : Adjust(c, m))
                 \/ \A n \in Node : ~Called("invalidate", n, NoNode) /\ ~Called("release", n, NoNode)

HighInv(rank) == Uses /\ Lined(calls) /\ Opening /\ High /\ Ended /\ Fates /\ Turning(rank)

LEMMA LinedTail ==
  ASSUME NEW S, NEW s \in Seq(S), s # <<>>, Lined(s)
  PROVE  Lined(Tail(s)) /\ \A g \in Range(Tail(s)) : InLine(Head(s), g)
<1>1. Tail(s) \in Seq(S) /\ Len(s) \in Nat \ {0} /\ Len(Tail(s)) = Len(s) - 1
      /\ Head(s) = s[1] /\ \A i \in 1 .. Len(s) - 1 : Tail(s)[i] = s[i + 1]
  OBVIOUS
<1>2. \A i, j \in 1 .. Len(s) : i < j => InLine(s[i], s[j])
  BY DEF Lined
<1>3. ASSUME NEW i \in DOMAIN Tail(s), NEW j \in DOMAIN Tail(s), i < j
      PROVE  InLine(Tail(s)[i], Tail(s)[j])
  <2>1. i + 1 \in 1 .. Len(s) /\ j + 1 \in 1 .. Len(s) /\ i + 1 < j + 1
    BY <1>1, <1>3
  <2>2. Tail(s)[i] = s[i + 1] /\ Tail(s)[j] = s[j + 1]
    BY <1>1
  <2> QED BY <1>2, <2>1, <2>2
<1>4. ASSUME NEW g \in Range(Tail(s)) PROVE InLine(Head(s), g)
  <2> DEFINE t == Tail(s)
  <2>0. t \in Seq(S) /\ g \in Range(t)
    BY <1>1, <1>4
  <2>1. PICK i \in 1 .. Len(t) : t[i] = g
    <3> HIDE DEF t
    <3> QED BY <2>0, RangeHasIndex
  <2>2. i + 1 \in 1 .. Len(s) /\ 1 \in 1 .. Len(s) /\ 1 < i + 1 /\ s[i + 1] = g
    BY <1>1, <2>1
  <2> QED BY <1>1, <1>2, <2>2
<1> QED BY <1>3, <1>4 DEF Lined

LEMMA LinedConcatenation ==
  ASSUME NEW S, NEW s \in Seq(S), NEW t \in Seq(S), Lined(s), Lined(t),
         \A f \in Range(s), g \in Range(t) : InLine(f, g)
  PROVE  Lined(s \o t)
<1>1. Len(s) \in Nat /\ Len(t) \in Nat /\ DOMAIN s = 1 .. Len(s) /\ DOMAIN t = 1 .. Len(t)
      /\ DOMAIN (s \o t) = 1 .. Len(s) + Len(t)
  BY Concatenation
<1>2. SUFFICES ASSUME NEW i \in 1 .. Len(s) + Len(t), NEW j \in 1 .. Len(s) + Len(t), i < j
               PROVE  InLine((s \o t)[i], (s \o t)[j])
  BY <1>1 DEF Lined
<1>3. CASE j <= Len(s)
  <2>1. i \in 1 .. Len(s) /\ j \in 1 .. Len(s)
    BY <1>1, <1>2, <1>3
  <2>2. (s \o t)[i] = s[i] /\ (s \o t)[j] = s[j]
    BY <2>1, Concatenation
  <2> QED BY <1>1, <1>2, <2>1, <2>2 DEF Lined
<1>4. CASE i <= Len(s) /\ ~(j <= Len(s))
  <2>1. i \in 1 .. Len(s) /\ j \in Len(s) + 1 .. Len(s) + Len(t) /\ j - Len(s) \in 1 .. Len(t)
    BY <1>1, <1>2, <1>4
  <2>2. (s \o t)[i] = s[i] /\ (s \o t)[j] = t[j - Len(s)]
    BY <2>1, Concatenation
  <2>3. s[i] \in Range(s) /\ t[j - Len(s)] \in Range(t)
    BY <2>1, RangeHasIndex, IndexInRange
  <2> QED BY <2>2, <2>3
<1>5. CASE ~(i <= Len(s))
  <2>1. /\ i \in Len(s) + 1 .. Len(s) + Len(t) /\ i - Len(s) \in 1 .. Len(t)
        /\ j \in Len(s) + 1 .. Len(s) + Len(t) /\ j - Len(s) \in 1 .. Len(t)
        /\ i - Len(s) < j - Len(s)
    BY <1>1, <1>2, <1>5
  <2>2. (s \o t)[i] = t[i - Len(s)] /\ (s \o t)[j] = t[j - Len(s)]
    BY <2>1, Concatenation
  <2> QED BY <1>1, <2>1, <2>2 DEF Lined
<1> QED BY <1>3, <1>4, <1>5

LEMMA LinedPush ==
  ASSUME calls \in Seq(Call), calls # <<>>, Lined(calls), UNCHANGED children, NEW first \in Seq(Call),
         calls' = first \o Tail(calls), Lined(first),
         \A f \in Range(first), g \in Range(Tail(calls)) : InLine(Head(calls), g) => InLine(f, g)
  PROVE  Lined(calls)'
<1>1. Tail(calls) \in Seq(Call) /\ Lined(Tail(calls))
      /\ \A g \in Range(Tail(calls)) : InLine(Head(calls), g)
  BY HeadAndTail, LinedTail
<1>2. Lined(first \o Tail(calls))
  BY <1>1, LinedConcatenation
<1> QED BY <1>2 DEF Lined, InLine, Lhs

LEMMA LinedPop ==
  ASSUME calls \in Seq(Call), calls # <<>>, Lined(calls), UNCHANGED children, calls' = Tail(calls)
  PROVE  Lined(calls)'
BY LinedTail DEF Lined, InLine, Lhs

\* When nothing is being linked.
LEMMA QuietFacts ==
  ASSUME NEW rank, calls \in Seq(Call), ~Busy
  PROVE  Lined(calls) /\ Opening /\ Turning(rank)
<1>1. ~Starting /\ \A c, p : ~Link(c, p) /\ ~Placing(c) /\ ~Adjust(c, p)
  BY DEF Busy, Starting, Linking, Link, Placing, Adjust
<1>2. Lined(calls)
  <2> SUFFICES ASSUME NEW j \in 1 .. Len(calls), calls[j].do = "add_parent" PROVE FALSE
    BY DEF Lined, InLine
  <2>1. calls[j] \in Range(calls)
    BY IndexInRange
  <2>2. calls[j] \in Call
    OBVIOUS
  <2>3. Link(calls[j].node, calls[j].with)
    BY <2>1, <2>2, CallFields DEF Link, Called
  <2> QED BY <1>1, <2>3
<1>3. Opening
  BY <1>1 DEF Opening
<1>4. Turning(rank)
  BY <1>1 DEF Turning
<1> QED BY <1>2, <1>3, <1>4

\* The same after a step.
LEMMA Quiet ==
  ASSUME NEW rank, calls' \in Seq(Call), ~Busy'
  PROVE  Lined(calls)' /\ Opening' /\ Turning(rank)'
<1>1. ~Starting' /\ \A c, p : ~Link(c, p)' /\ ~Placing(c)' /\ ~Adjust(c, p)'
  BY DEF Busy, Starting, Linking, Link, Placing, Adjust
<1>2. Lined(calls)'
  <2> SUFFICES ASSUME NEW j \in 1 .. Len(calls'), calls'[j].do = "add_parent" PROVE FALSE
    BY DEF Lined, InLine
  <2>1. PICK f \in Call : f = calls'[j] /\ f \in Range(calls')
    BY IndexInRange
  <2>2. f = [do |-> "add_parent", node |-> f.node, with |-> f.with]
    BY <2>1, CallFields
  <2>3. Link(f.node, f.with)'
    BY <2>1, <2>2 DEF Link, Called
  <2> QED BY <1>1, <2>3
<1>3. Opening'
  BY <1>1 DEF Opening
<1>4. Turning(rank)'
  BY <1>1 DEF Turning
<1> QED BY <1>2, <1>3, <1>4

LEMMA UsesKept ==
  ASSUME UNCHANGED <<kind, scope, children, created>>, Uses
  PROVE  Uses'
BY DEF Uses, UsedFrom, IsMain, Lhs, HasRhs, Rhs, Input, InRun

LEMMA HighKept ==
  ASSUME High, UNCHANGED <<height, scope>>,
         \A n \in Node : Necessary(n)' /\ Scoped(n)' => Necessary(n) /\ Scoped(n),
         \A c, p \in Node : IsParent(p, c)' =>
           IsParent(p, c) /\ (Placing(p) \/ Unlink(c, p) \/ Adjust(c, p) => Rising(c, p)')
  PROVE  High'
BY DEF High, Rising, ScopeHeight

LEMMA FatesKept ==
  ASSUME Fates, UNCHANGED <<kind, children, valid>>,
         \A m \in Node : IsMain(m) => Lhs(m) \in Node,
         \A n \in Node : Dying(n)' => Dying(n),
         \A n \in Node : Dying(n) /\ valid[n] => Dying(n)',
         Busy' => Busy \/ \A n \in Node : ~Dying(n)
  PROVE  Fates'
BY DEF Fates, Fated, IsMain, Lhs, Input

\* A call that is not about linking runs.
LEMMA NotBusy ==
  ASSUME NEW rank, NEW f, NEW n, NEW p, Scene(rank, f, n, p), f \notin Linking, f # "adjust_heights"
  PROVE  /\ ~Busy /\ ~Starting
         /\ \A k, q : /\ ~Link(k, q) /\ ~Placing(k) /\ ~Adjust(k, q)
                      /\ ~Waiting("add_parent", k, q) /\ ~Waiting("place", k, q) /\ ~Waiting("adjust_heights", k, q)
<1>1. \A k, q : ~Waiting("add_parent", k, q) /\ ~Waiting("place", k, q) /\ ~Waiting("adjust_heights", k, q)
  BY NoLinkUnder
<1>2. \A d, k, q : Called(d, k, q) => Waiting(d, k, q) \/ d = f
  BY DEF Scene
<1>3. \A k, q : ~Called("add_parent", k, q) /\ ~Called("place", k, q) /\ ~Called("adjust_heights", k, q)
  BY <1>1, <1>2 DEF Linking
<1> QED BY <1>1, <1>3 DEF Busy, Starting, Linking, Link, Placing, Adjust

LEMMA NotBusyAfter ==
  ASSUME \A k, q : ~Called("add_parent", k, q)' /\ ~Called("place", k, q)' /\ ~Called("adjust_heights", k, q)'
  PROVE  ~Busy'
BY DEF Busy, Starting, Linking, Adjust

\* A step that leaves the heights, and links nothing.
LEMMA Unraised ==
  ASSUME NEW rank, HighInv(rank), calls' \in Seq(Call), ~Busy, ~Busy',
         UNCHANGED <<kind, scope, children, created, valid, height>>,
         \A n \in Node : Necessary(n)' => Necessary(n),
         \A c, p \in Node : IsParent(p, c)' => IsParent(p, c) /\ (Unlink(c, p) => Unlink(c, p)'),
         \A n \in Node : Marked(n)' => valid[n],
         \A n \in Node : Called("lower", n, NoNode)' => Necessary(n)',
         Fates'
  PROVE  HighInv(rank)'
<1>1. Lined(calls)' /\ Opening' /\ Turning(rank)'
  BY Quiet, Zenon
<1>2. Uses'
  BY UsesKept DEF HighInv
<1>3. High'
  <2>1. \A n \in Node : Scoped(n)' <=> Scoped(n)
    BY DEF Scoped, InRun
  <2>2. \A c, p \in Node : ~Placing(p) /\ ~Adjust(c, p)
    BY DEF Busy, Starting, Linking, Placing
  <2>3. \A c, p \in Node : IsParent(p, c)' /\ (Placing(p) \/ Unlink(c, p) \/ Adjust(c, p)) => Rising(c, p)'
    BY <2>2 DEF Rising
  <2>4. High /\ UNCHANGED <<height, scope>>
    BY DEF HighInv
  <2>5. \A n \in Node : Necessary(n)' /\ Scoped(n)' => Necessary(n) /\ Scoped(n)
    BY <2>1
  <2>6. \A c, p \in Node : IsParent(p, c)' =>
           IsParent(p, c) /\ (Placing(p) \/ Unlink(c, p) \/ Adjust(c, p) => Rising(c, p)')
    BY <2>3
  <2> QED BY <2>4, <2>5, <2>6, HighKept, Zenon
<1>4. Ended'
  BY DEF Ended
<1> QED BY <1>1, <1>2, <1>3, <1>4 DEF HighInv

LEMMA MainLhs ==
  ASSUME TypeOK, Graph
  PROVE  \A m \in Node : IsMain(m) => Lhs(m) \in Node /\ kind[Lhs(m)] = "Lhs"
BY MainChildren

\* A call returns that is not about linking, and has left links and heights.
LEMMA ReturnedHigh ==
  ASSUME NEW rank \in [Node -> Nat], TypeOK, Inv(rank), HighInv(rank),
         NEW f, NEW n, NEW p, Runs(f, n, p), f \notin Linking \union {"adjust_heights", "mark"}, Returns,
         UNCHANGED <<kind, scope, children, created, valid, height>>,
         \A k \in Node : Necessary(k)' <=> Necessary(k),
         \A k, q \in Node : IsParent(q, k)' => IsParent(q, k) /\ ~(f = "remove_parent" /\ k = n /\ q = p),
         f = "invalidate" /\ n # NoNode => ~valid[n]
  PROVE  HighInv(rank)'
<1>1. Scene(rank, f, n, p)
  BY Context, Zenon
<1>2. /\ calls \in Seq(Call) /\ calls # <<>> /\ Stack(rank) /\ CallsTyped /\ Covered
      /\ \A d, k, q : Called(d, k, q) <=> Waiting(d, k, q) \/ (d = f /\ k = n /\ q = p)
  BY <1>1 DEF Scene
<1>3. /\ calls' \in Seq(Call)
      /\ \A d, k, q : Called(d, k, q)' <=> Waiting(d, k, q)
  BY <1>2, Return
<1>4. f \notin Linking /\ f # "adjust_heights" /\ f # "mark"
  OBVIOUS
<1>5. /\ ~Busy
      /\ \A k, q : ~Waiting("add_parent", k, q) /\ ~Waiting("place", k, q) /\ ~Waiting("adjust_heights", k, q)
  BY <1>1, <1>4, NotBusy
<1>6. ~Busy'
  BY <1>3, <1>5, NotBusyAfter
<1>7. \A c, q \in Node : IsParent(q, c)' => IsParent(q, c) /\ (Unlink(c, q) => Unlink(c, q)')
  BY <1>2, <1>3 DEF Unlink
<1>8. \A k \in Node : (Marked(k)' => valid[k]) /\ (Called("lower", k, NoNode)' => Necessary(k)')
  BY <1>2, <1>3 DEF HighInv, Ended, Marked
<1>9. Fates'
  <2>1. \A k \in Node : Dying(k)' => Dying(k)
    BY <1>2, <1>3 DEF Dying, Marked
  <2>2. \A k \in Node : Dying(k) /\ valid[k] => Dying(k)'
    BY <1>2, <1>3, <1>4, NodeAssumption DEF Dying, Marked
  <2>3. \A m \in Node : IsMain(m) => Lhs(m) \in Node
    BY MainLhs DEF Inv
  <2> QED BY <1>6, <2>1, <2>2, <2>3, FatesKept DEF HighInv
<1> QED BY <1>3, <1>5, <1>6, <1>7, <1>8, <1>9, Unraised

LEMMA QueueIfOlderHigh ==
  ASSUME NEW rank \in [Node -> Nat], TypeOK, Inv(rank), HighInv(rank), NEW c, NEW p,
         Runs("queue_if_older", c, p), QueueIfOlder(c, p)
  PROVE  HighInv(rank)'
<1>1. /\ UNCHANGED <<kind, scope, children, created, valid, height>> /\ Returns
      /\ \A k \in Node : Necessary(k)' <=> Necessary(k)
      /\ \A k, q \in Node : IsParent(q, k)' <=> IsParent(q, k)
  BY DEF QueueIfOlder, made, links, Necessary, IsParent
<1> QED BY <1>1, ReturnedHigh DEF Linking

LEMMA ChangeHigh ==
  ASSUME NEW rank \in [Node -> Nat], TypeOK, Inv(rank), HighInv(rank), NEW b, NEW p,
         Runs("change", b, p), Change(b)
  PROVE  HighInv(rank)'
<1>1. /\ UNCHANGED <<kind, scope, children, created, valid, height>> /\ Returns
      /\ \A k \in Node : Necessary(k)' <=> Necessary(k)
      /\ \A k, q \in Node : IsParent(q, k)' <=> IsParent(q, k)
  BY DEF Change, made, links, Necessary, IsParent
<1> QED BY <1>1, ReturnedHigh DEF Linking

\* Node::invalidate_node lowers a node to just above its scope; it was higher.
LEMMA LowerHigh ==
  ASSUME NEW rank \in [Node -> Nat], TypeOK, Inv(rank), HighInv(rank), NEW n, NEW p,
         Runs("lower", n, p), Lower(n)
  PROVE  HighInv(rank)'
<1>1. Scene(rank, "lower", n, p)
  BY Context, Zenon
<1>2. /\ calls \in Seq(Call) /\ calls # <<>> /\ Stack(rank) /\ CallsTyped /\ Covered
      /\ n \in Node /\ p = NoNode
      /\ \A d, k, q : Called(d, k, q) <=> Waiting(d, k, q) \/ (d = "lower" /\ k = n /\ q = p)
  BY <1>1 DEF Scene, Paired
<1>3. /\ calls' \in Seq(Call)
      /\ \A d, k, q : Called(d, k, q)' <=> Waiting(d, k, q)
  BY <1>2, Return DEF Lower, made
<1>4. /\ ~Busy
      /\ \A k, q : /\ ~Link(k, q) /\ ~Placing(k) /\ ~Adjust(k, q)
                   /\ ~Waiting("add_parent", k, q) /\ ~Waiting("place", k, q) /\ ~Waiting("adjust_heights", k, q)
  BY <1>1, NotBusy DEF Linking
<1>5. ~Busy'
  BY <1>3, <1>4, NotBusyAfter
<1>6. \A k, q : ~Unlink(k, q)
  <2>1. \A k, q : ~Waiting("remove_parent", k, q)
    BY <1>1, NoLinkUnder DEF Linking
  <2> QED BY <1>2, <2>1 DEF Unlink
<1>7. Lined(calls)' /\ Opening' /\ Turning(rank)'
  BY <1>3, <1>5, Quiet, Zenon
<1>8. /\ UNCHANGED <<kind, scope, children, created, valid, parents, observed, forced>>
      /\ height' = [height EXCEPT ![n] = ScopeHeight(n) + 1]
  BY DEF Lower, made, links
<1>9. Marked(n) /\ valid[n] /\ Necessary(n) /\ Scoped(n)
  <2>1. Called("lower", n, NoNode)
    BY <1>2
  <2> QED BY <1>2, <2>1 DEF Inv, Heap, Heaped, HighInv, Ended, Scoped
<1>10. ScopeHeight(n) < height[n] /\ scope[n] # n
  BY <1>2, <1>9 DEF HighInv, High, Uses
<1>11. \A k \in Node : height[k] \in Int /\ height[k] >= -1 /\ scope[k] \in Node \union {NoNode}
  BY DEF TypeOK, HighInv, High
<1>12. ScopeHeight(n) \in Int /\ ScopeHeight(n) >= -1
  BY <1>2, <1>11 DEF ScopeHeight
<1>13. \A k \in Node : height'[k] \in Int /\ height'[k] <= height[k] /\ height'[k] >= -1 /\ (k # n => height'[k] = height[k])
  <2> DEFINE x == ScopeHeight(n) + 1
  <2>1. x \in Int /\ x <= height[n] /\ x >= -1
    BY <1>2, <1>10, <1>11, <1>12
  <2>2. height' = [height EXCEPT ![n] = x]
    BY <1>8
  <2> HIDE DEF x
  <2> QED BY <1>11, <2>1, <2>2 DEF TypeOK
<1>14. \A k \in Node : Necessary(k)' <=> Necessary(k)
  BY <1>8 DEF Necessary
<1>15. High'
  <2>1. ASSUME NEW c \in Node, NEW q \in Node, IsParent(q, c)' PROVE Rising(c, q)'
    <3>1. IsParent(q, c)
      BY <1>8, <2>1 DEF IsParent
    <3>2. q # n
      BY <1>6, <1>9, <2>1, <3>1 DEF Inv, Links, Linked
    <3>3. height[c] < height[q]
      BY <1>4, <1>6, <3>1 DEF HighInv, High, Rising
    <3> QED BY <1>11, <1>13, <3>2, <3>3 DEF Rising
  <2>2. ASSUME NEW k \in Node, Necessary(k)', Scoped(k)' PROVE ScopeHeight(k)' < height'[k]
    <3>1. Necessary(k) /\ Scoped(k)
      BY <1>8, <1>14, <2>2 DEF Scoped, InRun
    <3>2. ScopeHeight(k) < height[k]
      BY <3>1 DEF HighInv, High
    <3>3. scope'[k] = scope[k]
      BY <1>8
    <3>4. CASE k = n
      <4>1. ScopeHeight(n)' = ScopeHeight(n)
        BY <1>2, <1>8, <1>10, <1>11, <1>13 DEF ScopeHeight
      <4> QED BY <1>2, <1>8, <1>12, <3>4, <4>1 DEF TypeOK
    <3>5. CASE k # n
      <4>1. height'[k] = height[k]
        BY <1>13, <3>5
      <4>2. CASE scope[k] = NoNode
        BY <3>2, <3>3, <4>1, <4>2 DEF ScopeHeight
      <4>3. CASE scope[k] # NoNode
        <5>1. height'[scope[k]] <= height[scope[k]] /\ height'[scope[k]] \in Int /\ height[scope[k]] \in Int
          BY <1>11, <1>13, <4>3
        <5>2. height[scope[k]] < height[k]
          BY <3>2, <4>3 DEF ScopeHeight
        <5> QED BY <1>11, <3>3, <4>1, <4>3, <5>1, <5>2 DEF ScopeHeight
      <4> QED BY <4>2, <4>3
    <3> QED BY <3>4, <3>5
  <2> QED BY <1>13, <2>1, <2>2 DEF High
<1>16. Uses'
  BY <1>8, UsesKept DEF HighInv
<1>17. Ended'
  BY <1>2, <1>3, <1>8, <1>14 DEF HighInv, Ended, Marked
<1>18. Fates'
  <2>1. \A k \in Node : Dying(k)' <=> Dying(k)
    BY <1>2, <1>3 DEF Dying, Marked
  <2>2. \A m \in Node : IsMain(m) => Lhs(m) \in Node
    BY MainLhs DEF Inv
  <2> QED BY <1>5, <1>8, <2>1, <2>2, FatesKept DEF HighInv
<1> QED BY <1>7, <1>15, <1>16, <1>17, <1>18 DEF HighInv

\* The two nodes of a bind, made by another, are invalidated together.
LEMMA DrainHigh ==
  ASSUME NEW rank \in [Node -> Nat], TypeOK, Inv(rank), HighInv(rank), NEW n, NEW p,
         Runs("drain", n, p), Drain(n)
  PROVE  HighInv(rank)'
<1>1. Scene(rank, "drain", n, p)
  BY Context, Zenon
<1>2. /\ calls \in Seq(Call) /\ calls # <<>> /\ n \in Node /\ p = NoNode /\ IsMain(n)
      /\ \A d, k, q : Called(d, k, q) <=> Waiting(d, k, q) \/ (d = "drain" /\ k = n /\ q = p)
  BY <1>1 DEF Scene, Paired
<1>3. /\ ~Busy
      /\ \A k, q : /\ ~Link(k, q) /\ ~Placing(k) /\ ~Adjust(k, q)
                   /\ ~Waiting("add_parent", k, q) /\ ~Waiting("place", k, q) /\ ~Waiting("adjust_heights", k, q)
  BY <1>1, NotBusy DEF Linking
<1> DEFINE b == Lhs(n)
<1>4. b \in Node /\ kind[b] = "Lhs" /\ Graph
  BY <1>2, MainLhs DEF Inv
<1>5. /\ UNCHANGED <<kind, scope, children, valid, height, parents, observed, forced>>
      /\ created' = [created EXCEPT ![b] = <<>>]
      /\ calls' = DoEach("invalidate", created[b]) \o Tail(calls)
  BY DEF Drain, made, links, Calls, Lhs
<1> HIDE DEF b
<1>6. /\ calls' \in Seq(Call)
      /\ \A d, k, q : Called(d, k, q)' <=> Waiting(d, k, q) \/ (d = "invalidate" /\ InRun(k, b) /\ q = NoNode)
  <2>1. /\ DoEach("invalidate", created[b]) \in Seq(Call)
        /\ \A d, k, q : [do |-> d, node |-> k, with |-> q] \in Range(DoEach("invalidate", created[b]))
              <=> d = "invalidate" /\ k \in Range(created[b]) /\ q = NoNode
    <3>1. created[b] \in Seq(Node \union {NoNode}) /\ "invalidate" \in Function
      BY <1>4 DEF TypeOK, Function
    <3> QED BY <3>1, DoEachFacts
  <2> DEFINE first == DoEach("invalidate", created[b])
  <2> HIDE DEF first
  <2>2. /\ calls' \in Seq(Call)
        /\ \A d, k, q : Called(d, k, q)' <=>
             Waiting(d, k, q) \/ [do |-> d, node |-> k, with |-> q] \in Range(first)
    <3>1. first \in Seq(Call) /\ calls' = first \o Tail(calls)
      BY <1>5, <2>1 DEF first
    <3> QED BY <1>2, <3>1, Turn
  <2>3. \A d, k, q : [do |-> d, node |-> k, with |-> q] \in Range(first)
          <=> d = "invalidate" /\ InRun(k, b) /\ q = NoNode
    BY <2>1 DEF first, InRun
  <2>4. ASSUME NEW d, NEW k, NEW q
        PROVE  Called(d, k, q)' <=> Waiting(d, k, q) \/ (d = "invalidate" /\ InRun(k, b) /\ q = NoNode)
    <3>1. Called(d, k, q)' <=> Waiting(d, k, q) \/ [do |-> d, node |-> k, with |-> q] \in Range(first)
      BY <2>2
    <3>2. [do |-> d, node |-> k, with |-> q] \in Range(first) <=> d = "invalidate" /\ InRun(k, b) /\ q = NoNode
      BY <2>3
    <3> QED BY <3>1, <3>2, Zenon
  <2> QED BY <2>2, <2>4
<1>7. ~Busy'
  BY <1>3, <1>6, NotBusyAfter
<1>8. Lined(calls)' /\ Opening' /\ Turning(rank)'
  BY <1>6, <1>7, Quiet, Zenon
<1>9. \A k, a \in Node : InRun(k, a)' <=> a # b /\ InRun(k, a)
  <2>1. created' = [created EXCEPT ![b] = <<>>] /\ created \in [Node -> Seq(Node \union {NoNode})]
    BY <1>5 DEF TypeOK
  <2>2. \A x : x \notin Range(<<>>)
    BY NothingOrdered
  <2> QED BY <1>4, <2>1, <2>2 DEF InRun
<1>10. Uses'
  <2>1. Uses
    BY DEF HighInv
  <2>2. UNCHANGED <<kind, scope, children>>
    BY <1>5
  <2>3. ASSUME NEW m \in Node, IsMain(m), scope[m] # NoNode, InRun(Lhs(m), scope[m])' PROVE InRun(m, scope[m])'
    <3>1. scope[m] \in Node /\ scope'[m] = scope[m] /\ Lhs(m) \in Node /\ Lhs(m)' = Lhs(m)
      BY <1>4, <1>5, <2>3, MainLhs DEF TypeOK, Lhs
    <3>2. scope[m] # b /\ InRun(Lhs(m), scope[m])
      BY <1>9, <2>3, <3>1
    <3> QED BY <1>9, <2>1, <2>3, <3>1, <3>2 DEF Uses
  <2> QED BY <2>1, <2>2, <2>3 DEF Uses, UsedFrom, IsMain, Lhs, HasRhs, Rhs, Input
<1>11. \A k \in Node : (Necessary(k)' <=> Necessary(k)) /\ (Scoped(k)' => Scoped(k))
  BY <1>5, <1>9 DEF Necessary, Scoped
<1>12. High'
  <2>1. \A k, q \in Node : Unlink(k, q) <=> Unlink(k, q)'
    BY <1>2, <1>6 DEF Unlink
  <2> QED BY <1>3, <1>5, <1>11, <2>1, HighKept DEF HighInv, IsParent, Rising
<1>13. Ended'
  BY <1>2, <1>5, <1>6, <1>11 DEF HighInv, Ended, Marked
<1>14. Fates'
  <2>1. \A k \in Node : Dying(k)' <=> Dying(k) \/ InRun(k, b)
    BY <1>2, <1>6 DEF Dying, Marked
  <2>2. ASSUME NEW m \in Node, IsMain(m)' PROVE Fated(m)'
    <3>1. IsMain(m) /\ Lhs(m) \in Node /\ Lhs(m)' = Lhs(m) /\ Input(m)' = Input(m)
      BY <1>4, <1>5, <2>2, MainLhs DEF IsMain, Lhs, Input
    <3>2. Fated(m)
      BY <3>1 DEF HighInv, Fates
    <3>3. InRun(Lhs(m), b) => InRun(m, b)
      <4> SUFFICES ASSUME InRun(Lhs(m), b) PROVE InRun(m, b)
        OBVIOUS
      <4>1. scope[Lhs(m)] = b
        BY <1>4, <3>1 DEF Graph, Created
      <4>2. scope[m] = b /\ b # NoNode
        BY <1>4, <3>1, <4>1, NodeAssumption DEF HighInv, Uses
      <4> QED BY <3>1, <4>2 DEF HighInv, Uses
    <3> QED BY <1>3, <1>5, <1>7, <2>1, <3>1, <3>2, <3>3 DEF Fated
  <2> QED BY <2>2 DEF Fates
<1> QED BY <1>8, <1>10, <1>12, <1>13, <1>14 DEF HighInv

\* A node is marked invalid after what made it so: its input, or the main node of its bind.
LEMMA MarkInvalidHigh ==
  ASSUME NEW rank \in [Node -> Nat], TypeOK, Inv(rank), HighInv(rank), NEW n, NEW p,
         Runs("mark", n, p), MarkInvalid(n)
  PROVE  HighInv(rank)'
<1>1. Scene(rank, "mark", n, p)
  BY Context, Zenon
<1>2. /\ calls \in Seq(Call) /\ calls # <<>> /\ Stack(rank) /\ CallsTyped /\ Covered
      /\ n \in Node /\ p = NoNode
      /\ \A d, k, q : Called(d, k, q) <=> Waiting(d, k, q) \/ (d = "mark" /\ k = n /\ q = p)
      /\ ~Waiting("mark", n, NoNode)
  <2>1. /\ calls \in Seq(Call) /\ calls # <<>> /\ Stack(rank) /\ CallsTyped /\ Covered
        /\ n \in Node /\ p = NoNode
        /\ \A d, k, q : Called(d, k, q) <=> Waiting(d, k, q) \/ (d = "mark" /\ k = n /\ q = p)
    BY <1>1 DEF Scene, Paired
  <2>2. Waiting("mark", n, NoNode) => Under(rank, "mark", n, p, "mark", n, NoNode)
    BY <1>1 DEF Scene
  <2>3. Waiting("mark", n, NoNode) => rank[n] < rank[n]
    BY <2>1, <2>2, NodeAssumption DEF Under, Ending
  <2>4. rank[n] \in Nat
    BY <2>1
  <2> QED BY <2>1, <2>3, <2>4
<1>3. /\ calls' \in Seq(Call)
      /\ \A d, k, q : Called(d, k, q)' <=> Waiting(d, k, q)
  BY <1>2, Return DEF MarkInvalid, made
<1>4. /\ ~Busy
      /\ \A k, q : /\ ~Link(k, q) /\ ~Placing(k) /\ ~Adjust(k, q)
                   /\ ~Waiting("add_parent", k, q) /\ ~Waiting("place", k, q) /\ ~Waiting("adjust_heights", k, q)
  BY <1>1, NotBusy DEF Linking
<1>5. ~Busy'
  BY <1>3, <1>4, NotBusyAfter
<1>6. Lined(calls)' /\ Opening' /\ Turning(rank)'
  BY <1>3, <1>5, Quiet, Zenon
<1>7. /\ UNCHANGED <<kind, scope, children, created, height, parents, observed, forced>>
      /\ valid' = [valid EXCEPT ![n] = FALSE]
  BY DEF MarkInvalid, made, links
<1>8. \A k \in Node : (valid'[k] <=> valid[k] /\ k # n) /\ (Necessary(k)' <=> Necessary(k))
  BY <1>2, <1>7 DEF TypeOK, Necessary
<1>9. Uses'
  BY <1>7, UsesKept DEF HighInv
<1>10. High'
  <2>1. \A k \in Node : Scoped(k)' => Scoped(k)
    BY <1>7, <1>8 DEF Scoped, InRun
  <2>2. \A k, q \in Node : Unlink(k, q)' <=> Unlink(k, q)
    BY <1>2, <1>3 DEF Unlink
  <2> QED BY <1>4, <1>7, <1>8, <2>1, <2>2, HighKept DEF HighInv, IsParent, Rising
<1>11. Ended'
  BY <1>2, <1>3, <1>8 DEF HighInv, Ended, Marked
<1>12. Fates'
  <2>1. \A k \in Node : Dying(k) <=> Dying(k)' \/ k = n
    BY <1>2, <1>3 DEF Dying, Marked
  <2>2. ASSUME NEW m \in Node, IsMain(m)' PROVE Fated(m)'
    <3>1. IsMain(m) /\ Lhs(m) \in Node /\ Lhs(m)' = Lhs(m) /\ Input(m)' = Input(m)
      BY <1>7, <2>2, MainLhs DEF IsMain, Lhs, Input, Inv
    <3>2. Fated(m)
      BY <3>1 DEF HighInv, Fates
    <3>3. ~valid[Input(m)] => ~valid'[Input(m)]
      BY <1>2, <1>7 DEF TypeOK
    <3> QED BY <1>5, <1>8, <2>1, <3>1, <3>2, <3>3 DEF Fated
  <2> QED BY <2>2 DEF Fates
<1> QED BY <1>6, <1>9, <1>10, <1>11, <1>12 DEF HighInv

LEMMA InvalidateNodeHigh ==
  ASSUME NEW rank \in [Node -> Nat], TypeOK, Inv(rank), HighInv(rank), NEW n, NEW p,
         Runs("invalidate", n, p), InvalidateNode(n)
  PROVE  HighInv(rank)'
<1>1. CASE n = NoNode \/ ~valid[n]
  <2>1. /\ UNCHANGED <<kind, scope, children, created, valid, height>> /\ Returns
        /\ \A k \in Node : Necessary(k)' <=> Necessary(k)
        /\ \A k, q \in Node : IsParent(q, k)' <=> IsParent(q, k)
    BY <1>1 DEF InvalidateNode, made, links, Necessary, IsParent
  <2> QED BY <1>1, <2>1, ReturnedHigh DEF Linking
<1>2. CASE ~(n = NoNode \/ ~valid[n])
  <2>1. Scene(rank, "invalidate", n, p)
    BY Context, Zenon
  <2>2. /\ calls \in Seq(Call) /\ calls # <<>>
        /\ n \in Node /\ p = NoNode /\ valid[n]
        /\ \A d, k, q : Called(d, k, q) <=> Waiting(d, k, q) \/ (d = "invalidate" /\ k = n /\ q = p)
    BY <1>2, <2>1 DEF Scene, Paired
  <2>3. /\ ~Busy
        /\ \A k, q : /\ ~Link(k, q) /\ ~Placing(k) /\ ~Adjust(k, q)
                     /\ ~Waiting("add_parent", k, q) /\ ~Waiting("place", k, q) /\ ~Waiting("adjust_heights", k, q)
    BY <2>1, NotBusy DEF Linking
  <2>4. /\ UNCHANGED <<kind, scope, children, created, valid, height, parents, observed, forced>>
        /\ calls' = Ends(n) \o Tail(calls)
    BY <1>2 DEF InvalidateNode, made, links, Calls, Ends
  <2>5. /\ Ends(n) \in Seq(Call)
        /\ \A d, k, q : [do |-> d, node |-> k, with |-> q] \in Range(Ends(n)) <=> EndsCall(n, d, k, q)
    <3>1. Graph /\ Ranked(rank)
      BY DEF Inv
    <3> QED BY <2>2, <3>1, EndsFacts
  <2>6. /\ calls' \in Seq(Call)
        /\ \A d, k, q : Called(d, k, q)' <=> Waiting(d, k, q) \/ EndsCall(n, d, k, q)
    <3>1. /\ calls' \in Seq(Call)
          /\ \A d, k, q : Called(d, k, q)' <=>
               Waiting(d, k, q) \/ [do |-> d, node |-> k, with |-> q] \in Range(Ends(n))
      BY <2>2, <2>4, <2>5, Turn
    <3>2. \A d, k, q : Called(d, k, q)' <=> Waiting(d, k, q) \/ EndsCall(n, d, k, q)
      BY <2>5, <3>1, Zenon
    <3> QED BY <3>1, <3>2
  <2>7. ~Busy'
    BY <2>3, <2>6, NotBusyAfter DEF EndsCall
  <2>8. \A k, q \in Node : IsParent(q, k)' => IsParent(q, k) /\ (Unlink(k, q) => Unlink(k, q)')
    BY <2>2, <2>4, <2>6 DEF IsParent, Unlink
  <2>9. \A k \in Node : Necessary(k)' <=> Necessary(k)
    BY <2>4 DEF Necessary
  <2>10. \A k \in Node : (Marked(k)' => valid[k]) /\ (Called("lower", k, NoNode)' => Necessary(k)')
    BY <2>2, <2>6, <2>9 DEF HighInv, Ended, Marked, EndsCall
  <2>11. Fates'
    <3>1. \A k \in Node : Dying(k)' <=> Dying(k)
      BY <2>2, <2>6 DEF Dying, Marked, EndsCall
    <3>2. \A m \in Node : IsMain(m) => Lhs(m) \in Node
      BY MainLhs DEF Inv
    <3> QED BY <2>4, <2>7, <3>1, <3>2, FatesKept DEF HighInv
  <2> QED BY <2>3, <2>4, <2>6, <2>7, <2>8, <2>9, <2>10, <2>11, Unraised
<1> QED BY <1>1, <1>2

\* An lhs-change node is invalidated by the loop of propagate_invalidity when its input is.
LEMMA PropagateInvalidityHigh ==
  ASSUME NEW rank \in [Node -> Nat], TypeOK, Inv(rank), HighInv(rank), NEW x, NEW p,
         Runs("propagate_invalidity", x, p), PropagateInvalidity
  PROVE  HighInv(rank)'
<1>1. Scene(rank, "propagate_invalidity", x, p)
  BY Context, Zenon
<1>2. /\ calls \in Seq(Call) /\ calls # <<>> /\ x = NoNode /\ p = NoNode
      /\ \A d, k, q : Called(d, k, q) <=> Waiting(d, k, q) \/ (d = "propagate_invalidity" /\ k = x /\ q = p)
  BY <1>1 DEF Scene, Paired
<1>3. /\ ~Busy
      /\ \A k, q : /\ ~Link(k, q) /\ ~Placing(k) /\ ~Adjust(k, q)
                   /\ ~Waiting("add_parent", k, q) /\ ~Waiting("place", k, q) /\ ~Waiting("adjust_heights", k, q)
  BY <1>1, NotBusy DEF Linking
<1>4. /\ UNCHANGED <<kind, scope, children, created, valid, height, parents, observed, forced>>
  BY DEF PropagateInvalidity, made, links
<1>5. \A k \in Node : Necessary(k)' <=> Necessary(k)
  BY <1>4 DEF Necessary
<1>6. CASE invalidated = <<>>
  <2>1. Returns
    BY <1>6 DEF PropagateInvalidity
  <2> QED BY <1>4, <1>5, <2>1, ReturnedHigh DEF Linking, IsParent
<1> DEFINE n == Last(invalidated)
<1>7. CASE invalidated # <<>> /\ ~(valid[n] /\ ShouldBeInvalidated(n))
  <2>1. UNCHANGED calls
    BY <1>7 DEF PropagateInvalidity
  <2>2. \A d, k, q : Called(d, k, q)' <=> Called(d, k, q)
    BY <2>1 DEF Called
  <2>3. ~Busy' /\ \A k, q \in Node : IsParent(q, k)' => IsParent(q, k) /\ (Unlink(k, q) => Unlink(k, q)')
    BY <1>3, <1>4, <2>2 DEF Busy, Starting, Adjust, Unlink, IsParent
  <2>4. \A k \in Node : (Marked(k)' => valid[k]) /\ (Called("lower", k, NoNode)' => Necessary(k)')
    BY <1>5, <2>2 DEF HighInv, Ended, Marked
  <2>5. Fates'
    <3>1. \A k \in Node : Dying(k)' <=> Dying(k)
      BY <2>2 DEF Dying, Marked
    <3>2. \A m \in Node : IsMain(m) => Lhs(m) \in Node
      BY MainLhs DEF Inv
    <3> QED BY <1>4, <2>3, <3>1, <3>2, FatesKept DEF HighInv
  <2>6. calls' \in Seq(Call)
    BY <1>2, <2>1
  <2> QED BY <1>3, <1>4, <1>5, <2>3, <2>4, <2>5, <2>6, Unraised
<1>8. CASE invalidated # <<>> /\ valid[n] /\ ShouldBeInvalidated(n)
  <2>1. n \in Node /\ calls' = <<Do("invalidate", n)>> \o calls
    BY <1>8, LastFacts DEF PropagateInvalidity, TypeOK
  <2> HIDE DEF n
  <2>2. /\ calls' \in Seq(Call)
        /\ \A d, k, q : Called(d, k, q)' <=> Called(d, k, q) \/ (d = "invalidate" /\ k = n /\ q = NoNode)
    <3> DEFINE f == Do("invalidate", n)
    <3>1. f \in Call /\ f = [do |-> "invalidate", node |-> n, with |-> NoNode]
      BY <2>1, CallMade DEF Do, Function
    <3> HIDE DEF f
    <3>2. <<f>> \in Seq(Call) /\ \A g : g \in Range(<<f>>) <=> g = f
      BY <3>1, OneCall
    <3>3. <<f>> \o calls \in Seq(Call)
          /\ \A g : g \in Range(<<f>> \o calls) <=> g \in Range(<<f>>) \/ g \in Range(calls)
      BY <1>2, <3>2, Concatenation
    <3>4. calls' = <<f>> \o calls
      BY <2>1 DEF f
    <3>5. ASSUME NEW d, NEW k, NEW q
          PROVE  Called(d, k, q)' <=> Called(d, k, q) \/ (d = "invalidate" /\ k = n /\ q = NoNode)
      <4>1. Called(d, k, q)' <=> [do |-> d, node |-> k, with |-> q] \in Range(<<f>> \o calls)
        BY <3>4 DEF Called
      <4>2. [do |-> d, node |-> k, with |-> q] = f <=> d = "invalidate" /\ k = n /\ q = NoNode
        BY <3>1, SameCall
      <4>3. Called(d, k, q) <=> [do |-> d, node |-> k, with |-> q] \in Range(calls)
        BY DEF Called
      <4> QED BY <3>2, <3>3, <4>1, <4>2, <4>3
    <3> QED BY <3>3, <3>4, <3>5
  <2>3. ~Busy' /\ \A k, q \in Node : IsParent(q, k)' => IsParent(q, k) /\ (Unlink(k, q) => Unlink(k, q)')
    BY <1>3, <1>4, <2>2 DEF Busy, Starting, Adjust, Unlink, IsParent, Linking
  <2>4. \A k \in Node : (Marked(k)' => valid[k]) /\ (Called("lower", k, NoNode)' => Necessary(k)')
    BY <1>5, <2>2 DEF HighInv, Ended, Marked
  <2>5. Fates'
    <3>1. \A k \in Node : Dying(k)' <=> Dying(k) \/ k = n
      BY <2>2 DEF Dying, Marked
    <3>2. ASSUME NEW m \in Node, IsMain(m)' PROVE Fated(m)'
      <4>1. IsMain(m) /\ Lhs(m) \in Node /\ kind[Lhs(m)] = "Lhs" /\ Lhs(m)' = Lhs(m) /\ Input(m)' = Input(m)
        BY <1>4, <3>2, MainLhs DEF IsMain, Lhs, Input, Inv
      <4>2. Fated(m)
        BY <4>1 DEF HighInv, Fates
      <4>3. Lhs(m) = n => ~valid[Input(m)]
        <5> SUFFICES ASSUME Lhs(m) = n PROVE ~valid[Input(m)]
          OBVIOUS
        <5>1. ShouldBeInvalidated(n) /\ kind[n] = "Lhs"
          BY <1>8, <4>1
        <5>2. PICK c \in Range(children[n]) : ~valid[c]
          BY <5>1 DEF ShouldBeInvalidated
        <5>3. c = Lhs(n)
          <6>1. Child(c, n)
            BY <5>2 DEF Child
          <6>2. Graph
            BY DEF Inv
          <6> QED BY <2>1, <5>1, <6>1, <6>2, Children DEF IsMain
        <5> QED BY <5>2, <5>3 DEF Input
      <4> QED BY <1>4, <2>3, <3>1, <4>1, <4>2, <4>3 DEF Fated
    <3> QED BY <3>2 DEF Fates
  <2> QED BY <1>3, <1>4, <1>5, <2>2, <2>3, <2>4, <2>5, Unraised
<1> QED BY <1>6, <1>7, <1>8

\* A node that is no longer necessary falls below all others, and unlinks its children.
LEMMA BecameUnnecessaryHigh ==
  ASSUME NEW rank \in [Node -> Nat], TypeOK, Inv(rank), HighInv(rank),
         NEW f \in Removing, NEW c \in Node, NEW p, Runs(f, c, p), BecameUnnecessary(c),
         Necessary(c), ~Necessary(c)', \A k \in Node : k # c => (Necessary(k)' <=> Necessary(k)),
         \A q, k \in Node : IsParent(q, k)' <=> IsParent(q, k) /\ ~(f = "remove_parent" /\ k = c /\ q = p),
         f = "remove_parent" => p \in Node /\ rank[c] < rank[p],
         UNCHANGED <<kind, scope, children, created, valid>>
  PROVE  HighInv(rank)'
<1>1. Scene(rank, f, c, p)
  BY Context, Zenon
<1>2. /\ calls \in Seq(Call) /\ calls # <<>>
      /\ \A d, k, q : Called(d, k, q) <=> Waiting(d, k, q) \/ (d = f /\ k = c /\ q = p)
      /\ \A d, k, q : Waiting(d, k, q) => Under(rank, f, c, p, d, k, q)
  BY <1>1 DEF Scene
<1>3. /\ ~Busy
      /\ \A k, q : /\ ~Link(k, q) /\ ~Placing(k) /\ ~Adjust(k, q)
                   /\ ~Waiting("add_parent", k, q) /\ ~Waiting("place", k, q) /\ ~Waiting("adjust_heights", k, q)
  BY <1>1, NotBusy DEF Linking, Removing
<1>4. height' = [height EXCEPT ![c] = -1] /\ calls' = ForChildren("remove_parent", c) \o Tail(calls)
  BY DEF BecameUnnecessary, Calls
<1>5. /\ calls' \in Seq(Call)
      /\ \A d, k, q : Called(d, k, q)' <=>
           Waiting(d, k, q) \/ (d = "remove_parent" /\ valid[c] /\ Child(k, c) /\ q = c)
  <2> DEFINE first == ForChildren("remove_parent", c)
  <2>1. /\ first \in Seq(Call)
        /\ \A d, k, q : [do |-> d, node |-> k, with |-> q] \in Range(first)
              <=> d = "remove_parent" /\ valid[c] /\ Child(k, c) /\ q = c
    BY ForChildrenFacts DEF TypeOK, Function
  <2> HIDE DEF first
  <2>2. /\ calls' \in Seq(Call)
        /\ \A d, k, q : Called(d, k, q)' <=>
             Waiting(d, k, q) \/ [do |-> d, node |-> k, with |-> q] \in Range(first)
    <3>1. calls' = first \o Tail(calls)
      BY <1>4 DEF first
    <3> QED BY <1>2, <2>1, <3>1, Turn
  <2>3. ASSUME NEW d, NEW k, NEW q
        PROVE  Called(d, k, q)' <=>
                 Waiting(d, k, q) \/ (d = "remove_parent" /\ valid[c] /\ Child(k, c) /\ q = c)
    <3>1. Called(d, k, q)' <=> Waiting(d, k, q) \/ [do |-> d, node |-> k, with |-> q] \in Range(first)
      BY <2>2
    <3>2. [do |-> d, node |-> k, with |-> q] \in Range(first)
            <=> d = "remove_parent" /\ valid[c] /\ Child(k, c) /\ q = c
      BY <2>1
    <3> QED BY <3>1, <3>2, Zenon
  <2> QED BY <2>2, <2>3
<1>6. ~Busy'
  BY <1>3, <1>5, NotBusyAfter
<1>7. Lined(calls)' /\ Opening' /\ Turning(rank)'
  BY <1>5, <1>6, Quiet, Zenon
<1>8. Uses'
  BY UsesKept DEF HighInv
<1>9. \A k \in Node : height[k] \in Int /\ height[k] >= -1 /\ height'[k] = IF k = c THEN -1 ELSE height[k]
  BY <1>4 DEF TypeOK, HighInv, High
<1>10. \A q \in Node : ~IsParent(q, c)'
  <2>1. parents'[c] = <<>>
    BY DEF Necessary
  <2> QED BY <2>1, NothingOrdered DEF IsParent
<1>11. High'
  <2>1. ASSUME NEW k \in Node, NEW q \in Node, IsParent(q, k)' PROVE Rising(k, q)'
    <3>1. IsParent(q, k) /\ k # c
      BY <1>10, <2>1
    <3>2. CASE q = c
      <4>1. valid[c] /\ Child(k, c)
        BY <3>1, <3>2 DEF Inv, Links, Linked
      <4>2. Unlink(k, q)'
        BY <1>5, <3>2, <4>1 DEF Unlink
      <4> QED BY <4>2 DEF Rising
    <3>3. CASE q # c
      <4>1. height[k] < height[q] \/ Unlink(k, q)
        BY <1>3, <3>1 DEF HighInv, High, Rising
      <4>2. Unlink(k, q) => Unlink(k, q)'
        BY <1>2, <1>5, <3>1 DEF Unlink
      <4> QED BY <1>9, <3>1, <3>3, <4>1, <4>2 DEF Rising
    <3> QED BY <3>2, <3>3
  <2>2. ASSUME NEW k \in Node, Necessary(k)', Scoped(k)' PROVE ScopeHeight(k)' < height'[k]
    <3>1. k # c /\ Necessary(k) /\ Scoped(k)
      BY <2>2 DEF Scoped, InRun
    <3>2. ScopeHeight(k) < height[k] /\ scope[k] \in Node \union {NoNode}
      BY <3>1 DEF HighInv, High, TypeOK
    <3>3. CASE scope[k] = NoNode
      BY <1>9, <3>1, <3>2, <3>3 DEF ScopeHeight
    <3>4. CASE scope[k] # NoNode
      <4>1. height[scope[k]] < height[k] /\ scope[k] \in Node
        BY <3>2, <3>4 DEF ScopeHeight
      <4>2. height'[scope[k]] <= height[scope[k]] /\ height'[scope[k]] \in Int /\ height[scope[k]] \in Int
        BY <1>9, <4>1
      <4>3. ScopeHeight(k)' = height'[scope[k]]
        BY <3>4 DEF ScopeHeight
      <4> QED BY <1>9, <3>1, <4>1, <4>2, <4>3
    <3> QED BY <3>3, <3>4
  <2>3. \A k \in Node : height'[k] >= -1
    BY <1>9
  <2> QED BY <2>1, <2>2, <2>3 DEF High
<1>12. Ended'
  <2>1. ASSUME NEW k \in Node PROVE /\ Marked(k)' => valid'[k]
                                    /\ Called("lower", k, NoNode)' => Necessary(k)'
    <3>1. Marked(k)' => valid'[k]
      BY <1>2, <1>5 DEF HighInv, Ended, Marked
    <3>2. ASSUME Called("lower", k, NoNode)' PROVE Necessary(k)'
      <4>1. Waiting("lower", k, NoNode)
        BY <1>5, <3>2
      <4>2. Necessary(k)
        BY <1>2, <4>1 DEF HighInv, Ended
      <4>3. Under(rank, f, c, p, "lower", k, NoNode)
        BY <1>2, <4>1
      <4>4. f = "remove_parent" /\ rank[p] <= rank[k]
        BY <4>3, NodeAssumption DEF Under, Ending, Removing
      <4>5. k # c
        BY <4>4
      <4> QED BY <4>2, <4>5
    <3> QED BY <3>1, <3>2
  <2> QED BY <2>1 DEF Ended
<1>13. Fates'
  <2>1. \A k \in Node : Dying(k)' <=> Dying(k)
    BY <1>2, <1>5 DEF Dying, Marked, Removing
  <2>2. \A m \in Node : IsMain(m) => Lhs(m) \in Node
    BY MainLhs DEF Inv
  <2> QED BY <1>6, <2>1, <2>2, FatesKept DEF HighInv
<1> QED BY <1>7, <1>8, <1>11, <1>12, <1>13 DEF HighInv

LEMMA RemoveParentHigh ==
  ASSUME NEW rank \in [Node -> Nat], TypeOK, Inv(rank), HighInv(rank), NEW c, NEW p,
         Runs("remove_parent", c, p), RemoveParent(c, p)
  PROVE  HighInv(rank)'
<1>1. /\ c \in Node /\ p \in Node /\ rank[c] < rank[p] /\ Necessary(c)
      /\ \A q, k \in Node : IsParent(q, k)' <=> IsParent(q, k) /\ ~(k = c /\ q = p)
      /\ \A k \in Node : k # c => (Necessary(k)' <=> Necessary(k))
  BY RemoveParentFacts
<1>2. UNCHANGED <<kind, scope, children, created, valid>> /\ CheckIfUnnecessary(c)
  BY DEF RemoveParent, made
<1>3. CASE Necessary(c)'
  <2>1. Returns /\ UNCHANGED height
    BY <1>2, <1>3 DEF CheckIfUnnecessary, Necessary
  <2>2. \A k \in Node : Necessary(k)' <=> Necessary(k)
    BY <1>1, <1>3
  <2> QED BY <1>1, <1>2, <2>1, <2>2, ReturnedHigh DEF Linking
<1>4. CASE ~Necessary(c)'
  <2>1. BecameUnnecessary(c)
    BY <1>2, <1>4 DEF CheckIfUnnecessary, Necessary
  <2> QED BY <1>1, <1>2, <1>4, <2>1, BecameUnnecessaryHigh DEF Removing
<1> QED BY <1>3, <1>4

LEMMA ReleaseHigh ==
  ASSUME NEW rank \in [Node -> Nat], TypeOK, Inv(rank), HighInv(rank), NEW o, NEW p,
         Runs("release", o, p), Release(o)
  PROVE  HighInv(rank)'
<1>1. o \in Node /\ Called("release", o, NoNode)
  <2>1. Scene(rank, "release", o, p)
    BY Context, Zenon
  <2>2. o \in Node /\ p = NoNode /\ Called("release", o, p)
    BY <2>1 DEF Scene, Paired
  <2> QED BY <2>2
<1>2. forced = {o}
  BY <1>1 DEF Inv, Observers
<1>3. /\ UNCHANGED <<kind, scope, children, created, valid, parents, observed>> /\ CheckIfUnnecessary(o)
      /\ forced' = {}
  BY DEF Release, made
<1>4. /\ Necessary(o) /\ \A k \in Node : k # o => (Necessary(k)' <=> Necessary(k))
      /\ \A q, k \in Node : IsParent(q, k)' <=> IsParent(q, k)
  BY <1>2, <1>3 DEF Necessary, IsParent
<1>5. CASE Necessary(o)'
  <2>1. Returns /\ UNCHANGED height
    BY <1>3, <1>5 DEF CheckIfUnnecessary, Necessary
  <2>2. \A k \in Node : Necessary(k)' <=> Necessary(k)
    BY <1>4, <1>5
  <2> QED BY <1>3, <1>4, <2>1, <2>2, ReturnedHigh DEF Linking
<1>6. CASE ~Necessary(o)'
  <2>1. BecameUnnecessary(o)
    BY <1>3, <1>6 DEF CheckIfUnnecessary, Necessary
  <2> QED BY <1>1, <1>3, <1>4, <1>6, <2>1, BecameUnnecessaryHigh DEF Removing
<1> QED BY <1>5, <1>6

LEMMA RemoveObserverHigh ==
  ASSUME NEW rank \in [Node -> Nat], TypeOK, Inv(rank), HighInv(rank), NEW n, NEW p,
         Runs("remove_observer", n, p), RemoveObserver(n)
  PROVE  HighInv(rank)'
<1>1. n \in Node
  <2>1. Scene(rank, "remove_observer", n, p)
    BY Context, Zenon
  <2> QED BY <2>1 DEF Scene
<1>2. /\ UNCHANGED <<kind, scope, children, created, valid, parents, forced>>
      /\ \A q, k \in Node : IsParent(q, k)' <=> IsParent(q, k)
  BY DEF RemoveObserver, made, IsParent
<1>3. CASE n \notin observed \ wanted
  <2>1. /\ Returns /\ UNCHANGED height
        /\ \A k \in Node : Necessary(k)' <=> Necessary(k)
    BY <1>2, <1>3 DEF RemoveObserver, Necessary
  <2> QED BY <1>2, <2>1, ReturnedHigh DEF Linking
<1>4. CASE n \in observed \ wanted
  <2>1. observed' = observed \ {n} /\ CheckIfUnnecessary(n)
    BY <1>4 DEF RemoveObserver
  <2>2. Necessary(n) /\ \A k \in Node : k # n => (Necessary(k)' <=> Necessary(k))
    BY <1>2, <1>4, <2>1 DEF Necessary
  <2>3. CASE Necessary(n)'
    <3>1. Returns /\ UNCHANGED height
      BY <2>1, <2>3 DEF CheckIfUnnecessary, Necessary
    <3>2. \A k \in Node : Necessary(k)' <=> Necessary(k)
      BY <2>2, <2>3
    <3> QED BY <1>2, <3>1, <3>2, ReturnedHigh DEF Linking
  <2>4. CASE ~Necessary(n)'
    <3>1. BecameUnnecessary(n)
      BY <2>1, <2>4 DEF CheckIfUnnecessary, Necessary
    <3> QED BY <1>1, <1>2, <2>2, <2>4, <3>1, BecameUnnecessaryHigh DEF Removing
  <2> QED BY <2>3, <2>4
<1> QED BY <1>3, <1>4

LEMMA TopLhs ==
  ASSUME Graph, NEW p \in Top, kind[p] # "Var"
  PROVE  Lhs(p) \in Top
<1>1. kind[p] = TopKind[p] /\ (p \notin VarNode => Lhs(p) = TopChildren[p][1])
  BY DEF Graph, TopNodes
<1>2. p \notin VarNode
  BY <1>1 DEF VarNode
<1>3. TopChildren[p] \in Seq(Top) /\ Len(TopChildren[p]) = 1
  BY <1>2, TopAssumption
<1>4. TopChildren[p][1] \in Top
  BY <1>3
<1> QED BY <1>1, <1>2, <1>4

\* What a node that a closure made is necessary for.
LEMMA NecessaryBy ==
  ASSUME NEW rank, TypeOK, Inv(rank), Uses, \A c, q : ~Unlink(c, q),
         NEW k \in Node, scope[k] # NoNode, Necessary(k)
  PROVE  \/ k \in forced
         \/ \E p \in Node : /\ IsMain(p) /\ valid[p] /\ Necessary(p) /\ IsParent(p, k)
                            /\ k = Lhs(p) \/ (HasRhs(p) /\ k = Rhs(p))
<1>1. Graph
  BY DEF Inv
<1>2. k \notin Top /\ k \notin observed
  BY <1>1 DEF Graph, TopNodes, Inv, Observers
<1>3. SUFFICES ASSUME k \notin forced
               PROVE  \E p \in Node : /\ IsMain(p) /\ valid[p] /\ Necessary(p) /\ IsParent(p, k)
                                      /\ k = Lhs(p) \/ (HasRhs(p) /\ k = Rhs(p))
  OBVIOUS
<1>4. parents[k] # <<>> /\ parents[k] \in Seq(Node)
  BY <1>2, <1>3 DEF Necessary, TypeOK
<1>5. PICK p \in Node : IsParent(p, k)
  BY <1>4, EmptyRange DEF IsParent
<1>6. valid[p] /\ Child(k, p) /\ Necessary(p)
  BY <1>5 DEF Inv, Links, Linked
<1>7. /\ kind[p] \notin {"None", "Var"}
      /\ k = Lhs(p) \/ (IsMain(p) /\ HasRhs(p) /\ k = Rhs(p))
  BY <1>1, <1>6, Children DEF Exists
<1>8. IsMain(p)
  <2> SUFFICES ASSUME ~IsMain(p) PROVE FALSE
    OBVIOUS
  <2>1. k = Lhs(p) /\ kind[p] \in {"Map", "Lhs"}
    BY <1>7 DEF TypeOK, IsMain
  <2>2. Lhs(p) \in Top
    <3>1. CASE p \in Top
      BY <1>1, <1>7, <3>1, TopLhs
    <3>2. CASE p \in Fresh
      BY <2>1, <3>2 DEF Uses
    <3> QED BY <3>1, <3>2 DEF Node
  <2> QED BY <1>2, <2>1, <2>2
<1> QED BY <1>5, <1>6, <1>7, <1>8

LEMMA Lineage ==
  ASSUME NEW rank, TypeOK, Inv(rank), Uses, \A c, q : ~Unlink(c, q),
         NEW k \in Node, scope[k] # NoNode, Necessary(k)
  PROVE  \E j \in Node :
           /\ scope[j] = scope[k]
           /\ \/ j \in forced
              \/ \E q \in Node : /\ IsMain(q) /\ HasRhs(q) /\ valid[q] /\ Necessary(q) /\ IsParent(q, j)
                                 /\ j = Rhs(q) /\ UsedFrom(j, q)
<1>1. CASE k \in forced
  BY <1>1
<1>2. CASE k \notin forced
  <2>1. PICK p \in Node : /\ IsMain(p) /\ valid[p] /\ Necessary(p) /\ IsParent(p, k)
                          /\ k = Lhs(p) \/ (HasRhs(p) /\ k = Rhs(p))
    BY <1>2, NecessaryBy
  <2>2. CASE HasRhs(p) /\ k = Rhs(p)
    BY <2>1, <2>2 DEF Uses
  <2>3. CASE k = Lhs(p)
    <3>1. scope[p] = scope[k] /\ scope[p] # NoNode
      BY <2>1, <2>3 DEF Uses
    <3>2. CASE p \in forced
      BY <3>1, <3>2
    <3>3. CASE p \notin forced
      <4>1. PICK q \in Node : /\ IsMain(q) /\ valid[q] /\ Necessary(q) /\ IsParent(q, p)
                              /\ p = Lhs(q) \/ (HasRhs(q) /\ p = Rhs(q))
        BY <2>1, <3>1, <3>3, NecessaryBy
      <4>2. p # Lhs(q)
        <5>1. kind[Lhs(q)] = "Lhs"
          BY <4>1, MainLhs DEF Inv
        <5> QED BY <2>1, <5>1 DEF IsMain
      <4> QED BY <3>1, <4>1, <4>2 DEF Uses
    <3> QED BY <3>2, <3>3
  <2> QED BY <2>1, <2>2, <2>3
<1> QED BY <1>1, <1>2

(***************************************************************************)
(* When a node becomes necessary, none in its scope is: a right-hand side  *)
(* is linked after the lhs-change node, and is released before the         *)
(* lhs-change node is unlinked.                                            *)
(***************************************************************************)
LEMMA Asleep ==
  ASSUME NEW rank \in [Node -> Nat], TypeOK, Inv(rank), HighInv(rank),
         NEW f \in {"add_parent", "add_observer"}, NEW c \in Node, NEW p, Runs(f, c, p), ~Necessary(c),
         NEW k \in Node, scope[k] = c
  PROVE  ~Necessary(k)
<1> SUFFICES ASSUME Necessary(k) PROVE FALSE
  OBVIOUS
<1>1. Scene(rank, f, c, p)
  BY Context, Zenon
<1>2. /\ \A d, a, q : Called(d, a, q) <=> Waiting(d, a, q) \/ (d = f /\ a = c /\ q = p)
      /\ \A d, a, q : Waiting(d, a, q) => Under(rank, f, c, p, d, a, q)
      /\ f = "add_parent" => p \in Node
      /\ f = "add_observer" => c \in Range(Observable)
  BY <1>1 DEF Scene, Paired, Observing
<1>3. \A a, q : ~Unlink(a, q) /\ ~Marked(a)
  BY <1>2 DEF Unlink, Marked, Under, Ending
<1>4. Graph /\ Uses /\ Opening /\ Turning(rank) /\ c # NoNode
  BY NodeAssumption DEF Inv, HighInv
<1>5. PICK j \in Node :
           /\ scope[j] = c
           /\ \/ j \in forced
              \/ \E q \in Node : /\ IsMain(q) /\ HasRhs(q) /\ valid[q] /\ Necessary(q) /\ IsParent(q, j)
                                 /\ j = Rhs(q) /\ UsedFrom(j, q)
  BY <1>3, <1>4, Lineage
<1>6. j \notin Top
  BY <1>4, <1>5 DEF Graph, TopNodes
<1>7. ASSUME NEW m \in Node, IsMain(m), c = Lhs(m)
      PROVE  /\ f = "add_parent" /\ p = m /\ Link(c, m) /\ Placing(m) /\ valid[m] /\ Necessary(m)
  <2>1. kind[c] = "Lhs"
    BY <1>4, <1>7, MainLhs
  <2>2. f = "add_parent"
    <3>1. ASSUME f = "add_observer" PROVE FALSE
      <4>1. c \in Top \ LhsNode
        BY <1>2, <3>1, ObservableFacts
      <4>2. kind[c] = TopKind[c]
        BY <1>4, <4>1 DEF Graph, TopNodes
      <4> QED BY <2>1, <4>1, <4>2 DEF LhsNode
    <3> QED BY <3>1
  <2>3. Link(c, p) /\ p \in Node
    BY <1>2, <2>2 DEF Link
  <2>4. Child(c, p) /\ valid[p] /\ Necessary(p)
    BY <2>3 DEF Inv, Links, Linked
  <2>5. p = m
    BY <1>4, <1>7, <2>1, <2>3, <2>4, Children DEF Graph, OneMain
  <2>6. ~Adjust(c, m)
    <3> SUFFICES ASSUME Adjust(c, m) PROVE FALSE
      OBVIOUS
    <3>1. HasRhs(m) /\ c = Rhs(m)
      BY <1>4, <1>7 DEF Turning, Relinking
    <3> QED BY <1>4, <1>7, <2>1, <3>1, MainChildren
  <2> QED BY <1>4, <2>2, <2>3, <2>4, <2>5, <2>6 DEF Opening
<1>8. ASSUME NEW m \in Node, IsMain(m), IsMain(Input(m)), c = Lhs(Input(m))
      PROVE  /\ Lhs(m) \in Node /\ Input(m) \in Node /\ Child(Input(m), Lhs(m)) /\ valid[Input(m)]
             /\ Placing(Input(m)) /\ ~Adjust(Input(m), Lhs(m)) /\ Starting
  <2>1. Lhs(m) \in Node /\ kind[Lhs(m)] = "Lhs"
    BY <1>4, <1>8, MainLhs
  <2>2. Child(Input(m), Lhs(m)) /\ Input(m) \in Node
    <3>1. Len(children[Lhs(m)]) = 1 /\ children[Lhs(m)] \in Seq(Node)
      BY <1>4, <2>1 DEF Graph, Shapes, Shape, TypeOK
    <3>2. children[Lhs(m)][1] \in Node /\ 1 \in 1 .. Len(children[Lhs(m)])
      BY <3>1
    <3>3. children[Lhs(m)][1] \in Range(children[Lhs(m)])
      BY <3>1, <3>2, IndexInRange
    <3> QED BY <3>2, <3>3 DEF Child, Input, Lhs
  <2>3. Placing(Input(m)) /\ valid[Input(m)] /\ Link(c, Input(m))
    BY <1>7, <1>8, <2>2
  <2>4. ~Adjust(Input(m), Lhs(m))
    BY <1>4, <2>1, <2>2 DEF Turning, Relinking, IsMain
  <2>5. Starting
    BY <2>3 DEF Starting, Linking, Placing
  <2> QED BY <2>1, <2>2, <2>3, <2>4, <2>5
<1>9. CASE j \in forced
  <2>1. Called("release", j, NoNode)
    BY <1>9 DEF Inv, Observers
  <2>2. f = "add_parent"
    BY <1>2, <2>1 DEF Under, Observing
  <2>3. Starting
    BY <1>2, <2>2 DEF Starting, Linking
  <2>4. PICK a \in Node, m \in Node : Relinking(rank, a, m)
    BY <1>4, <2>1, <2>3 DEF Turning
  <2>5. IsMain(m) /\ IsParent(m, Lhs(m)) /\ IsParent(Lhs(m), Input(m)) /\ ~Placing(Lhs(m)) /\ UsedFrom(j, m)
    BY <1>9, <2>4 DEF Relinking
  <2>6. CASE c = Lhs(m)
    <3>1. parents[c] = <<>>
      BY DEF Necessary
    <3> QED BY <2>5, <2>6, <3>1, NothingOrdered DEF IsParent
  <2>7. CASE IsMain(Input(m)) /\ c = Lhs(Input(m))
    <3>1. Lhs(m) \in Node /\ Input(m) \in Node /\ Placing(Input(m)) /\ ~Adjust(Input(m), Lhs(m))
      BY <1>8, <2>5, <2>7
    <3> QED BY <1>4, <2>5, <3>1 DEF Opening
  <2> QED BY <1>5, <1>6, <2>5, <2>6, <2>7 DEF UsedFrom
<1>10. CASE j \notin forced
  <2>1. PICK q \in Node : /\ IsMain(q) /\ HasRhs(q) /\ valid[q] /\ Necessary(q) /\ IsParent(q, j)
                          /\ j = Rhs(q) /\ UsedFrom(j, q)
    BY <1>5, <1>10
  <2>2. ~Link(Rhs(q), q)
    BY <2>1 DEF Inv, Links, Linked
  <2>3. ~Link(Lhs(q), q) /\ ~Placing(Lhs(q))
    BY <1>4, <2>1, <2>2 DEF Opening
  <2>4. CASE c = Lhs(q)
    BY <1>7, <2>1, <2>3, <2>4
  <2>5. CASE IsMain(Input(q)) /\ c = Lhs(Input(q))
    <3>1. /\ Lhs(q) \in Node /\ Input(q) \in Node /\ Child(Input(q), Lhs(q)) /\ valid[Input(q)]
          /\ Placing(Input(q)) /\ ~Adjust(Input(q), Lhs(q)) /\ Starting
      BY <1>8, <2>1, <2>5
    <3>2. IsParent(q, Lhs(q))
      <4>1. Child(Lhs(q), q)
        BY <1>4, <2>1, MainChildren
      <4> QED BY <1>3, <2>1, <2>3, <3>1, <4>1 DEF Inv, Links, Linked
    <3>3. Necessary(Lhs(q))
      BY <3>2, NothingOrdered DEF Necessary, IsParent
    <3>4. valid[Lhs(q)]
      BY <2>1, <3>1 DEF HighInv, Fates, Fated, Busy
    <3>5. IsParent(Lhs(q), Input(q)) \/ Link(Input(q), Lhs(q))
      BY <1>3, <3>1, <3>3, <3>4 DEF Inv, Links, Linked
    <3> QED BY <1>4, <2>3, <3>1, <3>5 DEF Opening
  <2> QED BY <1>5, <1>6, <2>1, <2>4, <2>5 DEF UsedFrom
<1> QED BY <1>9, <1>10

\* What waits, of the order in which nodes are linked.
LEMMA LineBefore ==
  ASSUME NEW rank, NEW f, NEW n, NEW p, Scene(rank, f, n, p), Runs(f, n, p), Lined(calls)
  PROVE  \A k, q : Waiting("add_parent", k, q) => k # Lhs(q) /\ ~(f = "place" /\ n = q)
<1>1. calls \in Seq(Call) /\ calls # <<>> /\ Head(calls) = [do |-> f, node |-> n, with |-> p]
  BY DEF Scene, Runs
<1>2. \A g \in Range(Tail(calls)) : InLine(Head(calls), g)
  BY <1>1, LinedTail
<1>3. ASSUME NEW k, NEW q, Waiting("add_parent", k, q) PROVE k # Lhs(q) /\ ~(f = "place" /\ n = q)
  <2> DEFINE g == [do |-> "add_parent", node |-> k, with |-> q]
  <2>1. InLine([do |-> f, node |-> n, with |-> p], g)
    BY <1>1, <1>2, <1>3 DEF Waiting
  <2> QED BY <2>1 DEF InLine
<1> QED BY <1>3

LEMMA PlaceAbove ==
  ASSUME TypeOK, NEW n \in Node, Place(n)
  PROVE  /\ height' \in [Node -> Int] /\ height[n] <= height'[n]
         /\ \A k \in Node : k # n => height'[k] = height[k]
         /\ valid[n] => \A c \in Node : Child(c, n) => height[c] + 1 <= height'[n]
<1> DEFINE below == Range(ChildrenOf(n))
           bounds == {height[n]} \union {height[c] + 1 : c \in below}
           above == [d \in Node |-> IF d \in below THEN {n} ELSE {}]
           B == Bounds(above, height, height, n)
           h == GreatestOf(B)
<1>1. height \in [Node -> Int] /\ above \in [Node -> SUBSET Node]
  BY DEF TypeOK
<1>2. below \in SUBSET Node
  <2>1. ChildrenOf(n) \in Seq(Node)
    BY DEF ChildrenOf, TypeOK
  <2> QED BY <2>1, ElementInSet
<1>3. B = bounds
  <2>1. {d \in DOMAIN above : n \in above[d]} = below
    BY <1>2
  <2> HIDE DEF above
  <2> QED BY <2>1 DEF Bounds
<1>4. height' = [height EXCEPT ![n] = h]
  <2>1. height' = [height EXCEPT ![n] = CHOOSE x \in bounds : \A b \in bounds : b <= x]
    BY DEF Place
  <2> HIDE DEF bounds, B
  <2> QED BY <1>3, <2>1, Zenon DEF GreatestOf
<1>5. h \in Int /\ \A b \in B : b <= h
  <2> HIDE DEF above
  <2> QED BY <1>1, NodeFinite, GreatestOfBounds
<1>6. height[n] \in B /\ \A c \in below : height[c] + 1 \in B
  <2> HIDE DEF B
  <2> QED BY <1>3
<1> HIDE DEF h, B, above, bounds
<1>7. height' \in [Node -> Int] /\ height'[n] = h /\ \A k \in Node : k # n => height'[k] = height[k]
  BY <1>1, <1>4, <1>5
<1>8. valid[n] => \A c \in Node : Child(c, n) => c \in below
  BY DEF ChildrenOf, Child
<1> QED BY <1>5, <1>6, <1>7, <1>8

\* The end of became_necessary: n is above its children, and its parents have their place yet
\* to be found.
LEMMA PlaceHigh ==
  ASSUME NEW rank \in [Node -> Nat], TypeOK, Inv(rank), HighInv(rank), NEW n, NEW p,
         Runs("place", n, p), Place(n)
  PROVE  HighInv(rank)'
<1>1. Scene(rank, "place", n, p)
  BY Context, Zenon
<1>2. /\ calls \in Seq(Call) /\ calls # <<>> /\ Stack(rank) /\ CallsTyped /\ Covered
      /\ n \in Node /\ p = NoNode
      /\ \A d, k, q : Called(d, k, q) <=> Waiting(d, k, q) \/ (d = "place" /\ k = n /\ q = p)
      /\ \A d, k, q : Waiting(d, k, q) => Under(rank, "place", n, p, d, k, q)
  BY <1>1 DEF Scene, Paired
<1>3. /\ calls' \in Seq(Call) /\ calls' = Tail(calls)
      /\ \A d, k, q : Called(d, k, q)' <=> Waiting(d, k, q)
  BY <1>2, Return DEF Place, made, Returns
<1>4. /\ UNCHANGED <<kind, scope, children, created, valid, parents, observed, forced, invalidated>>
      /\ Uses /\ Opening /\ High /\ Ended /\ Fates /\ Turning(rank) /\ Graph /\ Lined(calls)
  BY DEF Place, made, links, HighInv, Inv
<1>5. /\ \A k, q : Waiting("add_parent", k, q) => k # Lhs(q) /\ n # q
      /\ \A k, q : ~Waiting("remove_parent", k, q) /\ ~Waiting("mark", k, q) /\ ~Waiting("lower", k, q)
      /\ \A k : Waiting("place", k, NoNode) => k # n /\ rank[n] <= rank[k]
  <2>1. \A k, q : Waiting("add_parent", k, q) => k # Lhs(q) /\ n # q
    BY <1>1, <1>4, LineBefore
  <2>2. ASSUME NEW k, NEW q
        PROVE  ~Waiting("remove_parent", k, q) /\ ~Waiting("mark", k, q) /\ ~Waiting("lower", k, q)
    BY <1>2 DEF Under, Ending
  <2>3. ASSUME NEW k, Waiting("place", k, NoNode) PROVE k # n /\ rank[n] <= rank[k]
    <3>1. Under(rank, "place", n, p, "place", k, NoNode)
      BY <1>2, <2>3
    <3> QED BY <1>2, <3>1 DEF Under, Linking
  <2> QED BY <2>1, <2>2, <2>3
<1>6. /\ \A k, q : Link(k, q)' <=> Link(k, q)
      /\ \A k, q : Adjust(k, q)' <=> Adjust(k, q)
      /\ \A k : Placing(k)' <=> Placing(k) /\ k # n
      /\ \A k, q : ~Unlink(k, q) /\ ~Unlink(k, q)'
      /\ \A k : ~Marked(k)' /\ ~Called("lower", k, NoNode)'
      /\ \A k, q : Link(k, q) => q # n
      /\ Placing(n)
  BY <1>2, <1>3, <1>5 DEF Link, Adjust, Placing, Unlink, Marked
<1>7. \A k \in Node : Necessary(k)' <=> Necessary(k)
  BY <1>4 DEF Necessary
<1>8. \A k, q \in Node : IsParent(q, k) => valid[q] /\ Child(k, q) /\ rank[k] < rank[q] /\ Exists(q)
  <2> SUFFICES ASSUME NEW k \in Node, NEW q \in Node, IsParent(q, k)
               PROVE  valid[q] /\ Child(k, q) /\ rank[k] < rank[q] /\ Exists(q)
    OBVIOUS
  <2>1. valid[q] /\ Child(k, q)
    BY DEF Inv, Links, Linked
  <2>2. Exists(q)
    BY <1>4, <2>1, Children
  <2> QED BY <2>1, <2>2 DEF Inv, Ranked, RankedAt, Child
<1>9. Uses'
  BY <1>4, UsesKept
<1>10. Lined(calls)'
  BY <1>2, <1>3, <1>4, LinedPop
<1>11. Opening'
  <2>1. ASSUME NEW c \in Node, NEW q \in Node, Link(c, q)' PROVE Placing(q)' \/ Adjust(c, q)'
    BY <1>4, <1>6, <2>1 DEF Opening
  <2>2. ASSUME NEW m \in Node, IsMain(m)', HasRhs(m)', Link(Lhs(m), m)' \/ Placing(Lhs(m))'
        PROVE  Link(Rhs(m), m)'
    <3>1. IsMain(m) /\ HasRhs(m) /\ Lhs(m)' = Lhs(m) /\ Rhs(m)' = Rhs(m)
      BY <1>4, <2>2 DEF IsMain, HasRhs, Lhs, Rhs
    <3>2. Link(Lhs(m), m) \/ Placing(Lhs(m))
      <4>1. CASE Link(Lhs(m), m)'
        BY <1>3, <3>1, <4>1, <1>2 DEF Link
      <4>2. CASE Placing(Lhs(m))'
        BY <1>3, <3>1, <4>2, <1>2 DEF Placing
      <4> QED BY <2>2, <4>1, <4>2
    <3>3. Link(Rhs(m), m)
      BY <1>4, <3>1, <3>2 DEF Opening
    <3>4. Waiting("add_parent", Rhs(m), m)
      BY <1>2, <3>3 DEF Link
    <3> QED BY <1>3, <3>1, <3>4 DEF Link
  <2>3. ASSUME NEW k \in Node, NEW q \in Node, Placing(k)', IsParent(q, k)'
        PROVE  Placing(q)' \/ Adjust(k, q)'
    <3>1. Placing(k) /\ IsParent(q, k) /\ Waiting("place", k, NoNode)
      BY <1>3, <1>4, <1>6, <2>3 DEF IsParent, Placing
    <3>2. Placing(q) \/ Adjust(k, q)
      BY <1>4, <3>1 DEF Opening
    <3>3. q # n
      <4> SUFFICES ASSUME q = n PROVE FALSE
        OBVIOUS
      <4>1. rank[k] < rank[n] /\ rank[n] <= rank[k]
        BY <1>5, <1>8, <3>1
      <4> QED BY <1>2, <4>1
    <3> QED BY <1>6, <3>2, <3>3
  <2>4. ASSUME NEW k \in Node, scope'[k] # NoNode, Placing(scope[k])' PROVE ~Necessary(k)'
    BY <1>3, <1>2, <1>4, <1>7, <2>4 DEF Opening, Placing
  <2> QED BY <2>1, <2>2, <2>3, <2>4 DEF Opening
<1>12. /\ height' \in [Node -> Int] /\ height[n] <= height'[n]
       /\ \A k \in Node : k # n => height'[k] = height[k]
       /\ valid[n] => \A c \in Node : Child(c, n) => height[c] + 1 <= height'[n]
  BY <1>2, PlaceAbove
<1>13. \A k \in Node : height[k] \in Int /\ height'[k] \in Int /\ height[k] >= -1 /\ scope[k] \in Node \union {NoNode}
  BY <1>4, <1>12 DEF TypeOK, High
<1>14. High'
  <2>1. ASSUME NEW k \in Node PROVE height'[k] >= -1
    <3>1. height[k] <= height'[k]
      <4>1. CASE k = n
        BY <1>12, <4>1
      <4>2. CASE k # n
        <5>1. height'[k] = height[k] /\ height[k] \in Int
          BY <1>12, <1>13, <4>2
        <5> QED BY <5>1
      <4> QED BY <4>1, <4>2
    <3>2. height[k] \in Int /\ height'[k] \in Int /\ height[k] >= -1
      BY <1>13
    <3> QED BY <3>1, <3>2
  <2>2. ASSUME NEW k \in Node, NEW q \in Node, IsParent(q, k)' PROVE Rising(k, q)'
    <3>1. IsParent(q, k)
      BY <1>4, <2>2 DEF IsParent
    <3>2. height[k] < height[q] \/ Placing(q) \/ Adjust(k, q)
      BY <1>4, <1>6, <3>1 DEF High, Rising
    <3>3. CASE q = n
      <4>1. k # n /\ height[k] + 1 <= height'[n]
        BY <1>2, <1>8, <1>12, <3>1, <3>3
      <4> QED BY <1>2, <1>12, <1>13, <3>3, <4>1 DEF Rising
    <3>4. CASE q # n /\ k = n
      <4>1. Placing(q) \/ Adjust(n, q)
        BY <1>4, <1>6, <3>1, <3>4 DEF Opening
      <4> QED BY <1>6, <3>4, <4>1 DEF Rising
    <3>5. CASE q # n /\ k # n
      BY <1>6, <1>12, <3>2, <3>5 DEF Rising
    <3> QED BY <3>3, <3>4, <3>5
  <2>3. ASSUME NEW k \in Node, Necessary(k)', Scoped(k)' PROVE ScopeHeight(k)' < height'[k]
    <3>1. Necessary(k) /\ Scoped(k)
      BY <1>4, <1>7, <2>3 DEF Scoped, InRun
    <3>2. ScopeHeight(k) < height[k] /\ scope[k] # k
      BY <1>4, <3>1 DEF High, Uses
    <3>3. scope[k] # n
      <4> SUFFICES ASSUME scope[k] = n PROVE FALSE
        OBVIOUS
      <4>1. scope[k] # NoNode
        BY <1>2, NodeAssumption
      <4> QED BY <1>4, <1>6, <3>1, <4>1 DEF Opening
    <3>4. ScopeHeight(k)' = ScopeHeight(k) /\ ScopeHeight(k) \in Int
      BY <1>4, <1>12, <1>13, <3>3 DEF ScopeHeight
    <3>5. height[k] <= height'[k]
      BY <1>12, <1>13
    <3> QED BY <1>13, <3>2, <3>4, <3>5
  <2> QED BY <2>1, <2>2, <2>3 DEF High
<1>15. Ended'
  BY <1>6 DEF Ended
<1>16. Fates'
  <2>1. \A k \in Node : Dying(k)' <=> Dying(k)
    BY <1>2, <1>3 DEF Dying, Marked
  <2>2. Busy
    BY <1>2 DEF Busy, Starting, Linking
  <2>3. \A m \in Node : IsMain(m) => Lhs(m) \in Node
    BY <1>4, MainLhs
  <2> QED BY <1>4, <2>1, <2>2, <2>3, FatesKept
<1>17. Turning(rank)'
  <2>1. ASSUME NEW c \in Node, NEW m \in Node, Adjust(c, m)' PROVE Relinking(rank, c, m)'
    <3>1. Relinking(rank, c, m) /\ Lhs(m) \in Node
      BY <1>4, <1>6, <2>1, MainLhs DEF Turning, Relinking
    <3>2. /\ IsMain(m)' /\ HasRhs(m)' /\ c = Rhs(m)' /\ Lhs(m)' = Lhs(m) /\ Input(m)' = Input(m)
          /\ IsParent(m, Lhs(m))' /\ IsParent(Lhs(m), Input(m))'
      BY <1>4, <3>1 DEF Relinking, IsMain, HasRhs, Rhs, Lhs, Input, IsParent
    <3>3. ~Placing(Lhs(m))'
      BY <1>2, <1>3, <3>1, <3>2 DEF Relinking, Placing
    <3>4. /\ \A k \in Range(invalidated') : rank[k] <= rank[m]
          /\ \A k, q \in Node : Link(k, q)' => rank[q] <= rank[m]
      BY <1>4, <1>6, <3>1 DEF Relinking
    <3>5. \A k \in Node : Called("invalidate", k, NoNode)' => scope'[k] = Lhs(m)' /\ rank[k] < rank[m]
      BY <1>2, <1>3, <1>4, <3>1, <3>2 DEF Relinking
    <3>6. \A o \in forced' : UsedFrom(o, m)'
      BY <1>4, <3>1, <3>2 DEF Relinking, UsedFrom, IsMain, Lhs, Input
    <3> QED BY <3>2, <3>3, <3>4, <3>5, <3>6 DEF Relinking
  <2>2. Starting
    BY <1>2 DEF Starting, Linking
  <2>3. (\E c, m \in Node : Adjust(c, m)')
        \/ \A k \in Node : ~Called("invalidate", k, NoNode)' /\ ~Called("release", k, NoNode)'
    BY <1>2, <1>3, <1>4, <1>6, <2>2 DEF Turning
  <2> QED BY <2>1, <2>3 DEF Turning
<1> QED BY <1>9, <1>10, <1>11, <1>14, <1>15, <1>16, <1>17 DEF HighInv

\* A node is linked to its first child first.
LEMMA StartsLined ==
  ASSUME TypeOK, Graph, NEW n \in Node
  PROVE  Lined(Starts(n))
<1> DEFINE s == ForChildren("add_parent", n)
           t == <<Do("place", n)>>
<1>1. s \in Seq(Call) /\ t \in Seq(Call)
  <2>1. s \in Seq(Call)
    BY ForChildrenFacts DEF TypeOK, Function
  <2>2. Do("place", n) \in Call
    BY CallMade DEF Do, Function
  <2> QED BY <2>1, <2>2
<1>2. Lined(s)
  <2>1. SUFFICES ASSUME NEW i \in DOMAIN s, NEW j \in DOMAIN s, i < j PROVE InLine(s[i], s[j])
    BY DEF Lined
  <2>2. children[n] \in Seq(Node) /\ ChildrenOf(n) = children[n] /\ DOMAIN s = 1 .. Len(children[n])
    <3>1. children[n] \in Seq(Node)
      BY DEF TypeOK
    <3>2. DOMAIN s = DOMAIN ChildrenOf(n)
      BY DEF ForChildren
    <3>3. valid[n]
      BY <2>1, <3>2 DEF ChildrenOf
    <3> QED BY <3>1, <3>2, <3>3 DEF ChildrenOf
  <2>3. s[j] = DoWith("add_parent", children[n][j], n) /\ s[i] = DoWith("add_parent", children[n][i], n)
    BY <2>1, <2>2 DEF ForChildren
  <2>4. children[n][j] # children[n][1]
    <3>1. i \in Nat /\ j \in Nat /\ 1 <= i /\ j # 1 /\ 1 \in DOMAIN children[n] /\ j \in DOMAIN children[n]
      BY <2>1, <2>2
    <3>2. Single(children[n])
      BY DistinctChildren
    <3> QED BY <3>1, <3>2 DEF Single
  <2> HIDE DEF s
  <2> QED BY <2>3, <2>4 DEF InLine, DoWith, Lhs
<1>3. Lined(t) /\ \A g \in Range(t) : g.do = "place"
  <2>1. Do("place", n).do = "place" /\ DOMAIN t = 1 .. 1
    BY DEF Do
  <2> QED BY <2>1 DEF Lined, InLine, Range
<1>4. Starts(n) = s \o t
  BY DEF Starts
<1> HIDE DEF s, t
<1>5. \A f \in Range(s), g \in Range(t) : InLine(f, g)
  BY <1>3 DEF InLine
<1> QED BY <1>1, <1>2, <1>3, <1>4, <1>5, LinedConcatenation

\* A node that becomes necessary has no height that another relies on.
LEMMA StartedHigh ==
  ASSUME NEW rank \in [Node -> Nat], TypeOK, Inv(rank), HighInv(rank),
         NEW f \in {"add_parent", "add_observer"}, NEW c \in Node, NEW p, Runs(f, c, p), ~Necessary(c),
         UNCHANGED <<kind, scope, created, valid>>,
         height' = [height EXCEPT ![c] = StartHeight(c)],
         \A k \in Node : k # c => (Necessary(k)' <=> Necessary(k)),
         \A k, q \in Node : IsParent(q, k)' =>
           \/ /\ IsParent(q, k) /\ k # c /\ q # c /\ ~Unlink(k, q)
              /\ Placing(q) => Placing(q)'
              /\ Adjust(k, q) => Adjust(k, q)'
           \/ Placing(q)' \/ Adjust(k, q)'
  PROVE  High'
<1>1. High /\ Uses
  BY DEF HighInv
<1>2. \A k \in Node : height[k] \in Int /\ height[k] >= -1 /\ scope[k] \in Node \union {NoNode} /\ scope[k] # k
  BY <1>1 DEF TypeOK, High, Uses
<1>3. ScopeHeight(c) \in Int /\ ScopeHeight(c) >= -1
  BY <1>2 DEF ScopeHeight
<1>4. /\ height'[c] = ScopeHeight(c) + 1 /\ \A k \in Node : k # c => height'[k] = height[k]
  <2>1. height \in [Node -> Int]
    BY DEF TypeOK
  <2> QED BY <2>1 DEF StartHeight
<1>5. \A k \in Node : height'[k] >= -1
  BY <1>2, <1>3, <1>4
<1>6. ASSUME NEW k \in Node, NEW q \in Node, IsParent(q, k)' PROVE Rising(k, q)'
  <2>1. CASE /\ IsParent(q, k) /\ k # c /\ q # c /\ ~Unlink(k, q)
             /\ Placing(q) => Placing(q)'
             /\ Adjust(k, q) => Adjust(k, q)'
    <3>1. height[k] < height[q] \/ Placing(q) \/ Adjust(k, q)
      BY <1>1, <2>1 DEF High, Rising
    <3> QED BY <1>4, <2>1, <3>1 DEF Rising
  <2>2. CASE Placing(q)' \/ Adjust(k, q)'
    BY <2>2 DEF Rising
  <2> QED BY <1>6, <2>1, <2>2
<1>7. ASSUME NEW k \in Node, Necessary(k)', Scoped(k)' PROVE ScopeHeight(k)' < height'[k]
  <2>1. CASE k = c
    <3>1. ScopeHeight(c)' = ScopeHeight(c)
      BY <1>2, <1>4 DEF ScopeHeight
    <3> QED BY <1>3, <1>4, <2>1, <3>1
  <2>2. CASE k # c
    <3>1. Necessary(k) /\ Scoped(k)
      BY <1>7, <2>2 DEF Scoped, InRun
    <3>2. ScopeHeight(k) < height[k]
      BY <1>1, <3>1 DEF High
    <3>3. scope[k] # c
      BY <3>1, Asleep
    <3>4. ScopeHeight(k)' = ScopeHeight(k)
      BY <1>2, <1>4, <3>3 DEF ScopeHeight
    <3> QED BY <1>4, <2>2, <3>2, <3>4
  <2> QED BY <2>1, <2>2
<1> QED BY <1>5, <1>6, <1>7 DEF High

\* A link to a node that is necessary already: the parent has its place yet to be found, or its
\* heights are yet to be adjusted.
LEMMA AddParentToNecessaryHigh ==
  ASSUME NEW rank \in [Node -> Nat], TypeOK, Inv(rank), HighInv(rank), NEW c, NEW p,
         Runs("add_parent", c, p), AddParentWithoutAdjustingHeights(c, p), Necessary(c)
  PROVE  HighInv(rank)'
<1>1. Scene(rank, "add_parent", c, p)
  BY Context, Zenon
<1>2. /\ calls \in Seq(Call) /\ calls # <<>> /\ Stack(rank) /\ CallsTyped /\ Covered
      /\ c \in Node /\ p \in Node
      /\ \A d, k, q : Called(d, k, q) <=> Waiting(d, k, q) \/ (d = "add_parent" /\ k = c /\ q = p)
      /\ \A d, k, q : Waiting(d, k, q) => Under(rank, "add_parent", c, p, d, k, q)
  BY <1>1 DEF Scene, Paired
<1>3. /\ valid[p] /\ Necessary(p) /\ Child(c, p) /\ rank[c] < rank[p] /\ c # p
      /\ \A q, k \in Node : IsParent(q, k)' <=> IsParent(q, k) \/ (k = c /\ q = p)
      /\ \A k \in Node : Necessary(k)' <=> Necessary(k)
      /\ \A k, q : ~Unlink(k, q) /\ ~Waiting("add_parent", c, p)
  BY AddParentFacts
<1>4. /\ UNCHANGED <<kind, scope, children, created, valid, observed, forced, height>> /\ Returns
      /\ invalidated' = IF valid[c] THEN invalidated ELSE Append(invalidated, p)
      /\ Uses /\ Opening /\ High /\ Ended /\ Fates /\ Turning(rank) /\ Graph /\ Lined(calls)
  BY DEF AddParentWithoutAdjustingHeights, made, HighInv, Inv
<1>5. /\ calls' \in Seq(Call) /\ calls' = Tail(calls)
      /\ \A d, k, q : Called(d, k, q)' <=> Waiting(d, k, q)
  BY <1>2, <1>4, Return DEF Returns
<1>6. /\ \A k, q : Waiting("add_parent", k, q) => k # Lhs(q)
      /\ \A k : Waiting("place", k, NoNode) => rank[p] <= rank[k]
      /\ \A k, q : ~Waiting("mark", k, q) /\ ~Waiting("lower", k, q)
  <2>1. \A k, q : Waiting("add_parent", k, q) => k # Lhs(q)
    BY <1>1, <1>4, LineBefore
  <2>2. ASSUME NEW k, Waiting("place", k, NoNode) PROVE rank[p] <= rank[k]
    <3>1. Under(rank, "add_parent", c, p, "place", k, NoNode)
      BY <1>2, <2>2
    <3> QED BY <3>1 DEF Under, Linking
  <2>3. ASSUME NEW k, NEW q PROVE ~Waiting("mark", k, q) /\ ~Waiting("lower", k, q)
    BY <1>2 DEF Under, Ending
  <2> QED BY <2>1, <2>2, <2>3
<1>7. /\ Link(c, p)
      /\ \A k, q : Link(k, q)' <=> Waiting("add_parent", k, q)
      /\ \A k, q : Link(k, q) <=> Waiting("add_parent", k, q) \/ (k = c /\ q = p)
      /\ \A k, q : Adjust(k, q)' <=> Adjust(k, q)
      /\ \A k : Placing(k)' <=> Placing(k)
      /\ \A k : Placing(k) => Waiting("place", k, NoNode)
      /\ \A k : ~Marked(k)' /\ ~Called("lower", k, NoNode)'
      /\ \A k : Called("invalidate", k, NoNode)' <=> Called("invalidate", k, NoNode)
      /\ \A k : Called("release", k, NoNode)' <=> Called("release", k, NoNode)
      /\ \A k : Dying(k)' <=> Dying(k)
  BY <1>2, <1>5, <1>6 DEF Link, Adjust, Placing, Marked, Dying
<1>8. Placing(p) \/ Adjust(c, p)
  BY <1>2, <1>4, <1>7 DEF Opening
<1>9. rank[c] \in Nat /\ rank[p] \in Nat
  BY <1>2
<1>10. Uses' /\ Lined(calls)'
  BY <1>2, <1>4, <1>5, UsesKept, LinedPop
<1>11. Opening'
  <2>1. ASSUME NEW k \in Node, NEW q \in Node, Link(k, q)' PROVE Placing(q)' \/ Adjust(k, q)'
    BY <1>4, <1>7, <2>1 DEF Opening
  <2>2. ASSUME NEW m \in Node, IsMain(m)', HasRhs(m)', Link(Lhs(m), m)' \/ Placing(Lhs(m))'
        PROVE  Link(Rhs(m), m)'
    <3>1. IsMain(m) /\ HasRhs(m) /\ Lhs(m)' = Lhs(m) /\ Rhs(m)' = Rhs(m)
      BY <1>4, <2>2 DEF IsMain, HasRhs, Lhs, Rhs
    <3>2. ~Link(Lhs(m), m)'
      BY <1>5, <1>6, <3>1 DEF Link
    <3>3. Placing(Lhs(m))
      BY <2>2, <3>1, <3>2, <1>5, <1>2 DEF Placing
    <3>4. Link(Rhs(m), m)
      BY <1>4, <3>1, <3>3 DEF Opening
    <3>5. m # p
      <4> SUFFICES ASSUME m = p PROVE FALSE
        OBVIOUS
      <4>1. rank[p] <= rank[Lhs(p)]
        BY <1>6, <1>7, <3>3
      <4>2. Lhs(p) \in Node /\ rank[Lhs(p)] < rank[p]
        <5>1. Lhs(p) \in Node /\ Child(Lhs(p), p) /\ Exists(p)
          BY <1>4, <3>1, MainChildren DEF IsMain, Exists
        <5> QED BY <1>2, <5>1 DEF Inv, Ranked, RankedAt, Child
      <4> QED BY <1>9, <4>1, <4>2
    <3>6. Waiting("add_parent", Rhs(m), m)
      BY <1>7, <3>4, <3>5
    <3> QED BY <1>5, <3>1, <3>6 DEF Link
  <2>3. ASSUME NEW k \in Node, NEW q \in Node, Placing(k)', IsParent(q, k)'
        PROVE  Placing(q)' \/ Adjust(k, q)'
    <3>1. Placing(k) /\ rank[p] <= rank[k]
      BY <1>6, <1>7, <2>3
    <3>2. k # c
      BY <1>3, <1>9, <3>1
    <3> QED BY <1>3, <1>4, <1>7, <2>3, <3>1, <3>2 DEF Opening
  <2>4. ASSUME NEW k \in Node, scope'[k] # NoNode, Placing(scope[k])' PROVE ~Necessary(k)'
    BY <1>2, <1>5, <1>3, <1>4, <2>4 DEF Opening, Placing
  <2> QED BY <2>1, <2>2, <2>3, <2>4 DEF Opening
<1>12. High'
  <2>1. ASSUME NEW k \in Node, NEW q \in Node, IsParent(q, k)' PROVE Rising(k, q)'
    <3>1. CASE IsParent(q, k)
      BY <1>3, <1>4, <1>7, <3>1 DEF High, Rising
    <3>2. CASE k = c /\ q = p
      BY <1>7, <1>8, <3>2 DEF Rising
    <3> QED BY <1>3, <2>1, <3>1, <3>2
  <2>2. ASSUME NEW k \in Node, Necessary(k)', Scoped(k)' PROVE ScopeHeight(k)' < height'[k]
    <3>1. Necessary(k) /\ Scoped(k)
      BY <1>3, <1>4, <2>2 DEF Scoped, InRun
    <3> QED BY <1>4, <3>1 DEF High, ScopeHeight
  <2> QED BY <1>4, <2>1, <2>2 DEF High
<1>13. Ended'
  BY <1>7 DEF Ended
<1>14. Fates'
  <2>1. Busy
    BY <1>2 DEF Busy, Starting, Linking
  <2>2. \A m \in Node : IsMain(m) => Lhs(m) \in Node
    BY <1>4, MainLhs
  <2> QED BY <1>4, <1>7, <2>1, <2>2, FatesKept
<1>15. Turning(rank)'
  <2>1. ASSUME NEW a \in Node, NEW m \in Node, Adjust(a, m)' PROVE Relinking(rank, a, m)'
    <3>1. Relinking(rank, a, m) /\ Lhs(m) \in Node /\ Input(m) \in Node
      <4>1. Relinking(rank, a, m)
        BY <1>4, <1>7, <2>1 DEF Turning
      <4>2. Lhs(m) \in Node /\ kind[Lhs(m)] = "Lhs"
        BY <1>4, <4>1, MainLhs DEF Relinking
      <4>3. Len(children[Lhs(m)]) = 1 /\ children[Lhs(m)] \in Seq(Node)
        BY <1>4, <4>2 DEF Graph, Shapes, Shape, TypeOK
      <4> QED BY <4>1, <4>2, <4>3 DEF Input, Lhs
    <3>2. /\ IsMain(m)' /\ HasRhs(m)' /\ a = Rhs(m)' /\ Lhs(m)' = Lhs(m) /\ Input(m)' = Input(m)
          /\ IsParent(m, Lhs(m))' /\ IsParent(Lhs(m), Input(m))'
      <4>1. IsMain(m)' /\ HasRhs(m)' /\ a = Rhs(m)' /\ Lhs(m)' = Lhs(m) /\ Input(m)' = Input(m)
        BY <1>4, <3>1 DEF Relinking, IsMain, HasRhs, Rhs, Lhs, Input
      <4>2. PICK b \in Node, i \in Node : b = Lhs(m) /\ i = Input(m)
        BY <3>1
      <4>3. IsParent(m, b) /\ IsParent(b, i)
        BY <3>1, <4>2 DEF Relinking
      <4>4. IsParent(m, b)' /\ IsParent(b, i)'
        BY <1>3, <4>3
      <4> QED BY <4>1, <4>2, <4>4 DEF IsParent
    <3>3. ~Placing(Lhs(m))'
      BY <1>2, <1>5, <3>1, <3>2 DEF Relinking, Placing
    <3>4. /\ \A k \in Range(invalidated') : rank[k] <= rank[m]
          /\ \A k, q \in Node : Link(k, q)' => rank[q] <= rank[m]
      <4>1. rank[p] <= rank[m]
        BY <1>2, <1>7, <3>1 DEF Relinking
      <4>2. \A k \in Range(invalidated') : k \in Range(invalidated) \/ k = p
        <5>1. invalidated \in Seq(Node)
          BY DEF TypeOK
        <5> QED BY <1>2, <1>4, <5>1, AppendFacts
      <4> QED BY <1>7, <3>1, <4>1, <4>2 DEF Relinking
    <3>5. \A k \in Node : Called("invalidate", k, NoNode)' => scope'[k] = Lhs(m)' /\ rank[k] < rank[m]
      BY <1>7, <1>4, <3>1, <3>2 DEF Relinking
    <3>6. \A o \in forced' : UsedFrom(o, m)'
      BY <1>4, <3>1, <3>2 DEF Relinking, UsedFrom, IsMain, Lhs, Input
    <3> QED BY <3>2, <3>3, <3>4, <3>5, <3>6 DEF Relinking
  <2>2. Starting
    BY <1>2 DEF Starting, Linking
  <2>3. (\E a, m \in Node : Adjust(a, m)')
        \/ \A k \in Node : ~Called("invalidate", k, NoNode)' /\ ~Called("release", k, NoNode)'
    BY <1>4, <1>7, <2>2 DEF Turning
  <2> QED BY <2>1, <2>3 DEF Turning
<1> QED BY <1>10, <1>11, <1>12, <1>13, <1>14, <1>15 DEF HighInv

\* A link that makes the child necessary, before anything in the child's scope is.
LEMMA AddParentToUnnecessaryHigh ==
  ASSUME NEW rank \in [Node -> Nat], TypeOK, Inv(rank), HighInv(rank), NEW c, NEW p,
         Runs("add_parent", c, p), AddParentWithoutAdjustingHeights(c, p), ~Necessary(c)
  PROVE  HighInv(rank)'
<1>1. Scene(rank, "add_parent", c, p)
  BY Context, Zenon
<1>2. /\ calls \in Seq(Call) /\ calls # <<>> /\ Stack(rank) /\ CallsTyped /\ Covered
      /\ c \in Node /\ p \in Node
      /\ \A d, k, q : Called(d, k, q) <=> Waiting(d, k, q) \/ (d = "add_parent" /\ k = c /\ q = p)
      /\ \A d, k, q : Waiting(d, k, q) => Under(rank, "add_parent", c, p, d, k, q)
  BY <1>1 DEF Scene, Paired
<1>3. /\ valid[p] /\ Necessary(p) /\ Child(c, p) /\ rank[c] < rank[p] /\ c # p
      /\ \A q, k \in Node : IsParent(q, k)' <=> IsParent(q, k) \/ (k = c /\ q = p)
      /\ Necessary(c)' /\ \A k \in Node : k # c => (Necessary(k)' <=> Necessary(k))
      /\ \A k, q : ~Unlink(k, q) /\ ~Waiting("add_parent", c, p)
  BY AddParentFacts
<1>4. /\ UNCHANGED <<kind, scope, children, created, valid, observed, forced>>
      /\ height' = [height EXCEPT ![c] = StartHeight(c)]
      /\ invalidated' = IF valid[c] THEN invalidated ELSE Append(invalidated, p)
      /\ Uses /\ Opening /\ High /\ Ended /\ Fates /\ Turning(rank) /\ Graph /\ Lined(calls) /\ Links
  BY DEF AddParentWithoutAdjustingHeights, BecameNecessary, made, HighInv, Inv
<1> DEFINE first == Starts(c)
<1>5. /\ first \in Seq(Call) /\ Lined(first)
      /\ \A d, k, q : [do |-> d, node |-> k, with |-> q] \in Range(first) => StartsCall(c, d, k, q)
      /\ \A d, k, q : StartsCall(c, d, k, q) => [do |-> d, node |-> k, with |-> q] \in Range(first)
  BY <1>2, <1>4, StartsFacts, StartsLined
<1>6. calls' = first \o Tail(calls)
  <2>1. calls' = (first \o <<>>) \o Tail(calls)
    BY DEF AddParentWithoutAdjustingHeights, BecameNecessary, Starts, Calls
  <2>2. first \o <<>> = first
    BY <1>5, NothingAfter
  <2> HIDE DEF first
  <2> QED BY <2>1, <2>2
<1> HIDE DEF first
<1>7. calls' \in Seq(Call)
  BY <1>2, <1>5, <1>6, Turn
<1>8. ASSUME NEW d, NEW k, NEW q PROVE Called(d, k, q)' <=> Waiting(d, k, q) \/ StartsCall(c, d, k, q)
  <2>1. Called(d, k, q)' <=> Waiting(d, k, q) \/ [do |-> d, node |-> k, with |-> q] \in Range(first)
    BY <1>2, <1>5, <1>6, Turn, Zenon
  <2>2. [do |-> d, node |-> k, with |-> q] \in Range(first) <=> StartsCall(c, d, k, q)
    BY <1>5, Zenon
  <2> QED BY <2>1, <2>2, Zenon
<1>9. /\ \A k, q : Waiting("add_parent", k, q) => k # Lhs(q)
      /\ \A k : Waiting("place", k, NoNode) => rank[p] <= rank[k]
      /\ \A k, q : ~Waiting("mark", k, q) /\ ~Waiting("lower", k, q)
  <2>1. \A k, q : Waiting("add_parent", k, q) => k # Lhs(q)
    BY <1>1, <1>4, LineBefore
  <2>2. ASSUME NEW k, Waiting("place", k, NoNode) PROVE rank[p] <= rank[k]
    <3>1. Under(rank, "add_parent", c, p, "place", k, NoNode)
      BY <1>2, <2>2
    <3> QED BY <3>1 DEF Under, Linking
  <2>3. ASSUME NEW k, NEW q PROVE ~Waiting("mark", k, q) /\ ~Waiting("lower", k, q)
    BY <1>2 DEF Under, Ending
  <2> QED BY <2>1, <2>2, <2>3
<1>10. /\ Link(c, p)
       /\ \A k, q : Link(k, q)' <=> Waiting("add_parent", k, q) \/ (valid[c] /\ Child(k, c) /\ q = c)
       /\ \A k, q : Link(k, q) <=> Waiting("add_parent", k, q) \/ (k = c /\ q = p)
       /\ \A k, q : Adjust(k, q)' <=> Adjust(k, q)
       /\ \A k : Placing(k)' <=> Placing(k) \/ k = c
       /\ \A k : Placing(k) <=> Waiting("place", k, NoNode)
       /\ \A k : ~Marked(k)' /\ ~Called("lower", k, NoNode)'
       /\ \A k : Called("invalidate", k, NoNode)' <=> Called("invalidate", k, NoNode)
       /\ \A k : Called("release", k, NoNode)' <=> Called("release", k, NoNode)
       /\ \A k : Dying(k)' <=> Dying(k)
  BY <1>2, <1>8, <1>9 DEF Link, Adjust, Placing, Marked, Dying, StartsCall
<1>11. Placing(p) \/ Adjust(c, p)
  BY <1>2, <1>4, <1>10 DEF Opening
<1>12. rank[c] \in Nat /\ rank[p] \in Nat /\ ~(rank[p] <= rank[c])
  <2>1. rank[c] \in Nat /\ rank[p] \in Nat
    BY <1>2
  <2> QED BY <1>3, <2>1
<1>13. \A k \in Node : ~IsParent(c, k) /\ ~Link(k, c)
  BY <1>2, <1>3, <1>4, NotLinked
<1>14. \A k \in Node : ~IsParent(k, c)
  <2>1. parents[c] = <<>>
    BY DEF Necessary
  <2> QED BY <2>1, NothingOrdered DEF IsParent
<1>15. ~Placing(c)
  BY <1>9, <1>10, <1>12
<1>16. Uses'
  BY <1>4, UsesKept
<1>17. Lined(calls)'
  <2>1. \A f \in Range(first), g \in Range(Tail(calls)) : InLine(Head(calls), g) => InLine(f, g)
    <3>1. SUFFICES ASSUME NEW f \in Range(first), NEW g \in Range(Tail(calls)), InLine(Head(calls), g),
                          g.do = "add_parent"
                   PROVE  g.node # Lhs(g.with) /\ ~(f.do = "place" /\ f.node = g.with)
      BY DEF InLine
    <3>2. f \in Call /\ g \in Call
      BY <1>2, <1>5, <3>1, ElementInSet, HeadAndTail
    <3>3. f = [do |-> f.do, node |-> f.node, with |-> f.with]
          /\ g = [do |-> g.do, node |-> g.node, with |-> g.with]
      BY <3>2, CallFields
    <3>4. g.node # Lhs(g.with)
      BY <3>1 DEF InLine
    <3>5. f.do = "place" => f.node = c
      <4>1. StartsCall(c, f.do, f.node, f.with)
        BY <1>5, <3>1, <3>3, Zenon
      <4> QED BY <4>1 DEF StartsCall
    <3>6. g.with # c
      <4>1. Waiting(g.do, g.node, g.with)
        BY <3>1, <3>3, Zenon DEF Waiting
      <4>2. Waiting("add_parent", g.node, g.with) /\ Link(g.node, g.with)
        BY <1>10, <3>1, <4>1
      <4>3. g.node \in Node
        BY <1>1, <4>2, <3>2, CallFields DEF Scene
      <4> QED BY <1>13, <4>2, <4>3
    <3> QED BY <3>4, <3>5, <3>6
  <2> QED BY <1>2, <1>4, <1>5, <1>6, <2>1, LinedPush
<1>18. \A m \in Node : IsMain(m) => /\ Lhs(m) \in Node /\ Child(Lhs(m), m) /\ rank[Lhs(m)] < rank[m]
                                    /\ kind[Lhs(m)] = "Lhs"
                                    /\ HasRhs(m) => Child(Rhs(m), m) /\ Rhs(m) \in Node
  <2> SUFFICES ASSUME NEW m \in Node, IsMain(m)
               PROVE  /\ Lhs(m) \in Node /\ Child(Lhs(m), m) /\ rank[Lhs(m)] < rank[m]
                      /\ kind[Lhs(m)] = "Lhs"
                      /\ HasRhs(m) => Child(Rhs(m), m) /\ Rhs(m) \in Node
    OBVIOUS
  <2>1. Lhs(m) \in Node /\ Child(Lhs(m), m) /\ kind[Lhs(m)] = "Lhs" /\ Exists(m)
        /\ (HasRhs(m) => Child(Rhs(m), m) /\ Rhs(m) \in Node)
    BY <1>4, MainChildren DEF IsMain, Exists
  <2> QED BY <2>1 DEF Inv, Ranked, RankedAt, Child
<1>19. Opening'
  <2>1. ASSUME NEW k \in Node, NEW q \in Node, Link(k, q)' PROVE Placing(q)' \/ Adjust(k, q)'
    BY <1>4, <1>10, <2>1 DEF Opening
  <2>2. ASSUME NEW m \in Node, IsMain(m)', HasRhs(m)', Link(Lhs(m), m)' \/ Placing(Lhs(m))'
        PROVE  Link(Rhs(m), m)'
    <3>1. IsMain(m) /\ HasRhs(m) /\ Lhs(m)' = Lhs(m) /\ Rhs(m)' = Rhs(m)
      BY <1>4, <2>2 DEF IsMain, HasRhs, Lhs, Rhs
    <3>2. PICK b \in Node, r \in Node : b = Lhs(m) /\ r = Rhs(m)
      BY <1>18, <3>1
    <3>3. SUFFICES Link(r, m)'
      BY <3>1, <3>2 DEF Link
    <3>4. Link(b, m)' \/ Placing(b)'
      BY <2>2, <3>1, <3>2 DEF Link, Placing
    <3>5. CASE Link(b, m)'
      <4>1. ~Waiting("add_parent", b, m)
        BY <1>9, <3>2
      <4>2. valid[c] /\ m = c
        BY <1>10, <3>5, <4>1
      <4> QED BY <1>10, <1>18, <3>1, <3>2, <4>2
    <3>6. CASE Placing(b) /\ ~Link(b, m)'
      <4>1. Link(r, m)
        BY <1>4, <3>1, <3>2, <3>6 DEF Opening
      <4>2. m # p
        <5>1. rank[p] <= rank[b] /\ rank[b] < rank[m]
          BY <1>9, <1>10, <1>18, <3>1, <3>2, <3>6
        <5>2. rank[b] \in Nat /\ rank[m] \in Nat
          BY <3>2
        <5> QED BY <1>12, <5>1, <5>2
      <4> QED BY <1>10, <4>1, <4>2
    <3>7. CASE b = c
      <4>1. kind[c] = "Lhs"
        BY <1>18, <3>1, <3>2, <3>7
      <4>2. m = p
        BY <1>2, <1>3, <1>4, <3>1, <3>2, <3>7, <4>1, Children DEF Graph, OneMain
      <4>3. Link(r, m)
        BY <1>4, <1>10, <3>1, <3>2, <3>7, <4>2 DEF Opening
      <4>4. r # c
        <5>1. kind[r] # "Lhs"
          BY <1>4, <3>1, <3>2, MainChildren
        <5> QED BY <4>1, <5>1
      <4> QED BY <1>10, <4>3, <4>4
    <3> QED BY <1>10, <3>4, <3>5, <3>6, <3>7
  <2>3. ASSUME NEW k \in Node, NEW q \in Node, Placing(k)', IsParent(q, k)'
        PROVE  Placing(q)' \/ Adjust(k, q)'
    <3>1. CASE k = c
      BY <1>3, <1>10, <1>11, <1>14, <2>3, <3>1
    <3>2. CASE k # c
      BY <1>3, <1>4, <1>10, <2>3, <3>2 DEF Opening
    <3> QED BY <3>1, <3>2
  <2>4. ASSUME NEW k \in Node, scope'[k] # NoNode, Placing(scope[k])' PROVE ~Necessary(k)'
    <3>1. PICK s : s = scope[k] /\ s = scope'[k]
      BY <1>4
    <3>2. Placing(s)'
      BY <2>4, <3>1 DEF Placing
    <3>3. s \in Node /\ s # k
      BY <1>4, <2>4, <3>1 DEF TypeOK, Uses
    <3>4. CASE s = c
      BY <1>2, <1>3, <3>1, <3>3, <3>4, Asleep
    <3>5. CASE s # c
      <4>1. Placing(s) /\ ~Necessary(k)
        BY <1>4, <1>10, <2>4, <3>1, <3>2, <3>5 DEF Opening
      <4>2. k # c
        <5> SUFFICES ASSUME k = c PROVE FALSE
          OBVIOUS
        <5>1. rank[p] <= rank[s] /\ rank[s] \in Nat
          BY <1>9, <1>10, <3>3, <4>1
        <5>2. c \notin Top
          BY <1>4, <2>4, <3>1 DEF Graph, TopNodes
        <5>3. /\ kind[p] \notin {"None", "Var"}
              /\ c = Lhs(p) \/ (IsMain(p) /\ HasRhs(p) /\ c = Rhs(p))
          BY <1>2, <1>3, <1>4, Children DEF Exists
        <5>4. IsMain(p)
          <6> SUFFICES ASSUME ~IsMain(p) PROVE FALSE
            OBVIOUS
          <6>1. c = Lhs(p) /\ kind[p] \in {"Map", "Lhs"}
            BY <1>2, <5>3 DEF TypeOK, IsMain
          <6>2. CASE p \in Top
            BY <1>4, <5>2, <5>3, <6>1, <6>2, TopLhs
          <6>3. CASE p \in Fresh
            BY <1>4, <5>2, <6>1, <6>3 DEF Uses
          <6> QED BY <1>2, <6>2, <6>3 DEF Node
        <5>5. CASE c = Lhs(p)
          <6>1. scope[p] = s /\ s # NoNode
            BY <1>2, <1>4, <2>4, <3>1, <5>4, <5>5 DEF Uses
          <6> QED BY <1>2, <1>3, <1>4, <4>1, <6>1 DEF Opening
        <5>6. CASE HasRhs(p) /\ c = Rhs(p)
          <6>1. UsedFrom(c, p)
            BY <1>2, <1>4, <5>4, <5>6 DEF Uses
          <6>2. Lhs(p) \in Node /\ rank[Lhs(p)] < rank[p] /\ kind[Lhs(p)] = "Lhs"
            BY <1>2, <1>18, <5>4
          <6>3. s # Lhs(p)
            BY <1>12, <5>1, <6>2
          <6>4. IsMain(Input(p)) /\ s = Lhs(Input(p))
            BY <3>1, <5>2, <6>1, <6>3 DEF UsedFrom
          <6>5. Input(p) \in Node /\ rank[Input(p)] < rank[Lhs(p)]
            <7>1. Len(children[Lhs(p)]) = 1 /\ children[Lhs(p)] \in Seq(Node)
              BY <1>4, <6>2 DEF Graph, Shapes, Shape, TypeOK
            <7>2. Input(p) \in Node /\ Child(Input(p), Lhs(p))
              <8>1. children[Lhs(p)][1] \in Node /\ 1 \in 1 .. Len(children[Lhs(p)])
                BY <7>1
              <8>2. children[Lhs(p)][1] \in Range(children[Lhs(p)])
                BY <7>1, <8>1, IndexInRange
              <8> QED BY <8>1, <8>2 DEF Child, Input, Lhs
            <7> QED BY <6>2, <7>2 DEF Inv, Ranked, RankedAt, Child, Exists
          <6>6. rank[s] < rank[Input(p)] /\ rank[Input(p)] \in Nat /\ rank[Lhs(p)] \in Nat
            BY <1>18, <6>2, <6>4, <6>5
          <6> QED BY <1>12, <5>1, <6>2, <6>5, <6>6
        <5> QED BY <5>3, <5>4, <5>5, <5>6
      <4> QED BY <1>3, <4>1, <4>2
    <3> QED BY <3>4, <3>5
  <2> QED BY <2>1, <2>2, <2>3, <2>4 DEF Opening
<1>20. High'
  <2>1. \A k, q \in Node : IsParent(q, k)' =>
           \/ /\ IsParent(q, k) /\ k # c /\ q # c /\ ~Unlink(k, q)
              /\ Placing(q) => Placing(q)'
              /\ Adjust(k, q) => Adjust(k, q)'
           \/ Placing(q)' \/ Adjust(k, q)'
    BY <1>3, <1>10, <1>11, <1>13, <1>14
  <2> QED BY <1>2, <1>3, <1>4, <2>1, StartedHigh
<1>21. Ended'
  BY <1>10 DEF Ended
<1>22. Fates'
  <2>1. Busy
    BY <1>2 DEF Busy, Starting, Linking
  <2>2. \A m \in Node : IsMain(m) => Lhs(m) \in Node
    BY <1>18
  <2> QED BY <1>4, <1>10, <2>1, <2>2, FatesKept
<1>23. Turning(rank)'
  <2>1. ASSUME NEW a \in Node, NEW m \in Node, Adjust(a, m)' PROVE Relinking(rank, a, m)'
    <3>1. Relinking(rank, a, m) /\ Lhs(m) \in Node /\ Input(m) \in Node
      <4>1. Relinking(rank, a, m)
        BY <1>4, <1>10, <2>1 DEF Turning
      <4>2. Lhs(m) \in Node /\ kind[Lhs(m)] = "Lhs"
        BY <1>18, <4>1 DEF Relinking
      <4>3. Len(children[Lhs(m)]) = 1 /\ children[Lhs(m)] \in Seq(Node)
        BY <1>4, <4>2 DEF Graph, Shapes, Shape, TypeOK
      <4> QED BY <4>1, <4>2, <4>3 DEF Input, Lhs
    <3>2. /\ IsMain(m)' /\ HasRhs(m)' /\ a = Rhs(m)' /\ Lhs(m)' = Lhs(m) /\ Input(m)' = Input(m)
      BY <1>4, <3>1 DEF Relinking, IsMain, HasRhs, Rhs, Lhs, Input
    <3>3. PICK b \in Node, i \in Node : b = Lhs(m) /\ i = Input(m)
      BY <3>1
    <3>4. IsParent(m, b) /\ IsParent(b, i)
      BY <3>1, <3>3 DEF Relinking
    <3>5. IsParent(m, b)' /\ IsParent(b, i)'
      BY <1>3, <3>4
    <3>6. ~Placing(b)'
      BY <1>10, <1>14, <3>1, <3>3, <3>4 DEF Relinking
    <3>7. IsParent(m, Lhs(m))' /\ IsParent(Lhs(m), Input(m))' /\ ~Placing(Lhs(m))'
      BY <3>2, <3>3, <3>5, <3>6 DEF IsParent, Placing
    <3>8. rank[p] <= rank[m]
      BY <1>2, <1>10, <3>1 DEF Relinking
    <3>9. \A k \in Range(invalidated') : rank[k] <= rank[m]
      <4>1. \A k \in Range(invalidated') : k \in Range(invalidated) \/ k = p
        <5>1. invalidated \in Seq(Node)
          BY DEF TypeOK
        <5> QED BY <1>2, <1>4, <5>1, AppendFacts
      <4> QED BY <3>1, <3>8, <4>1 DEF Relinking
    <3>10. ASSUME NEW k \in Node, NEW q \in Node, Link(k, q)' PROVE rank[q] <= rank[m]
      <4>1. CASE q = c
        <5>1. rank[m] \in Nat
          OBVIOUS
        <5> QED BY <1>3, <1>12, <3>8, <4>1, <5>1
      <4>2. CASE q # c
        <5>1. Link(k, q)
          BY <1>10, <3>10, <4>2
        <5> QED BY <3>1, <5>1 DEF Relinking
      <4> QED BY <4>1, <4>2
    <3>11. \A k \in Node : Called("invalidate", k, NoNode)' => scope'[k] = Lhs(m)' /\ rank[k] < rank[m]
      BY <1>10, <1>4, <3>1, <3>2 DEF Relinking
    <3>12. \A o \in forced' : UsedFrom(o, m)'
      BY <1>4, <3>1, <3>2 DEF Relinking, UsedFrom, IsMain, Lhs, Input
    <3> QED BY <3>2, <3>7, <3>9, <3>10, <3>11, <3>12 DEF Relinking
  <2>2. Starting
    BY <1>2 DEF Starting, Linking
  <2>3. (\E a, m \in Node : Adjust(a, m)')
        \/ \A k \in Node : ~Called("invalidate", k, NoNode)' /\ ~Called("release", k, NoNode)'
    BY <1>4, <1>10, <2>2 DEF Turning
  <2> QED BY <2>1, <2>3 DEF Turning
<1> QED BY <1>16, <1>17, <1>19, <1>20, <1>21, <1>22, <1>23 DEF HighInv

LEMMA AddParentHigh ==
  ASSUME NEW rank \in [Node -> Nat], TypeOK, Inv(rank), HighInv(rank), NEW c, NEW p,
         Runs("add_parent", c, p), AddParentWithoutAdjustingHeights(c, p)
  PROVE  HighInv(rank)'
BY AddParentToNecessaryHigh, AddParentToUnnecessaryHigh, Zenon

LEMMA AddObserverToUnnecessaryHigh ==
  ASSUME NEW rank \in [Node -> Nat], TypeOK, Inv(rank), HighInv(rank), NEW c, NEW p,
         Runs("add_observer", c, p), AddObserver(c), c \in wanted, ~Necessary(c)
  PROVE  HighInv(rank)'
<1>1. Scene(rank, "add_observer", c, p)
  BY Context, Zenon
<1>2. /\ calls \in Seq(Call) /\ calls # <<>> /\ c \in Range(Observable)
      /\ \A d, k, q : Called(d, k, q) <=> Waiting(d, k, q) \/ (d = "add_observer" /\ k = c /\ q = p)
      /\ \A d, k, q : Waiting(d, k, q) => Under(rank, "add_observer", c, p, d, k, q)
  BY <1>1 DEF Scene, Paired, Observing
<1>3. /\ c \in Node /\ c \in Top \ LhsNode
      /\ \A d, k, q : Waiting(d, k, q) => d \in Observing
  BY <1>2, ObservableFacts DEF Under, Observing
<1>4. /\ UNCHANGED <<kind, scope, children, created, valid, parents, forced>>
      /\ observed' = observed \union {c}
      /\ height' = [height EXCEPT ![c] = StartHeight(c)]
      /\ Uses /\ Opening /\ High /\ Ended /\ Fates /\ Turning(rank) /\ Graph /\ Lined(calls) /\ Links
  BY DEF AddObserver, BecameNecessary, made, HighInv, Inv
<1>5. PICK first : first = Starts(c) \o <<Do("propagate_invalidity", NoNode)>>
  OBVIOUS
<1>6. /\ first \in Seq(Call)
      /\ \A d, k, q : [do |-> d, node |-> k, with |-> q] \in Range(first) <=>
           StartsCall(c, d, k, q) \/ (d = "propagate_invalidity" /\ k = NoNode /\ q = NoNode)
  BY <1>3, <1>4, <1>5, ObserverStarts
<1>7. calls' = first \o Tail(calls)
  BY <1>5 DEF AddObserver, BecameNecessary, Starts, Calls
<1>8. calls' \in Seq(Call)
  BY <1>2, <1>6, <1>7, Turn
<1>9. ASSUME NEW d, NEW k, NEW q
      PROVE  Called(d, k, q)' <=> Waiting(d, k, q) \/ StartsCall(c, d, k, q)
               \/ (d = "propagate_invalidity" /\ k = NoNode /\ q = NoNode)
  <2>1. Called(d, k, q)' <=> Waiting(d, k, q) \/ [do |-> d, node |-> k, with |-> q] \in Range(first)
    BY <1>2, <1>6, <1>7, Turn, Zenon
  <2>2. [do |-> d, node |-> k, with |-> q] \in Range(first) <=>
           StartsCall(c, d, k, q) \/ (d = "propagate_invalidity" /\ k = NoNode /\ q = NoNode)
    BY <1>6, Zenon
  <2> QED BY <2>1, <2>2, Zenon
<1>10. /\ \A k, q : ~Link(k, q) /\ ~Unlink(k, q) /\ ~Adjust(k, q) /\ ~Adjust(k, q)'
       /\ \A k, q : Link(k, q)' <=> valid[c] /\ Child(k, c) /\ q = c
       /\ \A k : ~Placing(k) /\ (Placing(k)' <=> k = c)
       /\ \A k : ~Dying(k) /\ ~Dying(k)' /\ ~Marked(k)' /\ ~Called("lower", k, NoNode)'
       /\ \A k : ~Called("invalidate", k, NoNode)' /\ ~Called("release", k, NoNode)'
  BY <1>2, <1>3, <1>9 DEF Link, Unlink, Placing, Marked, Dying, Adjust, StartsCall, Observing
<1>11. Necessary(c)' /\ \A k \in Node : k # c => (Necessary(k)' <=> Necessary(k))
  BY <1>4 DEF Necessary
<1>12. \A k \in Node : ~IsParent(c, k)
  BY <1>3, <1>4, <1>10, NotLinked
<1>13. \A k \in Node : ~IsParent(k, c)
  <2>1. parents[c] = <<>>
    BY DEF Necessary
  <2> QED BY <2>1, NothingOrdered DEF IsParent
<1>14. \A k, q \in Node : IsParent(q, k)' <=> IsParent(q, k)
  BY <1>4 DEF IsParent
<1>15. Uses'
  BY <1>4, UsesKept
<1>16. Lined(calls)'
  <2>1. Lined(first)
    <3> DEFINE s == Starts(c)
               t == <<Do("propagate_invalidity", NoNode)>>
    <3>1. s \in Seq(Call) /\ Lined(s)
      BY <1>3, <1>4, StartsFacts, StartsLined
    <3>2. t \in Seq(Call) /\ Lined(t) /\ \A g \in Range(t) : g.do = "propagate_invalidity"
      <4>1. Do("propagate_invalidity", NoNode).do = "propagate_invalidity" /\ DOMAIN t = 1 .. 1
        BY DEF Do
      <4>2. Do("propagate_invalidity", NoNode) \in Call
        BY CallMade DEF Do, Function
      <4> QED BY <4>1, <4>2 DEF Lined, InLine, Range
    <3>3. first = s \o t
      BY <1>5
    <3> HIDE DEF s, t
    <3>4. \A f \in Range(s), g \in Range(t) : InLine(f, g)
      BY <3>2 DEF InLine
    <3> QED BY <3>1, <3>2, <3>3, <3>4, LinedConcatenation
  <2>2. \A f \in Range(first), g \in Range(Tail(calls)) : InLine(Head(calls), g) => InLine(f, g)
    <3>1. SUFFICES ASSUME NEW g \in Range(Tail(calls)) PROVE g.do # "add_parent"
      BY DEF InLine
    <3>2. g \in Call
      BY <1>2, <3>1, ElementInSet, HeadAndTail
    <3>3. g = [do |-> g.do, node |-> g.node, with |-> g.with]
      BY <3>2, CallFields
    <3>4. Waiting(g.do, g.node, g.with)
      BY <3>1, <3>3, Zenon DEF Waiting
    <3> QED BY <1>3, <3>4 DEF Observing
  <2> QED BY <1>2, <1>4, <1>6, <1>7, <2>1, <2>2, LinedPush
<1>17. Opening'
  <2>1. ASSUME NEW k \in Node, NEW q \in Node, Link(k, q)' PROVE Placing(q)' \/ Adjust(k, q)'
    BY <1>10, <2>1
  <2>2. ASSUME NEW m \in Node, IsMain(m)', HasRhs(m)', Link(Lhs(m), m)' \/ Placing(Lhs(m))'
        PROVE  Link(Rhs(m), m)'
    <3>1. IsMain(m) /\ HasRhs(m) /\ Lhs(m)' = Lhs(m) /\ Rhs(m)' = Rhs(m)
      BY <1>4, <2>2 DEF IsMain, HasRhs, Lhs, Rhs
    <3>2. /\ Lhs(m) \in Node /\ kind[Lhs(m)] = "Lhs" /\ Child(Rhs(m), m) /\ Rhs(m) \in Node
      BY <1>4, <3>1, MainChildren
    <3>3. PICK b \in Node, r \in Node : b = Lhs(m) /\ r = Rhs(m)
      BY <3>2
    <3>4. Link(b, m)' \/ Placing(b)'
      BY <2>2, <3>1, <3>3 DEF Link, Placing
    <3>5. b # c
      <4>1. kind[c] = TopKind[c] /\ TopKind[c] # "Lhs"
        BY <1>3, <1>4 DEF Graph, TopNodes, LhsNode
      <4> QED BY <3>2, <3>3, <4>1
    <3>6. valid[c] /\ m = c
      BY <1>10, <3>4, <3>5
    <3>7. Link(r, m)'
      BY <1>10, <3>2, <3>3, <3>6
    <3> QED BY <3>1, <3>3, <3>7 DEF Link
  <2>3. ASSUME NEW k \in Node, NEW q \in Node, Placing(k)', IsParent(q, k)'
        PROVE  Placing(q)' \/ Adjust(k, q)'
    BY <1>10, <1>13, <1>14, <2>3
  <2>4. ASSUME NEW k \in Node, scope'[k] # NoNode, Placing(scope[k])' PROVE ~Necessary(k)'
    <3>1. PICK s : s = scope[k] /\ s = scope'[k]
      BY <1>4
    <3>2. Placing(s)'
      BY <2>4, <3>1 DEF Placing
    <3>3. s = c
      BY <1>10, <3>2
    <3>4. s # k /\ ~Necessary(k)
      BY <1>3, <1>4, <3>1, <3>3, Asleep DEF Uses
    <3> QED BY <1>11, <3>3, <3>4
  <2> QED BY <2>1, <2>2, <2>3, <2>4 DEF Opening
<1>18. High'
  <2>1. \A k, q \in Node : IsParent(q, k)' =>
           \/ /\ IsParent(q, k) /\ k # c /\ q # c /\ ~Unlink(k, q)
              /\ Placing(q) => Placing(q)'
              /\ Adjust(k, q) => Adjust(k, q)'
           \/ Placing(q)' \/ Adjust(k, q)'
    BY <1>10, <1>12, <1>13, <1>14
  <2> QED BY <1>3, <1>4, <1>11, <2>1, StartedHigh
<1>19. Ended'
  BY <1>10 DEF Ended
<1>20. Fates'
  <2>1. \A m \in Node : IsMain(m) => Lhs(m) \in Node
    BY <1>4, MainLhs
  <2> QED BY <1>4, <1>10, <2>1, FatesKept
<1>21. Turning(rank)'
  BY <1>10 DEF Turning
<1> QED BY <1>15, <1>16, <1>17, <1>18, <1>19, <1>20, <1>21 DEF HighInv

LEMMA AddObserverHigh ==
  ASSUME NEW rank \in [Node -> Nat], TypeOK, Inv(rank), HighInv(rank), NEW n, NEW p,
         Runs("add_observer", n, p), AddObserver(n)
  PROVE  HighInv(rank)'
<1>1. CASE n \in wanted /\ ~Necessary(n)
  BY <1>1, AddObserverToUnnecessaryHigh
<1>2. CASE n \notin wanted \/ Necessary(n)
  <2>1. /\ UNCHANGED <<kind, scope, children, created, valid, height, parents, forced>> /\ Returns
        /\ observed' = IF n \in wanted THEN observed \union {n} ELSE observed
    BY <1>2 DEF AddObserver, made
  <2>2. \A k \in Node : Necessary(k)' <=> Necessary(k)
    BY <1>2, <2>1 DEF Necessary
  <2>3. \A k, q \in Node : IsParent(q, k)' <=> IsParent(q, k)
    BY <2>1 DEF IsParent
  <2> QED BY <2>1, <2>2, <2>3, ReturnedHigh DEF Linking
<1> QED BY <1>1, <1>2

\* adjust_heights raises the main node m that was linked and what is above it, nothing else.
LEMMA RaisedAbove ==
  ASSUME NEW rank \in [Node -> Nat], TypeOK, Inv(rank), HighInv(rank), NEW m \in Node,
         NEW raised, raised = LeastHeights(Above, height),
         \A k, q \in Node : IsParent(q, k) => height[k] < height[q] \/ q = m
  PROVE  /\ raised \in [Node -> Int]
         /\ \A n \in Node : height[n] <= raised[n]
         /\ \A c \in Node : \A n \in Above[c] : raised[c] < raised[n]
         /\ \A n \in Node : rank[n] < rank[m] => raised[n] = height[n]
<1>1. Graph /\ Ranked(rank) /\ Links /\ High
  BY DEF Inv, HighInv
<1>2. Above \in [Node -> SUBSET Node] /\ \A c \in Node : \A n \in Above[c] : rank[c] < rank[n]
  BY <1>1, AboveRanked
<1>3. height \in [Node -> Int]
  BY DEF TypeOK
<1>4. /\ raised \in [Node -> Int]
      /\ \A n \in Node : height[n] <= raised[n]
      /\ \A c \in Node : \A n \in Above[c] : raised[c] < raised[n]
      /\ \A n \in Node : raised[n] = height[n] \/ \E c \in Node : n \in Above[c] /\ raised[n] = raised[c] + 1
  <2> DEFINE above == Above
  <2>1. above \in [Node -> SUBSET Node] /\ (\A c \in Node : \A n \in above[c] : rank[c] < rank[n])
        /\ raised = LeastHeights(above, height)
    BY <1>2
  <2> HIDE DEF above
  <2>2. /\ raised \in [Node -> Int]
        /\ \A n \in Node : height[n] <= raised[n]
        /\ \A c \in Node : \A n \in above[c] : raised[c] < raised[n]
        /\ \A n \in Node : raised[n] = height[n] \/ \E c \in Node : n \in above[c] /\ raised[n] = raised[c] + 1
    BY <1>3, <2>1, NodeFinite, LeastHeightsFacts
  <2> QED BY <2>2 DEF above
<1>5. ASSUME NEW c \in Node, NEW n \in Above[c] PROVE n \in Node /\ (height[c] < height[n] \/ n = m)
  <2>1. n \in Node
    BY <1>2, <1>5
  <2>2. Above[c] = Range(parents[c]) \union
                     IF valid[c] THEN {k \in Range(created[c]) \ {NoNode} : Necessary(k)} ELSE {}
    BY DEF Above
  <2>3. CASE n \in Range(parents[c])
    BY <2>1, <2>3 DEF IsParent
  <2>4. CASE valid[c] /\ n \in Range(created[c]) /\ Necessary(n)
    <3>1. InRun(n, c) /\ scope[n] = c /\ c # NoNode
      BY <1>1, <2>1, <2>4, NodeAssumption DEF InRun, Graph, Created
    <3>2. ScopeHeight(n) < height[n]
      BY <1>1, <2>1, <2>4, <3>1 DEF High, Scoped
    <3> QED BY <2>1, <3>1, <3>2 DEF ScopeHeight
  <2> QED BY <1>5, <2>2, <2>3, <2>4
<1>6. \A n \in Node : rank[n] < rank[m] => raised[n] = height[n]
  <2> DEFINE Wrong == {n \in Node : rank[n] < rank[m] /\ raised[n] # height[n]}
             Ranks == {rank[n] : n \in Wrong}
  <2> SUFFICES ASSUME Wrong # {} PROVE FALSE
    OBVIOUS
  <2>1. Ranks \in SUBSET Nat /\ Ranks # {}
    OBVIOUS
  <2>2. PICK x \in Ranks : \A y \in Ranks : x <= y
    <3> HIDE DEF Ranks
    <3> QED BY <2>1, LeastElement
  <2>3. PICK n \in Wrong : x = rank[n]
    OBVIOUS
  <2>4. n \in Node /\ rank[n] < rank[m] /\ raised[n] # height[n] /\ n # m
    OBVIOUS
  <2>5. PICK c \in Node : n \in Above[c] /\ raised[n] = raised[c] + 1
    BY <1>4, <2>4
  <2>6. rank[c] < rank[n] /\ rank[c] \in Nat /\ rank[n] \in Nat /\ rank[m] \in Nat
    BY <1>2, <2>4, <2>5
  <2>7. c \notin Wrong
    <3> SUFFICES ASSUME c \in Wrong PROVE FALSE
      OBVIOUS
    <3>1. rank[n] <= rank[c]
      BY <2>2, <2>3
    <3> QED BY <2>6, <3>1
  <2>8. raised[c] = height[c]
    BY <2>4, <2>6, <2>7
  <2>9. height[c] < height[n]
    BY <1>5, <2>4, <2>5
  <2>10. height[c] \in Int /\ height[n] \in Int /\ height[n] <= raised[n]
    BY <1>3, <1>4, <2>4
  <2> QED BY <2>4, <2>5, <2>8, <2>9, <2>10
<1> QED BY <1>4, <1>6

\* The scope of a node that is valid, but not of the last run of a valid bind, is below m.
LEMMA ScopeBelow ==
  ASSUME NEW rank \in [Node -> Nat], TypeOK, Inv(rank), HighInv(rank), NEW c \in Node, NEW m \in Node,
         Relinking(rank, c, m),
         \A k, q : ~Link(k, q) /\ ~Unlink(k, q) /\ ~Marked(k),
         NEW k \in Node, Scoped(k), scope[k] # NoNode, Necessary(scope[k]),
         ~(valid[scope[k]] /\ InRun(k, scope[k]))
  PROVE  rank[scope[k]] < rank[m]
<1> DEFINE s == scope[k]
<1>1. s \in Node /\ Graph /\ Ranked(rank) /\ Validity /\ Links /\ Told /\ Observers
  BY DEF TypeOK, Inv
<1>2. \A q \in Node : IsMain(q) => /\ Lhs(q) \in Node /\ Child(Lhs(q), q) /\ rank[Lhs(q)] < rank[q]
                                   /\ kind[Lhs(q)] = "Lhs"
  <2> SUFFICES ASSUME NEW q \in Node, IsMain(q)
               PROVE  Lhs(q) \in Node /\ Child(Lhs(q), q) /\ rank[Lhs(q)] < rank[q] /\ kind[Lhs(q)] = "Lhs"
    OBVIOUS
  <2>1. Lhs(q) \in Node /\ Child(Lhs(q), q) /\ kind[Lhs(q)] = "Lhs" /\ Exists(q)
    BY <1>1, MainChildren DEF IsMain, Exists
  <2> QED BY <1>1, <2>1 DEF Ranked, RankedAt, Child
<1>3. valid[k] /\ k \in Fresh /\ Exists(k)
  <2>1. valid[k]
    <3> SUFFICES ASSUME NEW b \in Node, InRun(k, b), valid[b] PROVE FALSE
      BY DEF Scoped
    <3>1. scope[k] = b
      BY <1>1 DEF Graph, Created
    <3> QED BY <3>1
  <2>2. k \notin Top
    BY <1>1 DEF Graph, TopNodes
  <2>3. Exists(k)
    BY <1>1 DEF Graph, NoNodes
  <2> QED BY <2>1, <2>2, <2>3 DEF Node
<1>4. IsMain(m)
  BY DEF Relinking
<1>5. CASE Dying(k)
  <2>1. Called("invalidate", k, NoNode)
    BY <1>5 DEF Dying
  <2>2. s = Lhs(m)
    BY <2>1 DEF Relinking
  <2> QED BY <1>2, <1>4, <2>2
<1>6. CASE Homed(k)
  <2>1. InRun(k, s) /\ ~valid[s]
    BY <1>6 DEF Homed
  <2>2. PICK q \in Node : Keeps(q, k)
    BY <1>6 DEF Homed
  <2>3. IsMain(q) /\ Lhs(q) = s
    BY <2>2 DEF Keeps
  <2>4. valid[q]
    <3>1. created[s] # <<>>
      BY <2>1, NothingOrdered DEF InRun
    <3> QED BY <1>1, <2>3, <3>1 DEF Validity, Emptied
  <2>5. Necessary(q)
    <3>1. kind[s] = "Lhs"
      BY <1>2, <2>3
    <3>2. s \notin observed /\ s \notin forced
      <4>1. s \in observed => kind[s] = TopKind[s] /\ s \in Top \ LhsNode
        BY <1>1 DEF Observers, Graph, TopNodes
      <4> QED BY <1>1, <3>1, <4>1 DEF Observers, LhsNode
    <3>3. parents[s] # <<>> /\ parents[s] \in Seq(Node)
      BY <1>1, <3>2 DEF Necessary, TypeOK
    <3>4. PICK a \in Node : IsParent(a, s)
      BY <3>3, EmptyRange DEF IsParent
    <3>5. valid[a] /\ Child(s, a) /\ Necessary(a)
      BY <1>1, <3>4 DEF Links, Linked
    <3>6. IsMain(a) /\ Lhs(a) = s
      BY <1>1, <3>1, <3>5, Children
    <3>7. a = q
      BY <1>1, <2>3, <3>6 DEF Graph, OneMain
    <3> QED BY <3>5, <3>7
  <2>6. q \in Range(invalidated) \/ Dying(q)
    BY <1>1, <1>2, <2>1, <2>3, <2>4, <2>5 DEF Told, ToldOf
  <2>7. rank[q] <= rank[m]
    <3>1. CASE q \in Range(invalidated)
      BY <3>1 DEF Relinking
    <3>2. CASE Dying(q)
      <4>1. Called("invalidate", q, NoNode)
        BY <3>2 DEF Dying
      <4>2. rank[q] < rank[m] /\ rank[q] \in Nat /\ rank[m] \in Nat
        BY <4>1 DEF Relinking
      <4> QED BY <4>2
    <3> QED BY <2>6, <3>1, <3>2
  <2>8. rank[s] < rank[q] /\ rank[s] \in Nat /\ rank[q] \in Nat /\ rank[m] \in Nat
    BY <1>1, <1>2, <2>3
  <2> QED BY <2>7, <2>8
<1> QED BY <1>1, <1>3, <1>5, <1>6 DEF Validity

LEMMA AdjustHeightsHigh ==
  ASSUME NEW rank \in [Node -> Nat], TypeOK, Inv(rank), HighInv(rank), NEW c, NEW p,
         Runs("adjust_heights", c, p), AdjustHeights(c, p)
  PROVE  HighInv(rank)'
<1>1. Scene(rank, "adjust_heights", c, p)
  BY Context, Zenon
<1>2. /\ calls \in Seq(Call) /\ calls # <<>> /\ Stack(rank) /\ CallsTyped /\ Covered
      /\ c \in Node /\ p \in Node
      /\ \A d, k, q : Called(d, k, q) <=> Waiting(d, k, q) \/ (d = "adjust_heights" /\ k = c /\ q = p)
      /\ \A d, k, q : Waiting(d, k, q) => Under(rank, "adjust_heights", c, p, d, k, q)
  BY <1>1 DEF Scene, Paired
<1>3. /\ UNCHANGED <<kind, scope, children, created, valid, parents, observed, forced>> /\ Returns
      /\ Uses /\ High /\ Ended /\ Fates /\ Turning(rank) /\ Graph /\ Links
  BY DEF AdjustHeights, made, links, HighInv, Inv
<1>4. /\ calls' \in Seq(Call)
      /\ \A d, k, q : Called(d, k, q)' <=> Waiting(d, k, q)
  BY <1>2, <1>3, Return
<1>5. ASSUME NEW d, NEW k, NEW q, Waiting(d, k, q)
      PROVE  d \notin {"add_parent", "place", "adjust_heights", "remove_parent", "lower", "drain", "mark"}
  BY <1>2, <1>5 DEF Under, Linking, Ending
<1>6. /\ \A k, q : ~Link(k, q) /\ ~Unlink(k, q) /\ ~Placing(k) /\ ~Marked(k)
      /\ \A k, q : Adjust(k, q) <=> k = c /\ q = p
      /\ \A k : ~Marked(k)' /\ ~Called("lower", k, NoNode)'
      /\ \A k : Dying(k)' <=> Dying(k)
  BY <1>2, <1>4, <1>5 DEF Link, Unlink, Placing, Marked, Adjust, Dying
<1>7. ~Busy'
  BY <1>4, <1>5, NotBusyAfter
<1>8. Lined(calls)' /\ Opening' /\ Turning(rank)'
  BY <1>4, <1>7, Quiet, Zenon
<1>9. Uses'
  BY <1>3, UsesKept
<1>10. Ended'
  BY <1>6 DEF Ended
<1>11. Fates'
  <2>1. \A m \in Node : IsMain(m) => Lhs(m) \in Node
    BY <1>3, MainLhs
  <2> QED BY <1>3, <1>6, <1>7, <2>1, FatesKept
<1>12. \A k \in Node : Necessary(k)' <=> Necessary(k)
  BY <1>3 DEF Necessary
<1>13. \A k, q \in Node : IsParent(q, k) => Necessary(k) /\ Necessary(q)
  <2> SUFFICES ASSUME NEW k \in Node, NEW q \in Node, IsParent(q, k) PROVE Necessary(k) /\ Necessary(q)
    OBVIOUS
  <2>1. parents[k] # <<>>
    BY NothingOrdered DEF IsParent
  <2> QED BY <1>3, <1>6, <2>1 DEF Links, Linked, Necessary
<1>14. \A k, q \in Node : IsParent(q, k) => height[k] < height[q] \/ (k = c /\ q = p)
  BY <1>3, <1>6 DEF High, Rising
<1>15. High'
  <2>1. CASE height[c] < height[p]
    <3>1. height' = height
      BY <2>1 DEF AdjustHeights
    <3>2. \A k, q \in Node : IsParent(q, k)' =>
            IsParent(q, k) /\ (Placing(q) \/ Unlink(k, q) \/ Adjust(k, q) => Rising(k, q)')
      BY <1>3, <1>6, <2>1, <3>1 DEF IsParent, Rising
    <3>3. \A n \in Node : Necessary(n)' /\ Scoped(n)' => Necessary(n) /\ Scoped(n)
      BY <1>3, <1>12 DEF Scoped, InRun
    <3> QED BY <1>3, <3>1, <3>2, <3>3, HighKept
  <2>2. CASE ~(height[c] < height[p])
    <3> DEFINE raised == LeastHeights(Above, height)
    <3>1. height' = [n \in Node |-> IF Necessary(n) THEN raised[n] ELSE height[n]]
      BY <2>2 DEF AdjustHeights
    <3>2. /\ raised \in [Node -> Int]
          /\ \A n \in Node : height[n] <= raised[n]
          /\ \A k \in Node : \A n \in Above[k] : raised[k] < raised[n]
          /\ \A n \in Node : rank[n] < rank[p] => raised[n] = height[n]
      BY <1>2, <1>14, RaisedAbove
    <3> HIDE DEF raised
    <3>3. \A n \in Node : /\ height'[n] = (IF Necessary(n) THEN raised[n] ELSE height[n])
                          /\ height[n] \in Int /\ raised[n] \in Int /\ height'[n] \in Int
                          /\ height[n] <= height'[n] /\ height[n] >= -1 /\ scope[n] \in Node \union {NoNode}
      BY <1>3, <3>1, <3>2 DEF TypeOK, High
    <3>4. ASSUME NEW k \in Node, NEW q \in Node, IsParent(q, k)' PROVE Rising(k, q)'
      <4>1. IsParent(q, k)
        BY <1>3, <3>4 DEF IsParent
      <4>2. q \in Above[k]
        BY <4>1 DEF Above, IsParent
      <4>3. height'[k] = raised[k] /\ height'[q] = raised[q]
        BY <1>13, <3>3, <4>1
      <4> QED BY <3>2, <4>2, <4>3 DEF Rising
    <3>5. ASSUME NEW k \in Node, Necessary(k)', Scoped(k)' PROVE ScopeHeight(k)' < height'[k]
      <4>1. Necessary(k) /\ Scoped(k) /\ scope'[k] = scope[k]
        BY <1>3, <1>12, <3>5 DEF Scoped, InRun
      <4>2. ScopeHeight(k) < height[k]
        BY <1>3, <4>1 DEF High
      <4>3. CASE scope[k] = NoNode
        BY <3>3, <4>1, <4>2, <4>3 DEF ScopeHeight
      <4>4. CASE scope[k] # NoNode
        <5>1. PICK s \in Node : s = scope[k]
          BY <3>3, <4>4
        <5>2. ScopeHeight(k)' = height'[s] /\ height[s] < height[k]
          BY <4>1, <4>2, <4>4, <5>1 DEF ScopeHeight
        <5>3. CASE height'[s] = height[s]
          BY <3>3, <5>2, <5>3
        <5>4. CASE height'[s] # height[s]
          <6>1. Necessary(s) /\ raised[s] # height[s] /\ height'[s] = raised[s]
            BY <3>3, <5>4
          <6>2. ~(rank[s] < rank[p])
            BY <3>2, <6>1
          <6>3. Relinking(rank, c, p)
            BY <1>2, <1>3, <1>6 DEF Turning
          <6>4. valid[s] /\ InRun(k, s)
            BY <1>2, <1>6, <4>1, <4>4, <5>1, <6>1, <6>2, <6>3, ScopeBelow
          <6>5. k \in Above[s]
            BY <4>1, <6>4, NodeAssumption DEF Above, InRun
          <6> QED BY <3>2, <3>3, <4>1, <5>2, <6>1, <6>5
        <5> QED BY <5>3, <5>4
      <4> QED BY <4>3, <4>4
    <3>6. \A n \in Node : height'[n] >= -1
      BY <3>3
    <3> QED BY <3>4, <3>5, <3>6 DEF High
  <2> QED BY <2>1, <2>2
<1> QED BY <1>8, <1>9, <1>10, <1>11, <1>15 DEF HighInv

\* Between the turns of stabilise: the links and heights are left, and no bind's lhs-change
\* node is about to be invalidated.
LEMMA RestHigh ==
  ASSUME NEW rank, TypeOK, Inv(rank), HighInv(rank), calls = <<>>, calls' \in Seq(Call),
         UNCHANGED <<kind, scope, children, created, valid, height, parents, observed, forced>>,
         \A d, k, q : Called(d, k, q)' => \/ d \in Observing \union {"propagate_invalidity"}
                                          \/ d = "invalidate" /\ kind[k] # "Lhs"
  PROVE  HighInv(rank)'
<1>1. \A d, n, p : ~Called(d, n, p)
  BY Idle
<1>2. \A k, q : /\ ~Called("add_parent", k, q)' /\ ~Called("place", k, q)'
                /\ ~Called("adjust_heights", k, q)' /\ ~Called("mark", k, q)' /\ ~Called("lower", k, q)'
  BY DEF Observing
<1>3. ~Busy'
  BY <1>2, NotBusyAfter
<1>4. ~Busy
  BY <1>1 DEF Busy, Starting, Adjust
<1>5. \A n \in Node : Necessary(n)' <=> Necessary(n)
  BY DEF Necessary
<1>6. \A c, p \in Node : IsParent(p, c)' => IsParent(p, c) /\ ~Unlink(c, p)
  BY <1>1 DEF IsParent, Unlink
<1>7. \A n \in Node : ~Marked(n)' /\ ~Called("lower", n, NoNode)' /\ ~Dying(n)
  BY <1>1, <1>2 DEF Marked, Dying
<1>8. \A n \in Node : Dying(n)' => kind[n] # "Lhs"
  <2> SUFFICES ASSUME NEW n \in Node, Dying(n)' PROVE kind[n] # "Lhs"
    OBVIOUS
  <2>1. Called("invalidate", n, NoNode)'
    BY <1>7 DEF Dying
  <2> QED BY <2>1 DEF Observing
<1>9. Fates'
  <2>1. SUFFICES ASSUME NEW m \in Node, IsMain(m) PROVE Fated(m)'
    BY DEF Fates, IsMain
  <2>2. Lhs(m) \in Node /\ kind[Lhs(m)] = "Lhs"
    BY <2>1, MainLhs DEF Inv
  <2>3. PICK b, x : b \in Node /\ b = Lhs(m) /\ x = Input(m) /\ b = Lhs(m)' /\ x = Input(m)'
    BY <2>2 DEF Lhs, Input
  <2>4. ~Dying(b)'
    BY <1>8, <2>2, <2>3
  <2>5. valid[m] /\ ~valid[b] => ~valid[x]
    BY <1>7, <2>1, <2>3 DEF HighInv, Fates, Fated
  <2>6. /\ (valid[m] /\ ~valid[b])' => ~valid'[x]
        /\ ~Dying(b)'
    BY <2>4, <2>5
  <2>7. ~Dying(Lhs(m))'
    BY <2>3, <2>4 DEF Dying, Marked
  <2> QED BY <2>3, <2>6, <2>7 DEF Fated
<1> QED BY <1>3, <1>4, <1>5, <1>6, <1>7, <1>9, Unraised

LEMMA RecomputeValueHigh ==
  ASSUME NEW rank, TypeOK, Inv(rank), HighInv(rank), NEW n, IsNext(n), RecomputeValue(n)
  PROVE  HighInv(rank)'
<1>1. calls = <<>> /\ calls' = <<>>
      /\ UNCHANGED <<kind, scope, children, created, valid, height, parents, observed, forced>>
  BY DEF IsNext, RecomputeValue, made, links
<1>2. \A d, k, q : ~Called(d, k, q)'
  BY <1>1, NothingOrdered DEF Called
<1> QED BY <1>1, <1>2, RestHigh

LEMMA RecomputeMainHigh ==
  ASSUME NEW rank, TypeOK, Inv(rank), HighInv(rank), NEW n, IsNext(n), RecomputeMain(n)
  PROVE  HighInv(rank)'
<1>1. /\ n \in Node /\ calls = <<>> /\ kind[n] = "Main"
      /\ UNCHANGED <<kind, scope, children, created, valid, height, parents, observed, forced>>
  BY NextIsQueued DEF RecomputeMain, made, links
<1>2. \/ calls' = <<>>
      \/ calls' = <<Do("invalidate", n), Do("propagate_invalidity", NoNode)>>
  BY <1>1 DEF RecomputeMain
<1>3. CASE calls' = <<>>
  <2>1. \A d, k, q : ~Called(d, k, q)'
    BY <1>3, NothingOrdered DEF Called
  <2> QED BY <1>1, <1>3, <2>1, RestHigh
<1>4. CASE calls' = <<Do("invalidate", n), Do("propagate_invalidity", NoNode)>>
  <2> DEFINE f == Do("invalidate", n)
             g == Do("propagate_invalidity", NoNode)
  <2>1. f \in Call /\ g \in Call
    BY <1>1, CallMade DEF Do, Function
  <2>2. calls' \in Seq(Call) /\ \A x \in Range(calls') : x = f \/ x = g
    <3> HIDE DEF f, g
    <3>1. calls' = <<f, g>>
      BY <1>4 DEF f, g
    <3>2. DOMAIN <<f, g>> = 1 .. 2
      OBVIOUS
    <3> QED BY <2>1, <3>1, <3>2 DEF Range
  <2>3. ASSUME NEW d, NEW k, NEW q, Called(d, k, q)'
        PROVE  d = "propagate_invalidity" \/ (d = "invalidate" /\ kind[k] # "Lhs")
    <3>1. [do |-> d, node |-> k, with |-> q] = f \/ [do |-> d, node |-> k, with |-> q] = g
      BY <2>2, <2>3 DEF Called
    <3>2. (d = "invalidate" /\ k = n) \/ d = "propagate_invalidity"
      BY <3>1 DEF Do
    <3> QED BY <1>1, <3>2
  <2> QED BY <1>1, <2>2, <2>3, RestHigh
<1> QED BY <1>2, <1>3, <1>4

\* The user's calls between two stabilisations.
LEMMA UserHigh ==
  ASSUME NEW rank, TypeOK, Inv(rank), HighInv(rank),
         calls = <<>>, UNCHANGED <<made, children, created, valid, height, links, calls>>
  PROVE  HighInv(rank)'
<1>1. \A d, k, q : ~Called(d, k, q)'
  BY NothingOrdered DEF Called
<1>2. calls' \in Seq(Call)
  OBVIOUS
<1> QED BY <1>1, <1>2, RestHigh DEF made, links

LEMMA SetVarHigh ==
  ASSUME NEW rank, TypeOK, Inv(rank), HighInv(rank), NEW v, NEW x, SetVar(v, x)
  PROVE  HighInv(rank)'
BY UserHigh DEF SetVar, Inv, Heap

LEMMA ToggleObserverHigh ==
  ASSUME NEW rank, TypeOK, Inv(rank), HighInv(rank), NEW n, ToggleObserver(n)
  PROVE  HighInv(rank)'
BY UserHigh DEF ToggleObserver, Inv, Heap

LEMMA StabiliseEndHigh ==
  ASSUME NEW rank, TypeOK, Inv(rank), HighInv(rank), StabiliseEnd
  PROVE  HighInv(rank)'
BY UserHigh DEF StabiliseEnd

LEMMA StabiliseStartHigh ==
  ASSUME NEW rank, TypeOK, Inv(rank), HighInv(rank), StabiliseStart
  PROVE  HighInv(rank)'
<1>1. calls = <<>> /\ UNCHANGED <<kind, scope, children, created, valid, height, parents, observed, forced>>
  BY DEF Inv, Heap, StabiliseStart, made, links
<1> DEFINE s == DoEach("add_observer", Observable) \o DoEach("remove_observer", Observable)
<1>2. calls' = s
  BY DEF StabiliseStart
<1>3. /\ s \in Seq(Call)
      /\ \A d, n, p : [do |-> d, node |-> n, with |-> p] \in Range(s) <=>
           d \in Observing /\ n \in Range(Observable) /\ p = NoNode
  BY StartCalls, Zenon
<1> HIDE DEF s
<1>4. ASSUME NEW d, NEW k, NEW q, Called(d, k, q)' PROVE d \in Observing
  <2>1. [do |-> d, node |-> k, with |-> q] \in Range(s)
    BY <1>2, <1>4 DEF Called
  <2> QED BY <1>3, <2>1
<1> QED BY <1>1, <1>2, <1>3, <1>4, RestHigh

\* A node is dropped that nothing holds: it is not a child of any.
LEMMA DroppedHigh ==
  ASSUME NEW rank \in [Node -> Nat], TypeOK, Inv(rank), HighInv(rank), NEW p, Runs("drop", NoNode, p),
         NEW n \in Fresh, Dropped(n)
  PROVE  HighInv(rank)'
<1>1. Graph /\ Uses /\ High /\ Fates
  BY DEF Inv, HighInv
<1>2. /\ \A k \in Node : (Exists(k)' <=> k # n /\ Exists(k)) /\ (IsMain(k)' <=> k # n /\ IsMain(k))
      /\ \A k \in Node : k # n => /\ Lhs(k)' = Lhs(k) /\ (HasRhs(k)' <=> HasRhs(k)) /\ Rhs(k)' = Rhs(k)
                                  /\ kind'[k] = kind[k] /\ scope'[k] = scope[k]
  BY <1>1, DroppedChildren, Zenon
<1>3. /\ n \in Node /\ ~valid[n] /\ ~Necessary(n) /\ \A k \in Node : ~IsParent(n, k)
      /\ \A k \in Node : ~Dying(k)
      /\ \A d, k, q : Called(d, k, q) <=> d = "drop" /\ k = NoNode /\ q = p
  BY DroppedFacts
<1>4. /\ \A k, b \in Node : InRun(k, b)' <=> b # n /\ k # n /\ InRun(k, b)
      /\ \A k \in Node : ~Child(n, k)
      /\ kind'[n] = "None" /\ scope'[n] = NoNode /\ height'[n] = -1
      /\ \A k \in Node : k # n => valid'[k] = valid[k] /\ height'[k] = height[k]
      /\ UNCHANGED <<calls, parents, observed, forced>>
  BY <1>3 DEF Dropped, TypeOK
<1>5. ASSUME NEW m \in Node, IsMain(m)'
      PROVE  \E b, x \in Node :
               /\ IsMain(m) /\ m # n /\ b # n /\ x # n
               /\ b = Lhs(m) /\ b = Lhs(m)' /\ x = Lhs(b) /\ x = Lhs(b)' /\ x = Input(m) /\ x = Input(m)'
               /\ kind[b] = "Lhs"
  <2>1. IsMain(m) /\ m # n
    BY <1>2, <1>5
  <2>2. PICK b \in Node : b = Lhs(m) /\ Child(b, m) /\ kind[b] = "Lhs"
    BY <1>1, <2>1, MainChildren
  <2>3. b # n /\ b = Lhs(m)'
    BY <1>2, <1>4, <2>1, <2>2
  <2>4. PICK x \in Node : x = Lhs(b) /\ Child(x, b)
    <3>1. children[b] \in Seq(Node) /\ Len(children[b]) = 1
      BY <1>1, <2>2 DEF TypeOK, Graph, Shapes, Shape
    <3>2. 1 \in 1 .. Len(children[b])
      BY <3>1
    <3>3. children[b][1] \in Range(children[b]) /\ children[b][1] \in Node
      BY <3>1, <3>2, IndexInRange
    <3> QED BY <3>3 DEF Lhs, Child
  <2>5. x # n /\ x = Lhs(b)'
    BY <1>2, <1>4, <2>3, <2>4
  <2>6. x = Input(m) /\ x = Input(m)'
    BY <2>2, <2>3, <2>4, <2>5 DEF Input, Lhs
  <2> QED BY <2>1, <2>2, <2>3, <2>4, <2>5, <2>6
<1>6. \A k : ~Marked(k)' /\ ~Called("lower", k, NoNode)' /\ ~Called("invalidate", k, NoNode)'
  BY <1>3, <1>4 DEF Marked, Called
<1>7. ~Busy /\ ~Busy' /\ calls' \in Seq(Call)
  <2>1. \A k, q : ~Called("add_parent", k, q)' /\ ~Called("place", k, q)' /\ ~Called("adjust_heights", k, q)'
    BY <1>3, <1>4 DEF Called
  <2>2. ~Busy
    BY <1>3 DEF Busy, Starting, Linking, Adjust
  <2>3. calls' \in Seq(Call)
    BY <1>4 DEF TypeOK
  <2> QED BY <2>1, <2>2, <2>3, NotBusyAfter
<1>8. Lined(calls)' /\ Opening' /\ Turning(rank)'
  BY <1>7, Quiet, Zenon
<1>9. Uses'
  <2>1. \A k \in Node : scope'[k] # k
    <3> SUFFICES ASSUME NEW k \in Node PROVE scope'[k] # k
      OBVIOUS
    <3>1. CASE k = n
      BY <1>4, <3>1, NodeAssumption
    <3>2. CASE k # n
      BY <1>1, <1>2, <3>2 DEF Uses
    <3> QED BY <3>1, <3>2
  <2>2. ASSUME NEW k \in Fresh, kind'[k] \in {"Map", "Lhs"} PROVE Lhs(k)' \in Top
    <3>1. k \in Node /\ k # n
      BY <1>4, <2>2 DEF Node
    <3>2. Lhs(k)' = Lhs(k) /\ kind[k] \in {"Map", "Lhs"}
      BY <1>2, <2>2, <3>1
    <3> QED BY <1>1, <3>2 DEF Uses
  <2>3. ASSUME NEW m \in Node, IsMain(m)'
        PROVE  /\ (scope[Lhs(m)])' = scope'[m]
               /\ HasRhs(m)' => UsedFrom(Rhs(m), m)'
               /\ scope'[m] # NoNode /\ InRun(Lhs(m), scope[m])' => InRun(m, scope[m])'
    <3>1. PICK b, x \in Node :
            /\ IsMain(m) /\ m # n /\ b # n /\ x # n
            /\ b = Lhs(m) /\ b = Lhs(m)' /\ x = Lhs(b) /\ x = Lhs(b)' /\ x = Input(m) /\ x = Input(m)'
      BY <1>5, <2>3
    <3>2. PICK s : s = scope[m] /\ s = scope'[m]
      BY <1>2, <3>1
    <3>3. scope'[b] = s /\ scope[b] = s
      BY <1>1, <1>2, <3>1, <3>2 DEF Uses
    <3>4. ASSUME HasRhs(m)' PROVE UsedFrom(Rhs(m), m)'
      <4>1. HasRhs(m) /\ Rhs(m)' = Rhs(m)
        BY <1>2, <3>1, <3>4
      <4>2. PICK o \in Node : o = Rhs(m) /\ Child(o, m)
        BY <1>1, <3>1, <4>1, MainChildren
      <4>3. o # n /\ o = Rhs(m)' /\ scope'[o] = scope[o]
        BY <1>2, <1>4, <4>1, <4>2
      <4>4. o \in Top \/ scope[o] = b \/ (IsMain(x) /\ scope[o] = Lhs(x))
        BY <1>1, <3>1, <4>1, <4>2 DEF Uses, UsedFrom
      <4>5. IsMain(x) => IsMain(x)' /\ Lhs(x)' = Lhs(x)
        BY <1>2, <3>1
      <4>6. o \in Top \/ scope'[o] = b \/ (IsMain(x)' /\ scope'[o] = Lhs(x)')
        BY <4>3, <4>4, <4>5
      <4>7. UsedFrom(o, m)'
        <5>1. Lhs(m)' = b /\ (IsMain(Input(m)) <=> IsMain(x))' /\ Lhs(Input(m))' = Lhs(x)'
          BY <3>1 DEF IsMain, Lhs
        <5> QED BY <4>6, <5>1 DEF UsedFrom
      <4> QED BY <4>3, <4>7 DEF UsedFrom
    <3>5. ASSUME s # NoNode, InRun(b, s)' PROVE InRun(m, s)'
      <4>1. s \in Node
        BY <3>2, <3>5 DEF TypeOK
      <4>2. s # n /\ InRun(b, s)
        BY <1>4, <3>1, <3>5, <4>1
      <4>3. InRun(m, s)
        BY <1>1, <3>1, <3>2, <3>5, <4>2 DEF Uses
      <4> QED BY <1>4, <3>1, <4>1, <4>2, <4>3
    <3>6. s # NoNode /\ InRun(b, s)' => InRun(m, s)'
      BY <3>5
    <3>7. (scope[Lhs(m)])' = scope'[b]
      BY <3>1
    <3>8. /\ InRun(Lhs(m), scope[m])' <=> InRun(b, s)'
          /\ InRun(m, scope[m])' <=> InRun(m, s)'
      BY <3>1, <3>2 DEF InRun
    <3> QED BY <3>2, <3>3, <3>4, <3>6, <3>7, <3>8
  <2> QED BY <2>1, <2>2, <2>3 DEF Uses
<1>10. \A k \in Node : Necessary(k)' => Necessary(k) /\ k # n
  BY <1>3, <1>4 DEF Necessary
<1>11. High'
  <2>1. \A k \in Node : height'[k] >= -1
    <3> SUFFICES ASSUME NEW k \in Node PROVE height'[k] >= -1
      OBVIOUS
    <3>1. CASE k = n
      BY <1>4, <3>1
    <3>2. CASE k # n
      BY <1>1, <1>4, <3>2 DEF High
    <3> QED BY <3>1, <3>2
  <2>2. ASSUME NEW c \in Node, NEW q \in Node, IsParent(q, c)' PROVE Rising(c, q)'
    <3>1. IsParent(q, c)
      BY <1>4, <2>2 DEF IsParent
    <3>2. q # n
      BY <1>3, <3>1
    <3>3. c # n
      <4>1. c = n => parents[n] = <<>>
        BY <1>3 DEF Necessary
      <4> QED BY <3>1, <4>1, NothingOrdered DEF IsParent
    <3>4. ~Placing(q) /\ ~Unlink(c, q) /\ ~Adjust(c, q)
      BY <1>3 DEF Placing, Unlink, Adjust
    <3>5. height[c] < height[q]
      BY <1>1, <3>1, <3>4 DEF High, Rising
    <3> QED BY <1>4, <3>2, <3>3, <3>5 DEF Rising
  <2>3. ASSUME NEW k \in Node, Necessary(k)', Scoped(k)' PROVE ScopeHeight(k)' < height'[k]
    <3>1. Necessary(k) /\ k # n
      BY <1>10, <2>3
    <3>2. Scoped(k)
      BY <1>4, <2>3, <3>1 DEF Scoped
    <3>3. ScopeHeight(k) < height[k] /\ height'[k] = height[k] /\ height[k] \in Int
      BY <1>1, <1>4, <3>1, <3>2 DEF High, TypeOK
    <3>4. PICK s \in Node \union {NoNode} : s = scope[k] /\ s = scope'[k]
      BY <1>2, <3>1 DEF TypeOK
    <3>5. CASE s = NoNode
      BY <3>3, <3>4, <3>5 DEF ScopeHeight
    <3>6. CASE s \in Node /\ s # NoNode
      <4>1. ScopeHeight(k) = height[s] /\ ScopeHeight(k)' = height'[s]
        BY <3>4, <3>6 DEF ScopeHeight
      <4>2. height'[s] <= height[s] /\ height[s] \in Int /\ height'[s] \in Int
        <5>1. height[s] >= -1 /\ height[s] \in Int
          BY <1>1, <3>6 DEF High, TypeOK
        <5>2. CASE s = n
          BY <1>4, <5>1, <5>2
        <5>3. CASE s # n
          BY <1>4, <3>6, <5>1, <5>3
        <5> QED BY <5>2, <5>3
      <4> QED BY <3>3, <4>1, <4>2
    <3> QED BY <3>5, <3>6
  <2> QED BY <2>1, <2>2, <2>3 DEF High
<1>12. Ended'
  BY <1>6 DEF Ended
<1>13. Fates'
  <2>1. SUFFICES ASSUME NEW m \in Node, IsMain(m)' PROVE Fated(m)'
    BY DEF Fates
  <2>2. PICK b, x \in Node :
          /\ IsMain(m) /\ m # n /\ b # n /\ x # n
          /\ b = Lhs(m) /\ b = Lhs(m)' /\ x = Input(m) /\ x = Input(m)'
    BY <1>5, <2>1
  <2>3. valid[m] /\ ~valid[b] => ~valid[x]
    BY <1>1, <1>3, <2>2 DEF Fates, Fated
  <2>4. valid'[m] /\ ~valid'[b] => ~valid'[x]
    BY <1>4, <2>2, <2>3
  <2>5. \A k : ~Dying(k)'
    BY <1>6 DEF Dying
  <2>6. ~Dying(Lhs(m))'
    BY <2>2, <2>5 DEF Dying, Marked
  <2> QED BY <2>2, <2>4, <2>6 DEF Fated
<1> QED BY <1>8, <1>9, <1>11, <1>12, <1>13 DEF HighInv

LEMMA DropHigh ==
  ASSUME NEW rank \in [Node -> Nat], TypeOK, Inv(rank), HighInv(rank), NEW p, Runs("drop", NoNode, p), Drop
  PROVE  HighInv(rank)'
<1>1. CASE NotHeld # {}
  <2>1. PICK n \in Fresh : Dropped(n)
    BY <1>1, DropFacts
  <2> QED BY <2>1, DroppedHigh
<1>2. CASE NotHeld = {}
  <2>1. /\ UNCHANGED <<kind, scope, children, created, valid, height>> /\ Returns
        /\ \A k \in Node : Necessary(k)' <=> Necessary(k)
        /\ \A k, q \in Node : IsParent(q, k)' <=> IsParent(q, k)
    BY <1>2 DEF Drop, made, links, Necessary, IsParent
  <2> QED BY <2>1, ReturnedHigh DEF Linking
<1> QED BY <1>1, <1>2

-----------------------------------------------------------------------------
(***************************************************************************)
(* The run of a closure.  M is what it made, new what it returned.         *)
(***************************************************************************)
\* The bind and the input of a main node are not among the nodes that were made, and are
\* its bind and its input still.
LEMMA RunMain ==
  ASSUME TypeOK, Graph, NEW b \in Node, NEW m \in Node, NEW new \in Node, NEW l, NEW of, NEW M,
         IsMain(m), Built(b, m, M, new, l, of), NEW q \in Node, IsMain(q)', q \notin M
  PROVE  \E y, x \in Node :
           /\ IsMain(q) /\ y \notin M /\ x \notin M /\ kind[y] = "Lhs" /\ y # m
           /\ y = Lhs(q) /\ y = Lhs(q)' /\ x = Lhs(y) /\ x = Lhs(y)' /\ x = Input(q) /\ x = Input(q)'
           /\ (IsMain(x)' <=> IsMain(x)) /\ (IsMain(x) => Lhs(x)' = Lhs(x))
           /\ Child(y, q) /\ Child(x, y)
<1>1. \A n \in Node \ M : /\ kind'[n] = kind[n]
                          /\ IsMain(n)' <=> IsMain(n)
                          /\ n # m => children'[n] = children[n]
                          /\ IsMain(n) => Lhs(n)' = Lhs(n)
  BY DEF Built
<1>2. \A c, n \in Node : Child(c, n) => c \notin M /\ n \notin M
  BY DEF Built
<1>3. IsMain(q)
  BY <1>1
<1>4. PICK y \in Node : y = Lhs(q) /\ Child(y, q) /\ kind[y] = "Lhs"
  BY <1>3, MainChildren
<1>5. y \notin M /\ y = Lhs(q)' /\ y # m
  BY <1>1, <1>2, <1>3, <1>4 DEF IsMain
<1>6. PICK x \in Node : x = Lhs(y) /\ Child(x, y)
  <2>1. children[y] \in Seq(Node) /\ Len(children[y]) = 1
    BY <1>4 DEF TypeOK, Graph, Shapes, Shape
  <2>2. 1 \in 1 .. Len(children[y])
    BY <2>1
  <2>3. children[y][1] \in Range(children[y]) /\ children[y][1] \in Node
    BY <2>1, <2>2, IndexInRange
  <2> QED BY <2>3 DEF Lhs, Child
<1>7. x \notin M /\ x = Lhs(y)'
  <2>1. children'[y] = children[y]
    BY <1>1, <1>5
  <2> QED BY <1>2, <1>6, <2>1 DEF Lhs
<1>8. x = Input(q) /\ x = Input(q)'
  BY <1>4, <1>5, <1>6, <1>7 DEF Input, Lhs
<1>9. (IsMain(x)' <=> IsMain(x)) /\ (IsMain(x) => Lhs(x)' = Lhs(x))
  BY <1>1, <1>7
<1> QED BY <1>3, <1>4, <1>5, <1>6, <1>7, <1>8, <1>9

\* A right-hand side stays where it was made.
LEMMA RunUsedFrom ==
  ASSUME TypeOK, Graph, Uses, NEW b \in Node, NEW m \in Node, NEW new \in Node, NEW l, NEW of, NEW M,
         IsMain(m), Built(b, m, M, new, l, of), NEW q \in Node, IsMain(q)', q \notin M, HasRhs(q), NEW o, o = Rhs(q)
  PROVE  UsedFrom(o, q)'
<1>1. PICK y, x \in Node :
           /\ IsMain(q) /\ y \notin M /\ x \notin M /\ kind[y] = "Lhs" /\ y # m
           /\ y = Lhs(q) /\ y = Lhs(q)' /\ x = Lhs(y) /\ x = Lhs(y)' /\ x = Input(q) /\ x = Input(q)'
           /\ (IsMain(x)' <=> IsMain(x)) /\ (IsMain(x) => Lhs(x)' = Lhs(x))
           /\ Child(y, q) /\ Child(x, y)
  BY RunMain
<1>2. o \in Node /\ Child(o, q)
  BY <1>1, MainChildren
<1>3. o \notin M /\ scope'[o] = scope[o]
  BY <1>2 DEF Built
<1>4. o \in Top \/ scope[o] = y \/ (IsMain(x) /\ scope[o] = Lhs(x))
  BY <1>1 DEF Uses, UsedFrom
<1>5. o \in Top \/ scope'[o] = y \/ (IsMain(x)' /\ scope'[o] = Lhs(x)')
  BY <1>1, <1>3, <1>4
<1>6. Lhs(q)' = y /\ (IsMain(Input(q)) <=> IsMain(x))' /\ Lhs(Input(q))' = Lhs(x)'
  BY <1>1 DEF IsMain, Lhs
<1> QED BY <1>5, <1>6 DEF UsedFrom

LEMMA RunUses ==
  ASSUME NEW rank, TypeOK, Graph, Uses, NEW b \in Node, NEW m \in Node, NEW new \in Node, NEW l, NEW of \in Top,
         NEW M, NEW old, Ran(rank, b, m, M, new, l, of, old), Built(b, m, M, new, l, of)
  PROVE  Uses'
<1>1. kind[b] = "Lhs" /\ IsMain(m) /\ Lhs(m) = b /\ m # b
  BY DEF Ran
<1>2. /\ M \subseteq Fresh /\ b \notin M /\ m \notin M
      /\ \A n \in M : scope'[n] = b /\ n \in Node
      /\ \A n \in Node \ M : /\ kind'[n] = kind[n] /\ scope'[n] = scope[n]
                             /\ n # m => children'[n] = children[n]
      /\ \A n, k \in Node : InRun(k, n)' <=> IF n = b THEN k \in M ELSE n \notin M /\ InRun(k, n)
      /\ children'[m] = <<b, new>> /\ HasRhs(m)' /\ Rhs(m)' = new
      /\ \A n \in M : ~IsMain(n)' => Lhs(n)' = of
      /\ \A n \in M : IsMain(n)' => l \in M /\ Lhs(n)' = l /\ Len(children'[n]) = 1
  BY DEF Built
<1>3. \A n \in Node : scope'[n] # n
  <2> SUFFICES ASSUME NEW n \in Node PROVE scope'[n] # n
    OBVIOUS
  <2>1. CASE n \in M
    BY <1>2, <2>1
  <2>2. CASE n \notin M
    BY <1>2, <2>2 DEF Uses
  <2> QED BY <2>1, <2>2
<1>4. ASSUME NEW n \in Fresh, kind'[n] \in {"Map", "Lhs"} PROVE Lhs(n)' \in Top
  <2>1. CASE n \in M
    BY <1>2, <1>4, <2>1 DEF IsMain
  <2>2. CASE n \notin M
    <3>1. n \in Node /\ kind[n] \in {"Map", "Lhs"}
      BY <1>2, <1>4, <2>2 DEF Node
    <3>2. children'[n] = children[n]
      BY <1>1, <1>2, <2>2, <3>1 DEF IsMain
    <3> QED BY <3>1, <3>2 DEF Uses, Lhs
  <2> QED BY <2>1, <2>2
<1>5. ASSUME NEW q \in M, IsMain(q)'
      PROVE  /\ q \in Node
             /\ (scope[Lhs(q)])' = scope'[q] /\ ~HasRhs(q)'
             /\ InRun(q, scope[q])'
  <2>1. q \in Node /\ Lhs(q)' = l /\ scope'[l] = b /\ scope'[q] = b /\ Len(children'[q]) = 1
    BY <1>2, <1>5
  <2>2. InRun(q, b)'
    BY <1>2, <2>1
  <2> QED BY <2>1, <2>2 DEF HasRhs, InRun
<1>6. ASSUME NEW q \in Node, q \notin M, IsMain(q)'
      PROVE  /\ (scope[Lhs(q)])' = scope'[q]
             /\ HasRhs(q)' => UsedFrom(Rhs(q), q)'
             /\ scope'[q] # NoNode /\ InRun(Lhs(q), scope[q])' => InRun(q, scope[q])'
  <2>1. PICK y, x \in Node :
           /\ IsMain(q) /\ y \notin M /\ x \notin M /\ kind[y] = "Lhs" /\ y # m
           /\ y = Lhs(q) /\ y = Lhs(q)' /\ x = Lhs(y) /\ x = Lhs(y)' /\ x = Input(q) /\ x = Input(q)'
           /\ (IsMain(x)' <=> IsMain(x)) /\ (IsMain(x) => Lhs(x)' = Lhs(x))
           /\ Child(y, q) /\ Child(x, y)
    BY <1>1, <1>6, RunMain
  <2>2. PICK s : s = scope[q] /\ s = scope'[q]
    BY <1>2, <1>6
  <2>3. scope'[y] = s
    <3>1. scope[y] = s
      BY <2>1, <2>2 DEF Uses
    <3> QED BY <1>2, <2>1, <3>1
  <2>4. (scope[Lhs(q)])' = scope'[q]
    BY <2>1, <2>2, <2>3
  <2>5. ASSUME HasRhs(q)' PROVE UsedFrom(Rhs(q), q)'
    <3>1. CASE q # m
      <4>1. children'[q] = children[q]
        BY <1>2, <1>6, <3>1
      <4>2. PICK o : o = Rhs(q) /\ o = Rhs(q)' /\ HasRhs(q)
        BY <2>5, <4>1 DEF HasRhs, Rhs
      <4>3. UsedFrom(o, q)'
        BY <1>1, <1>6, <4>2, RunUsedFrom, Zenon
      <4> QED BY <4>2, <4>3 DEF UsedFrom
    <3>2. CASE q = m
      <4>1. y = b /\ Rhs(q)' = new
        BY <1>1, <1>2, <2>1, <3>2
      <4>2. new \in M \/ new \in Top \/ (IsMain(x) /\ scope[new] = Lhs(x))
        BY <2>1, <4>1 DEF Ran, Building
      <4>3. new \in Top \/ scope'[new] = b \/ (IsMain(x)' /\ scope'[new] = Lhs(x)')
        BY <1>2, <2>1, <4>2
      <4>4. Lhs(q)' = b /\ (IsMain(Input(q)) <=> IsMain(x))' /\ Lhs(Input(q))' = Lhs(x)'
        BY <2>1, <4>1 DEF IsMain, Lhs
      <4>5. UsedFrom(new, q)'
        BY <4>3, <4>4 DEF UsedFrom
      <4> QED BY <4>1, <4>5 DEF UsedFrom
    <3> QED BY <3>1, <3>2
  <2>6. ASSUME s # NoNode, InRun(y, s)' PROVE InRun(q, s)'
    <3>1. s \in Node
      BY <2>2, <2>6 DEF TypeOK
    <3>2. s # b /\ s \notin M /\ InRun(y, s)
      BY <1>2, <2>1, <2>6, <3>1
    <3>3. InRun(q, s)
      BY <2>1, <2>2, <2>6, <3>2 DEF Uses
    <3> QED BY <1>2, <3>1, <3>2, <3>3
  <2>7. /\ InRun(Lhs(q), scope[q])' <=> InRun(y, s)'
        /\ InRun(q, scope[q])' <=> InRun(q, s)'
    BY <2>1, <2>2 DEF InRun
  <2>8. scope'[q] # NoNode /\ InRun(Lhs(q), scope[q])' => InRun(q, scope[q])'
    BY <2>2, <2>6, <2>7
  <2> QED BY <2>4, <2>5, <2>8
<1>7. ASSUME NEW q \in Node, IsMain(q)'
      PROVE  /\ (scope[Lhs(q)])' = scope'[q]
             /\ HasRhs(q)' => UsedFrom(Rhs(q), q)'
             /\ scope'[q] # NoNode /\ InRun(Lhs(q), scope[q])' => InRun(q, scope[q])'
  <2>1. CASE q \in M
    BY <1>5, <1>7, <2>1
  <2>2. CASE q \notin M
    BY <1>6, <1>7, <2>2
  <2> QED BY <2>1, <2>2
<1> QED BY <1>3, <1>4, <1>7 DEF Uses

\* The calls that the run makes link the main node, and adjust its height when it is linked.
LEMMA RunLined ==
  ASSUME NEW rank, NEW b \in Node, NEW m \in Node, NEW new \in Node, NEW l, NEW of, NEW M, NEW old,
         TypeOK, Graph, Ran(rank, b, m, M, new, l, of, old), Built(b, m, M, new, l, of)
  PROVE  Lined(calls)' /\ Opening'
<1>1. /\ calls' \in Seq(Call)
      /\ \A d, k, q : Called(d, k, q)' <=> RunCall(b, m, old, new, created[b], d, k, q)
  BY DEF Ran
<1>2. /\ \A c, p : Link(c, p)' <=> c = new /\ p = m /\ old # <<new>>
      /\ \A c, p : Adjust(c, p)' <=> c = new /\ p = m /\ old # <<new>>
      /\ \A n : ~Placing(n)' /\ \A p : ~Called("place", n, p)'
      /\ \A n : Called("invalidate", n, NoNode)' <=> InRun(n, b) /\ old # <<>>
      /\ \A n : Called("release", n, NoNode)' => old # <<new>>
  BY <1>1 DEF RunCall, Link, Adjust, Placing, InRun
<1>3. Lhs(m)' = b /\ new # b
  BY DEF Built, Lhs
<1>4. Lined(calls)'
  <2>1. ASSUME NEW f \in Range(calls'), NEW g \in Range(calls'), g.do = "add_parent"
        PROVE  g.node # children'[g.with][1] /\ f.do # "place"
    <3>1. f \in Call /\ g \in Call
      BY <1>1, ElementInSet
    <3>2. f = [do |-> f.do, node |-> f.node, with |-> f.with]
          /\ g = [do |-> g.do, node |-> g.node, with |-> g.with]
      BY <3>1, CallFields
    <3>3. f.do # "place"
      BY <1>2, <2>1, <3>2 DEF Called
    <3>4. g.node = new /\ g.with = m
      BY <1>2, <2>1, <3>2 DEF Link, Called
    <3> QED BY <1>3, <3>3, <3>4 DEF Lhs
  <2>2. \A i \in DOMAIN calls' : calls'[i] \in Range(calls')
    BY DEF Range
  <2> QED BY <2>1, <2>2 DEF Lined, InLine, Lhs
<1>5. Opening'
  <2>1. \A c, p \in Node : Link(c, p)' => Placing(p)' \/ Adjust(c, p)'
    BY <1>2
  <2>2. ASSUME NEW q \in Node, IsMain(q)', HasRhs(q)', Link(Lhs(q), q)' \/ Placing(Lhs(q))'
        PROVE  Link(Rhs(q), q)'
    <3>1. PICK y : y = Lhs(q)'
      OBVIOUS
    <3>2. Link(y, q)' \/ Placing(y)'
      BY <2>2, <3>1 DEF Link, Placing
    <3>3. y = new /\ q = m
      BY <1>2, <3>2
    <3> QED BY <1>3, <3>1, <3>3
  <2>3. \A n, q \in Node : Placing(n)' /\ IsParent(q, n)' => Placing(q)' \/ Adjust(n, q)'
    BY <1>2
  <2>4. ASSUME NEW n \in Node, scope'[n] # NoNode, Placing(scope[n])' PROVE ~Necessary(n)'
    <3>1. PICK s : s = scope'[n]
      OBVIOUS
    <3>2. Placing(s)'
      BY <2>4, <3>1 DEF Placing
    <3> QED BY <1>2, <3>2
  <2> QED BY <2>1, <2>2, <2>3, <2>4 DEF Opening
<1> QED BY <1>4, <1>5

\* The run leaves the heights, and adds no link.
LEMMA RunHighEnded ==
  ASSUME NEW rank, NEW b \in Node, NEW m \in Node, NEW new \in Node, NEW l, NEW of, NEW M, NEW old,
         TypeOK, Inv(rank), HighInv(rank), Ran(rank, b, m, M, new, l, of, old), Built(b, m, M, new, l, of)
  PROVE  High' /\ Ended'
<1>1. High /\ Links /\ Observers
  BY DEF HighInv, Inv
<1>2. /\ UNCHANGED <<valid, height>> /\ \A d, n, p : ~Called(d, n, p)
      /\ \A k \in Node : Necessary(k)' <=> Necessary(k)
      /\ \A q, k \in Node : IsParent(q, k)' => IsParent(q, k)
  BY DEF Ran, Relinked
<1>3. \A n \in Node : Necessary(n) => n \notin M
  <2>1. /\ \A c, p \in Node : IsParent(p, c) <=> valid[p] /\ Necessary(p) /\ Child(c, p)
        /\ \A n \in Node : Necessary(n) => n \notin M
    BY <1>1, RunBefore, Zenon
  <2> QED BY <2>1
<1>4. /\ \A n \in Node \ M : scope'[n] = scope[n]
      /\ \A n, k \in Node : InRun(k, n)' <=> IF n = b THEN k \in M ELSE n \notin M /\ InRun(k, n)
  BY DEF Built
<1>5. High'
  <2>1. ASSUME NEW c \in Node, NEW p \in Node, IsParent(p, c)' PROVE Rising(c, p)'
    <3>1. height[c] < height[p]
      BY <1>1, <1>2, <2>1 DEF High, Rising, Placing, Unlink, Adjust
    <3> QED BY <1>2, <3>1 DEF Rising
  <2>2. ASSUME NEW n \in Node, Necessary(n)', Scoped(n)' PROVE ScopeHeight(n)' < height'[n]
    <3>1. Necessary(n) /\ n \notin M /\ scope'[n] = scope[n]
      BY <1>2, <1>3, <1>4, <2>2
    <3>2. Scoped(n)
      BY <1>2, <1>4, <2>2, <3>1 DEF Scoped
    <3>3. ScopeHeight(n) < height[n]
      BY <1>1, <3>1, <3>2 DEF High
    <3> QED BY <1>2, <3>1, <3>3 DEF ScopeHeight
  <2>3. \A n \in Node : height'[n] >= -1
    BY <1>1, <1>2 DEF High
  <2> QED BY <2>1, <2>2, <2>3 DEF High
<1>6. Ended'
  <2>1. \A d, k, q : Called(d, k, q)' <=> RunCall(b, m, old, new, created[b], d, k, q)
    BY DEF Ran
  <2>2. \A n : ~Marked(n)' /\ ~Called("lower", n, NoNode)'
    BY <2>1 DEF RunCall, Marked
  <2> QED BY <2>2 DEF Ended
<1> QED BY <1>5, <1>6

\* The two nodes of a bind that the last run made are both about to be invalidated.
LEMMA RunFates ==
  ASSUME NEW rank, NEW b \in Node, NEW m \in Node, NEW new \in Node, NEW l, NEW of, NEW M, NEW old,
         TypeOK, Inv(rank), HighInv(rank), Ran(rank, b, m, M, new, l, of, old), Built(b, m, M, new, l, of)
  PROVE  Fates'
<1>1. Graph /\ Uses /\ Fates /\ Validity
  BY DEF HighInv, Inv
<1>2. IsMain(m) /\ valid' = valid /\ \A d, n, p : ~Called(d, n, p)
  BY DEF Ran
<1>3. \A n : Dying(n)' <=> InRun(n, b) /\ old # <<>>
  <2>1. \A d, k, q : Called(d, k, q)' <=> RunCall(b, m, old, new, created[b], d, k, q)
    BY DEF Ran
  <2> QED BY <2>1 DEF RunCall, Marked, Dying, InRun
<1>4. \A n : ~Dying(n)
  BY <1>2 DEF Dying, Marked
<1>5. \A n \in Node : InRun(n, b) => scope[n] = b /\ Exists(n)
  BY <1>1 DEF Graph, Created
<1>6. /\ \A n \in M : ~Exists(n) /\ n \in Node
      /\ \A n \in M : IsMain(n)' => l \in M /\ Lhs(n)' = l
  BY DEF Built
<1>7. ASSUME NEW q \in M, IsMain(q)' PROVE q \in Node /\ Fated(q)'
  <2>1. Lhs(q)' = l /\ l \in Node /\ ~Exists(l) /\ q \in Node
    BY <1>6, <1>7
  <2>2. valid[l] /\ ~Dying(l)'
    BY <1>1, <1>3, <1>5, <2>1 DEF Validity
  <2>3. valid'[l]
    BY <1>2, <2>2
  <2>4. ~Dying(Lhs(q))'
    BY <2>1, <2>2 DEF Dying, Marked
  <2> QED BY <2>1, <2>3, <2>4 DEF Fated
<1>8. ASSUME NEW q \in Node, q \notin M, IsMain(q)' PROVE Fated(q)'
  <2>1. PICK y, x \in Node :
           /\ IsMain(q) /\ y \notin M /\ x \notin M /\ kind[y] = "Lhs" /\ y # m
           /\ y = Lhs(q) /\ y = Lhs(q)' /\ x = Lhs(y) /\ x = Lhs(y)' /\ x = Input(q) /\ x = Input(q)'
           /\ (IsMain(x)' <=> IsMain(x)) /\ (IsMain(x) => Lhs(x)' = Lhs(x))
           /\ Child(y, q) /\ Child(x, y)
    BY <1>1, <1>2, <1>8, RunMain
  <2>2. valid[q] /\ ~valid[y] => ~valid[x]
    BY <1>1, <1>4, <2>1 DEF Fates, Fated
  <2>3. Dying(y)' => Dying(q)'
    <3> SUFFICES ASSUME InRun(y, b), old # <<>> PROVE InRun(q, b)
      BY <1>3
    <3>1. scope[y] = b /\ b # NoNode
      BY <1>5, <2>1, NodeAssumption
    <3>2. scope[q] = b
      BY <1>1, <2>1, <3>1 DEF Uses
    <3>3. InRun(Lhs(q), scope[q]) /\ scope[q] # NoNode
      BY <2>1, <3>1, <3>2
    <3>4. InRun(q, scope[q])
      BY <1>1, <2>1, <3>3 DEF Uses
    <3> QED BY <3>2, <3>4
  <2>4. valid'[q] /\ ~valid'[y] => ~valid'[x]
    BY <1>2, <2>2
  <2>5. Dying(Lhs(q))' => Dying(y)'
    BY <2>1 DEF Dying, Marked
  <2> QED BY <2>1, <2>3, <2>4, <2>5 DEF Fated
<1>9. ASSUME NEW q \in Node, IsMain(q)' PROVE Fated(q)'
  <2>1. CASE q \in M
    BY <1>7, <1>9, <2>1
  <2>2. CASE q \notin M
    BY <1>8, <1>9, <2>2
  <2> QED BY <2>1, <2>2
<1> QED BY <1>9 DEF Fates

LEMMA RunTurning ==
  ASSUME NEW rank \in [Node -> Nat], NEW b \in Node, NEW m \in Node, NEW new \in Node, NEW l, NEW of, NEW M,
         NEW old, TypeOK, Inv(rank), HighInv(rank), Ran(rank, b, m, M, new, l, of, old),
         Built(b, m, M, new, l, of), NEW r \in [Node -> Nat], r = Rerank(rank, b, M, new)
  PROVE  Turning(r)'
<1>1. Graph /\ Uses /\ Links /\ Observers /\ Ranked(rank)
  BY DEF HighInv, Inv
<1>2. /\ kind[b] = "Lhs" /\ IsMain(m) /\ Lhs(m) = b /\ valid[m] /\ Necessary(m) /\ m # b
      /\ valid[b] /\ Necessary(b) /\ rank[b] < rank[m] /\ invalidated' = <<>>
      /\ \A x : x \in Range(old) <=> HasRhs(m) /\ x = Rhs(m)
      /\ \A q, k \in Node : IsParent(q, k)' <=> IsParent(q, k) /\ ~(k \in Range(old) /\ q = m /\ old # <<new>>)
      /\ \A k : k \in forced' <=> k \in Range(old) /\ old # <<new>>
  BY DEF Ran, Relinked
<1>3. /\ \A c, p : Adjust(c, p)' <=> c = new /\ p = m /\ old # <<new>>
      /\ \A c, p : Link(c, p)' <=> c = new /\ p = m /\ old # <<new>>
      /\ \A n : Called("invalidate", n, NoNode)' <=> InRun(n, b) /\ old # <<>>
      /\ \A n : Called("release", n, NoNode)' => old # <<new>>
  <2>1. \A d, k, q : Called(d, k, q)' <=> RunCall(b, m, old, new, created[b], d, k, q)
    BY DEF Ran
  <2> QED BY <2>1 DEF RunCall, Link, Adjust, InRun
<1>4. /\ \A n \in M : ~Exists(n)
      /\ \A n \in Node \ M : scope'[n] = scope[n] /\ (IsMain(n)' <=> IsMain(n))
      /\ b \notin M /\ m \notin M /\ Lhs(m)' = b /\ HasRhs(m)' /\ Rhs(m)' = new
  BY DEF Built, Lhs
<1>5. \A c, p \in Node : IsParent(p, c) <=> valid[p] /\ Necessary(p) /\ Child(c, p)
  <2>1. /\ \A c, p \in Node : IsParent(p, c) <=> valid[p] /\ Necessary(p) /\ Child(c, p)
        /\ \A n \in Node : Necessary(n) => n \notin M
    BY <1>1, RunBefore, Zenon
  <2> QED BY <2>1
<1>6. IsMain(m)'
  BY <1>2, <1>4
<1>7. PICK y, x \in Node :
           /\ IsMain(m) /\ y \notin M /\ x \notin M /\ kind[y] = "Lhs" /\ y # m
           /\ y = Lhs(m) /\ y = Lhs(m)' /\ x = Lhs(y) /\ x = Lhs(y)' /\ x = Input(m) /\ x = Input(m)'
           /\ (IsMain(x)' <=> IsMain(x)) /\ (IsMain(x) => Lhs(x)' = Lhs(x))
           /\ Child(y, m) /\ Child(x, y)
  BY <1>1, <1>2, <1>4, <1>6, RunMain
<1>8. y = b
  BY <1>2, <1>7
<1>9. IsParent(m, Lhs(m))' /\ IsParent(Lhs(m), Input(m))'
  <2>1. b \notin Range(old)
    <3>1. HasRhs(m) => kind[Rhs(m)] # "Lhs"
      BY <1>1, <1>2, MainChildren
    <3> QED BY <1>2, <3>1
  <2>2. IsParent(m, b)' /\ IsParent(b, x)'
    BY <1>2, <1>5, <1>7, <1>8, <2>1
  <2> QED BY <1>7, <1>8, <2>2 DEF IsParent
<1>10. ~Placing(Lhs(m))'
  <2>1. \A d, k, q : Called(d, k, q)' <=> RunCall(b, m, old, new, created[b], d, k, q)
    BY DEF Ran
  <2> QED BY <2>1 DEF RunCall, Placing
<1>11. \A n \in Range(invalidated') : r[n] <= r[m]
  BY <1>2, NothingOrdered
<1>12. ASSUME NEW n \in Node, Called("invalidate", n, NoNode)' PROVE scope'[n] = b /\ r[n] < r[m]
  <2>1. InRun(n, b)
    BY <1>3, <1>12
  <2>2. scope[n] = b /\ Exists(n)
    BY <1>1, <2>1 DEF Graph, Created
  <2>3. n \notin M /\ scope'[n] = b
    BY <1>4, <2>2
  <2>4. rank[n] < rank[m]
    <3>1. RankedAt(rank, m)
      BY <1>1, <1>2 DEF Ranked, IsMain, Exists
    <3>2. InRun(n, Lhs(m))
      BY <1>2, <2>1
    <3> QED BY <1>2, <3>1, <3>2 DEF RankedAt
  <2>5. r[n] < r[m]
    <3>1. \A j, k \in Node : j \notin M /\ k \notin M /\ rank[j] < rank[k] => r[j] < r[k]
      BY RerankFacts
    <3> QED BY <1>4, <2>3, <2>4, <3>1
  <2> QED BY <2>3, <2>5
<1>13. ASSUME NEW o \in forced' PROVE UsedFrom(o, m)'
  <2>1. HasRhs(m) /\ o = Rhs(m)
    BY <1>2, <1>13
  <2> QED BY <1>1, <1>2, <1>4, <1>6, <2>1, RunUsedFrom
<1>14. Relinking(r, new, m)'
  <2>1. \A n \in Node : Called("invalidate", n, NoNode)' => scope'[n] = Lhs(m)' /\ r[n] < r[m]
    BY <1>4, <1>12
  <2>2. \A k, q \in Node : Link(k, q)' => r[q] <= r[m]
    BY <1>3
  <2> QED BY <1>4, <1>6, <1>9, <1>10, <1>11, <1>13, <2>1, <2>2 DEF Relinking
<1>15. \A c, q \in Node : Adjust(c, q)' => Relinking(r, c, q)'
  BY <1>3, <1>14
<1>16. ASSUME Starting' PROVE Adjust(new, m)'
  <2>1. PICK d \in Linking : \E n, p : Called(d, n, p)'
    BY <1>16 DEF Starting
  <2>2. PICK n, p : Called(d, n, p)'
    BY <2>1
  <2>3. RunCall(b, m, old, new, created[b], d, n, p)
    BY <2>2 DEF Ran
  <2>4. old # <<new>>
    BY <2>3 DEF RunCall, Linking
  <2> QED BY <1>3, <2>4
<1> QED BY <1>15, <1>16 DEF Turning

LEMMA RecomputeLhsHigh ==
  ASSUME NEW rank \in [Node -> Nat], TypeOK, Inv(rank), HighInv(rank), NEW b, IsNext(b), ~RecomputePanics(b),
         RecomputeLhs(b)
  PROVE  \E r \in [Node -> Nat] : Inv(r)' /\ HighInv(r)'
<1>1. b \in Node /\ TypedBuild
      /\ \E m, new, l \in Node, of \in Top : \E M, old : Ran(rank, b, m, M, new, l, of, old)
  BY RunFacts, Zenon
<1>2. PICK m \in Node, new \in Node, l \in Node, of \in Top :
        \E M, old : Ran(rank, b, m, M, new, l, of, old)
  BY <1>1
<1>3. PICK M, old : Ran(rank, b, m, M, new, l, of, old)
  BY <1>2
<1>4. Graph /\ Uses
  BY DEF Inv, HighInv
<1>5. Built(b, m, M, new, l, of)
  <2>1. /\ kind[b] = "Lhs" /\ IsMain(m) /\ Lhs(m) = b /\ m # b /\ rank[b] < rank[m]
        /\ Building(rank, b, m, M, new, l, of)
    BY <1>3 DEF Ran
  <2> QED BY <1>1, <1>4, <2>1, BuiltFacts
<1>6. PICK r \in [Node -> Nat] : r = Rerank(rank, b, M, new)
  BY <1>1, RerankFacts
<1>7. Inv(r)'
  BY <1>1, <1>3, <1>5, <1>6, RunInv
<1>8. Uses'
  BY <1>1, <1>3, <1>4, <1>5, RunUses
<1>9. Lined(calls)' /\ Opening'
  BY <1>1, <1>3, <1>4, <1>5, RunLined
<1>10. High' /\ Ended' /\ Fates'
  BY <1>1, <1>3, <1>5, RunHighEnded, RunFates
<1>11. Turning(r)'
  BY <1>1, <1>3, <1>5, <1>6, RunTurning
<1> QED BY <1>7, <1>8, <1>9, <1>10, <1>11 DEF HighInv

-----------------------------------------------------------------------------
(***************************************************************************)
(* Every step keeps the heights right.                                     *)
(***************************************************************************)
LEMMA InitHigh ==
  ASSUME Init, NEW rank
  PROVE  HighInv(rank)
<1>1. Graph /\ TypeOK
  BY InitGraph, InitTyped
<1>2. calls = <<>> /\ observed = {} /\ forced = {} /\ invalidated = <<>>
  BY Zenon DEF Init
<1>3. \A n \in Node : /\ valid[n] /\ parents[n] = <<>> /\ created[n] = <<>>
                      /\ height[n] = -1 /\ scope[n] = NoNode
  BY DEF Init
<1>4. /\ \A d, n, p : ~Called(d, n, p)
      /\ \A n \in Node : ~Necessary(n)
      /\ \A p, c \in Node : ~IsParent(p, c)
      /\ \A b, n \in Node : ~InRun(n, b)
  <2>1. \A d, n, p : ~Called(d, n, p)
    BY <1>2, Idle
  <2>2. \A p, c \in Node : ~IsParent(p, c)
    BY <1>3, NothingOrdered, Zenon DEF IsParent
  <2>3. \A b, n \in Node : ~InRun(n, b)
    BY <1>3, NothingOrdered, Zenon DEF InRun
  <2>4. \A n \in Node : ~Necessary(n)
    BY <1>2, <1>3 DEF Necessary
  <2> QED BY <2>1, <2>2, <2>3, <2>4
<1>5. ASSUME NEW m \in Node, IsMain(m) PROVE Lhs(m) \in Node /\ ~HasRhs(m)
  <2>1. m \in Top /\ children[m] = TopChildren[m]
    BY <1>5 DEF Init, IsMain
  <2>2. m \notin VarNode
    BY <1>5, <2>1 DEF Init, IsMain, VarNode
  <2>3. TopChildren[m] \in Seq(Top) /\ Len(TopChildren[m]) = 1
    BY <2>1, <2>2, TopAssumption
  <2>4. TopChildren[m][1] \in Top
    BY <2>3
  <2> QED BY <2>1, <2>3, <2>4 DEF Lhs, HasRhs, Node
<1>6. Uses
  <2>1. \A n \in Node : scope[n] # n
    BY <1>3, NodeAssumption
  <2>2. \A n \in Fresh : n \in Node /\ kind[n] = "None"
    BY NodeAssumption DEF Init, Node
  <2>3. \A m \in Node : IsMain(m) => scope[Lhs(m)] = scope[m]
    BY <1>3, <1>5
  <2> QED BY <1>3, <1>5, <2>1, <2>2, <2>3 DEF Uses
<1>7. Lined(calls) /\ Opening /\ Turning(rank)
  <2>1. ~Busy
    BY <1>4 DEF Busy, Starting, Adjust
  <2> QED BY <1>1, <2>1, QuietFacts DEF TypeOK
<1>8. High
  BY <1>3, <1>4 DEF High
<1>9. Ended
  BY <1>4 DEF Ended, Marked
<1>10. Fates
  <2>1. \A n : ~Dying(n)
    BY <1>4 DEF Dying, Marked
  <2> QED BY <1>3, <1>5, <2>1 DEF Fates, Fated
<1> QED BY <1>6, <1>7, <1>8, <1>9, <1>10 DEF HighInv

\* A step that changes nothing.
LEMMA HighInvKept ==
  ASSUME NEW rank, HighInv(rank),
         UNCHANGED <<made, children, created, valid, values, height, links, invalidated, turn, calls>>
  PROVE  HighInv(rank)'
<1>1. UNCHANGED <<kind, scope, children, created, valid, height, parents, observed, forced, invalidated, calls>>
  BY DEF made, links
<1>2. /\ Uses /\ Lined(calls) /\ Opening /\ High /\ Ended /\ Fates /\ Turning(rank)
  BY DEF HighInv
<1>3. /\ \A d, n, p : Called(d, n, p)' <=> Called(d, n, p)
      /\ \A n : Necessary(n)' <=> Necessary(n)
      /\ \A n, b : InRun(n, b)' <=> InRun(n, b)
      /\ \A p, c : IsParent(p, c)' <=> IsParent(p, c)
  BY <1>1 DEF Called, Necessary, InRun, IsParent
<1>4. Uses'
  BY <1>1, <1>2, UsesKept
<1>5. Lined(calls)'
  BY <1>1, <1>2 DEF Lined, InLine, Lhs
<1>6. Opening'
  BY <1>1, <1>2, <1>3 DEF Opening, Link, Placing, Adjust, IsMain, HasRhs, Lhs, Rhs
<1>7. High'
  BY <1>1, <1>2, <1>3 DEF High, Rising, Scoped, ScopeHeight, Placing, Unlink, Adjust
<1>8. Ended'
  BY <1>1, <1>2, <1>3 DEF Ended, Marked
<1>9. Fates'
  BY <1>1, <1>2, <1>3 DEF Fates, Fated, Dying, Marked, IsMain, Input, Lhs, Busy, Starting, Adjust
<1>10. Turning(rank)'
  BY <1>1, <1>2, <1>3 DEF Turning, Relinking, UsedFrom, IsMain, HasRhs, Input, Lhs, Rhs, Placing, Link,
                          Starting, Adjust
<1> QED BY <1>4, <1>5, <1>6, <1>7, <1>8, <1>9, <1>10 DEF HighInv

LEMMA ProceedHigh ==
  ASSUME NEW rank \in [Node -> Nat], TypeOK, Inv(rank), HighInv(rank), Proceed
  PROVE  HighInv(rank)'
<1>1. PICK n, p : Makes(n, p)
  BY ProceedMakes
<1> QED BY <1>1, AddObserverHigh, RemoveObserverHigh, AddParentHigh, PlaceHigh, RemoveParentHigh,
           ReleaseHigh, InvalidateNodeHigh, LowerHigh, DrainHigh, MarkInvalidHigh,
           PropagateInvalidityHigh, AdjustHeightsHigh, QueueIfOlderHigh, ChangeHigh, DropHigh,
           Zenon DEF Makes

LEMMA RecomputeHigh ==
  ASSUME NEW rank \in [Node -> Nat], TypeOK, Inv(rank), HighInv(rank), ~panicked', NEW n, Recompute(n)
  PROVE  \E r \in [Node -> Nat] : Inv(r)' /\ HighInv(r)'
<1>1. ~RecomputePanics(n) /\ IsNext(n) /\ (RecomputeValue(n) \/ RecomputeMain(n) \/ RecomputeLhs(n))
  BY DEF Recompute, Panic
<1>2. CASE RecomputeValue(n) \/ RecomputeMain(n)
  <2>1. Inv(rank)'
    BY <1>1, <1>2, RecomputeValueInv, RecomputeMainInv, Zenon
  <2>2. HighInv(rank)'
    BY <1>1, <1>2, RecomputeValueHigh, RecomputeMainHigh, Zenon
  <2> QED BY <2>1, <2>2
<1>3. CASE RecomputeLhs(n)
  BY <1>1, <1>3, RecomputeLhsHigh, Zenon
<1> QED BY <1>1, <1>2, <1>3

LEMMA NextHigh ==
  ASSUME NEW rank \in [Node -> Nat], TypeOK, Inv(rank), HighInv(rank), VarsLive, Next, ~panicked'
  PROVE  \E r \in [Node -> Nat] : Inv(r)' /\ HighInv(r)'
<1>0. ~panicked
  BY DEF Next
<1>1. CASE \E v \in VarNode, x \in Bit : SetVar(v, x)
  <2>1. PICK v \in VarNode, x \in Bit : SetVar(v, x)
    BY <1>1
  <2>2. Inv(rank)'
    BY <2>1, SetVarInv DEF VarsLive
  <2>3. HighInv(rank)'
    BY <2>1, SetVarHigh, Zenon
  <2> QED BY <2>2, <2>3
<1>2. CASE \E n \in Range(Observable) : ToggleObserver(n)
  <2>1. Inv(rank)' /\ HighInv(rank)'
    BY <1>2, ToggleObserverInv, ToggleObserverHigh, Zenon
  <2> QED BY <2>1
<1>3. CASE StabiliseStart
  <2>1. Inv(rank)' /\ HighInv(rank)'
    BY <1>3, StabiliseStartInv, StabiliseStartHigh, Zenon
  <2> QED BY <2>1
<1>4. CASE \E n \in Node : Recompute(n)
  BY <1>4, RecomputeHigh, Zenon
<1>5. CASE Proceed
  <2>1. Inv(rank)' /\ HighInv(rank)'
    BY <1>0, <1>5, ProceedInv, ProceedHigh, Zenon
  <2> QED BY <2>1
<1>6. CASE StabiliseEnd
  <2>1. Inv(rank)' /\ HighInv(rank)'
    BY <1>6, StabiliseEndInv, StabiliseEndHigh, Zenon
  <2> QED BY <2>1
<1> QED BY <1>1, <1>2, <1>3, <1>4, <1>5, <1>6, Zenon DEF Next

\* The inductive invariant, with what is true of the heights.
HInv ==
  TypeOK /\ (~panicked => VarsLive /\ \E rank \in [Node -> Nat] : Inv(rank) /\ HighInv(rank))

LEMMA InitHInv == Init => HInv
BY InitTyped, InitInv, InitHigh, Zenon DEF HInv

LEMMA NextHInv == HInv /\ [Next]_vars => HInv'
<1>1. ASSUME HInv, Next PROVE HInv'
  <2>1. ~panicked
    BY <1>1 DEF Next
  <2>2. PICK rank \in [Node -> Nat] : Inv(rank) /\ HighInv(rank)
    BY <1>1, <2>1 DEF HInv
  <2>3. TypeOK /\ VarsLive
    BY <1>1, <2>1 DEF HInv
  <2>4. TypeOK' /\ VarsLive'
    BY <1>1, <2>2, <2>3, NextTyped, Zenon
  <2>5. ~panicked' => \E r \in [Node -> Nat] : Inv(r)' /\ HighInv(r)'
    BY <1>1, <2>2, <2>3, NextHigh, Zenon
  <2> QED BY <2>4, <2>5, Zenon DEF HInv
<1>2. ASSUME HInv, UNCHANGED vars PROVE HInv'
  <2>1. TypeOK'
    BY <1>2 DEF HInv, TypeOK, vars, made, values, links, turn, user
  <2>2. ASSUME ~panicked'
        PROVE  VarsLive' /\ \E rank \in [Node -> Nat] : Inv(rank)' /\ HighInv(rank)'
    <3>1. ~panicked
      BY <1>2, <2>2 DEF vars
    <3>2. VarsLive /\ TypeOK
      BY <1>2, <3>1 DEF HInv
    <3>3. PICK rank \in [Node -> Nat] : Inv(rank) /\ HighInv(rank)
      BY <1>2, <3>1 DEF HInv
    <3>4. UNCHANGED <<made, children, created, valid, values, height, links, invalidated, turn, calls>>
          /\ heap' = heap
      BY <1>2 DEF vars
    <3>5. Inv(rank)'
      BY <3>2, <3>3, <3>4, UserInv, Zenon
    <3>6. HighInv(rank)'
      BY <3>3, <3>4, HighInvKept, Zenon
    <3>7. VarsLive'
      BY <3>2, <3>4, VarsLiveKept DEF VarsLive
    <3> QED BY <3>5, <3>6, <3>7
  <2> QED BY <2>1, <2>2 DEF HInv
<1> QED BY <1>1, <1>2

LEMMA HeightsInvariance == Spec => []HInv
BY InitHInv, NextHInv, PTL DEF Spec

(***************************************************************************)
(* Whenever no call is under way, a node is higher than each child that it *)
(* is linked to, and than the lhs-change node whose closure made it: what  *)
(* became_necessary, add_parent and adjust_heights set is enough for the   *)
(* recompute heap to run a node after what it depends on, however binds    *)
(* are nested and chained, and whatever their right-hand sides become.     *)
(***************************************************************************)
THEOREM HeightsHold == Spec => []HeightsRight
<1>1. HInv => HeightsRight
  <2> SUFFICES ASSUME HInv, ~panicked, calls = <<>> PROVE Respected(Above, height)
    BY DEF HeightsRight
  <2>1. TypeOK
    BY DEF HInv
  <2>2. PICK rank \in [Node -> Nat] : Inv(rank) /\ HighInv(rank)
    BY DEF HInv
  <2>3. Graph /\ Ranked(rank) /\ Links /\ High
    BY <2>2 DEF Inv, HighInv
  <2>4. Above \in [Node -> SUBSET Node]
    BY <2>1, <2>3, AboveRanked
  <2>5. \A d, n, p : ~Called(d, n, p)
    BY Idle
  <2>6. \A k, q \in Node : IsParent(q, k) => height[k] < height[q]
    BY <2>3, <2>5 DEF High, Rising, Placing, Unlink, Adjust
  <2>7. ASSUME NEW c \in Node, NEW n \in Above[c] PROVE height[c] < height[n]
    <3>1. n \in Node
      BY <2>4, <2>7
    <3>2. Above[c] = Range(parents[c]) \union
                       IF valid[c] THEN {k \in Range(created[c]) \ {NoNode} : Necessary(k)} ELSE {}
      BY DEF Above
    <3>3. CASE n \in Range(parents[c])
      BY <2>6, <3>1, <3>3 DEF IsParent
    <3>4. CASE valid[c] /\ n \in Range(created[c]) /\ Necessary(n)
      <4>1. InRun(n, c) /\ scope[n] = c /\ c # NoNode
        BY <2>3, <3>1, <3>4, NodeAssumption DEF InRun, Graph, Created
      <4>2. ScopeHeight(n) < height[n]
        BY <2>3, <3>1, <3>4, <4>1 DEF High, Scoped
      <4> QED BY <4>1, <4>2 DEF ScopeHeight
    <3> QED BY <2>7, <3>2, <3>3, <3>4
  <2>8. DOMAIN Above = Node
    BY <2>4
  <2> QED BY <2>7, <2>8 DEF Respected
<1> QED BY <1>1, HeightsInvariance, PTL
=============================================================================
