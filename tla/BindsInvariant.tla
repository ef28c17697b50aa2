--------------------------- MODULE BindsInvariant ----------------------------
(***************************************************************************)
(* The inductive invariant of Binds, and the steps of the calls that link, *)
(* unlink, invalidate and drop nodes and of the run of a closure, which    *)
(* renews the rank: each of them keeps it.  BindsProofs has the steps of   *)
(* the user and the theorems.                                              *)
(*                                                                         *)
(* The functions of node.rs call one another while the graph is between    *)
(* two consistent states.  What holds in between is said with the stack of *)
(* the calls that are still to be made: a node that lacks a link to its    *)
(* child has the call of add_parent ahead of it, a link of a node that is  *)
(* no longer necessary the call of remove_parent, a valid node of an old   *)
(* run the call of invalidate_node.  For that to be enough the stack must  *)
(* be in an order that no call breaks (Stack): what is linked is linked    *)
(* from the top of the graph down, what is invalidated likewise, and the   *)
(* two do not mix.  "Down" is measured by a rank, not by the height of the *)
(* nodes, which is not yet right during these calls: the rank of a node    *)
(* never changes while it exists, and the nodes that a closure makes are   *)
(* given ranks between the bind's lhs-change node and its main node.       *)
(***************************************************************************)
EXTENDS Binds, FiniteSetTheorems, WellFoundedInduction, TLAPS

-----------------------------------------------------------------------------
(***************************************************************************)
(* Numbers and finite sets.                                                *)
(***************************************************************************)
LEMMA LeastElement ==
  ASSUME NEW T \in SUBSET Nat, T # {}
  PROVE  \E x \in T : \A y \in T : x <= y
<1> DEFINE R == OpToRel(<, Nat)
<1>0. T \subseteq Nat
  OBVIOUS
<1>1. IsWellFoundedOn(R, Nat)
  BY NatLessThanWellFounded, Zenon
<1>2. \A x, y \in Nat : y < x => <<y, x>> \in R
  <2> SUFFICES ASSUME NEW x \in Nat, NEW y \in Nat, y < x
               PROVE  <<y, x>> \in {ss \in Nat \X Nat : ss[1] < ss[2]}
    BY Zenon DEF OpToRel
  <2> QED OBVIOUS
<1> HIDE DEF R
<1>3. PICK x \in T : \A y \in T : <<y, x>> \notin R
  BY <1>1, <1>0, WFMin, Zenon
<1>4. \A y \in T : ~(y < x)
  BY <1>0, <1>2, <1>3, Zenon
<1>5. \A y \in T : x <= y
  BY <1>0, <1>4
<1> QED BY <1>5

LEMMA Induction ==
  ASSUME NEW P, 0 \in P, \A i \in Nat : i \in P => i + 1 \in P
  PROVE  \A i \in Nat : i \in P
<1> DEFINE T == {i \in Nat : i \notin P}
<1>1. SUFFICES ASSUME T # {} PROVE FALSE
  OBVIOUS
<1>2. PICK x \in T : \A y \in T : x <= y
  <2>1. T \in SUBSET Nat
    OBVIOUS
  <2> HIDE DEF T
  <2> QED BY <1>1, <2>1, LeastElement
<1>3. x - 1 \in Nat
  BY <1>2
<1>4. x - 1 \in P
  BY <1>2, <1>3
<1>5. (x - 1) + 1 \in P /\ (x - 1) + 1 = x
  BY <1>3, <1>4
<1> QED BY <1>2, <1>5

\* A finite set of numbers that is not empty has a greatest element.
LEMMA Greatest ==
  ASSUME NEW S, IsFiniteSet(S), S # {}, NEW f, \A x \in S : f[x] \in Int
  PROVE  \E m \in S : \A x \in S : f[x] <= f[m]
<1> DEFINE len == Cardinality(S)
<1>0. len \in Nat /\ ExistsBijection(1 .. len, S)
  BY FS_CardinalityType
<1> HIDE DEF len
<1>1. PICK s \in [1 .. len -> S] : \A x \in S : \E i \in 1 .. len : s[i] = x
  BY <1>0 DEF ExistsBijection, Bijection, Surjection
<1>2. len \in Nat /\ \A i \in 1 .. len : s[i] \in S
  BY <1>0, <1>1
<1> DEFINE UpTo(k) == \E m \in S : \A i \in 1 .. k : i <= len => f[s[i]] <= f[m]
           P == {k \in Nat : UpTo(k)}
<1>3. 0 \in P
  OBVIOUS
<1>4. \A k \in Nat : k \in P => k + 1 \in P
  <2> SUFFICES ASSUME NEW k \in Nat, UpTo(k) PROVE UpTo(k + 1)
    OBVIOUS
  <2>1. PICK m \in S : \A i \in 1 .. k : i <= len => f[s[i]] <= f[m]
    OBVIOUS
  <2>2. CASE k + 1 <= len /\ f[s[k + 1]] > f[m]
    <3>1. k + 1 \in 1 .. len
      BY <1>2, <2>2
    <3>2. s[k + 1] \in S /\ f[s[k + 1]] \in Int /\ f[m] \in Int
      BY <1>2, <3>1
    <3>3. \A i \in 1 .. k + 1 : i <= len => f[s[i]] <= f[s[k + 1]]
      <4> SUFFICES ASSUME NEW i \in 1 .. k + 1, i <= len PROVE f[s[i]] <= f[s[k + 1]]
        OBVIOUS
      <4>1. f[s[i]] \in Int
        BY <1>2
      <4>2. CASE i = k + 1
        BY <4>1, <4>2
      <4>3. CASE i \in 1 .. k
        BY <4>1, <4>3, <2>1, <2>2, <3>2
      <4> QED BY <4>2, <4>3
    <3> QED BY <3>2, <3>3
  <2>3. CASE ~(k + 1 <= len /\ f[s[k + 1]] > f[m])
    <3>1. \A i \in 1 .. k + 1 : i <= len => f[s[i]] <= f[m]
      <4> SUFFICES ASSUME NEW i \in 1 .. k + 1, i <= len PROVE f[s[i]] <= f[m]
        OBVIOUS
      <4>1. f[s[i]] \in Int /\ f[m] \in Int
        BY <1>2
      <4>2. CASE i = k + 1
        BY <4>1, <4>2, <2>3
      <4>3. CASE i \in 1 .. k
        BY <4>3, <2>1
      <4> QED BY <4>2, <4>3
    <3> QED BY <3>1
  <2> QED BY <2>2, <2>3
<1>5. len \in P
  <2> HIDE DEF P
  <2> QED BY <1>2, <1>3, <1>4, Induction
<1>6. PICK m \in S : \A i \in 1 .. len : i <= len => f[s[i]] <= f[m]
  BY <1>5
<1> QED BY <1>1, <1>6

-----------------------------------------------------------------------------
(***************************************************************************)
(* LeastHeights: what adjust_heights reaches when no cycle goes up.        *)
(***************************************************************************)
\* The bounds that LeastHeights takes the greatest of.
Bounds(above, before, h, n) ==
  {before[n]} \union {h[c] + 1 : c \in {d \in DOMAIN above : n \in above[d]}}

GreatestOf(bounds) == CHOOSE h \in bounds : \A b \in bounds : b <= h

LEMMA GreatestOfBounds ==
  ASSUME NEW D, IsFiniteSet(D), NEW above \in [D -> SUBSET D], NEW before \in [D -> Int],
         NEW h \in [D -> Int], NEW n \in D
  PROVE  /\ GreatestOf(Bounds(above, before, h, n)) \in Bounds(above, before, h, n)
         /\ GreatestOf(Bounds(above, before, h, n)) \in Int
         /\ \A b \in Bounds(above, before, h, n) : b <= GreatestOf(Bounds(above, before, h, n))
<1> DEFINE below == {d \in D : n \in above[d]}
           B == Bounds(above, before, h, n)
<1>1. IsFiniteSet(below)
  BY FS_Subset
<1>2. B = {before[n]} \union {h[c] + 1 : c \in below}
  BY DEF Bounds
<1>3. \E m \in B : \A b \in B : b <= m
  <2>1. CASE below = {}
    BY <1>2, <2>1
  <2>2. CASE below # {}
    <3> HIDE DEF below
    <3>0. below \subseteq D
      BY DEF below
    <3>1. \A x \in below : h[x] \in Int
      BY <3>0
    <3>2. PICK m \in below : \A x \in below : h[x] <= h[m]
      BY <1>1, <2>2, <3>1, Greatest
    <3>3. before[n] \in Int /\ h[m] + 1 \in Int
      BY <3>1
    <3>4. CASE before[n] <= h[m] + 1
      <4>1. \A x \in below : h[x] + 1 <= h[m] + 1
        BY <3>1, <3>2
      <4>2. h[m] + 1 \in B
        BY <1>2
      <4> HIDE DEF B
      <4> QED BY <1>2, <3>4, <4>1, <4>2
    <3>5. CASE ~(before[n] <= h[m] + 1)
      <4>1. \A x \in below : h[x] + 1 <= before[n]
        BY <3>1, <3>2, <3>3, <3>5
      <4>2. before[n] \in B
        BY <1>2
      <4> HIDE DEF B
      <4> QED BY <1>2, <3>3, <4>1, <4>2
    <3> QED BY <3>4, <3>5
  <2> QED BY <2>1, <2>2
<1>4. B \subseteq Int
  BY <1>2
<1> HIDE DEF B
<1>5. GreatestOf(B) \in B /\ \A b \in B : b <= GreatestOf(B)
  BY <1>3, Zenon DEF GreatestOf
<1> QED BY <1>4, <1>5 DEF B

\* A function that satisfies the recursion exists when no cycle goes up.
LEMMA LeastHeightsRecursion ==
  ASSUME NEW D, IsFiniteSet(D), NEW above \in [D -> SUBSET D], NEW before \in [D -> Int],
         NEW rank \in [D -> Nat], \A c \in D : \A n \in above[c] : rank[c] < rank[n]
  PROVE  /\ LeastHeights(above, before) \in [D -> Int]
         /\ \A n \in D : LeastHeights(above, before)[n]
              = GreatestOf(Bounds(above, before, LeastHeights(above, before), n))
<1> DEFINE Value(f, n) == GreatestOf(Bounds(above, before, f, n))
           UpTo(k) == \E f \in [D -> Int] : \A n \in D : rank[n] < k => f[n] = Value(f, n)
           P == {k \in Nat : UpTo(k)}
<1>1. \A f \in [D -> Int], n \in D : Value(f, n) \in Int
  BY GreatestOfBounds
<1>2. 0 \in P
  <2>1. before \in [D -> Int] /\ \A n \in D : ~(rank[n] < 0)
    OBVIOUS
  <2> QED BY <2>1
<1>3. \A k \in Nat : k \in P => k + 1 \in P
  <2> SUFFICES ASSUME NEW k \in Nat, UpTo(k) PROVE UpTo(k + 1)
    OBVIOUS
  <2>1. PICK f \in [D -> Int] : \A n \in D : rank[n] < k => f[n] = Value(f, n)
    OBVIOUS
  <2> DEFINE g == [n \in D |-> Value(f, n)]
  <2>2. g \in [D -> Int]
    BY <1>1
  <2>3. \A n \in D : rank[n] < k + 1 => g[n] = Value(g, n)
    <3> SUFFICES ASSUME NEW n \in D, rank[n] < k + 1 PROVE g[n] = Value(g, n)
      OBVIOUS
    <3>1. \A c \in {d \in D : n \in above[d]} : g[c] = f[c]
      <4> SUFFICES ASSUME NEW c \in D, n \in above[c] PROVE g[c] = f[c]
        OBVIOUS
      <4>1. rank[c] < k
        <5>1. rank[c] < rank[n] /\ rank[c] \in Nat /\ rank[n] \in Nat
          OBVIOUS
        <5> QED BY <5>1
      <4> QED BY <2>1, <4>1
    <3>2. DOMAIN above = D
      OBVIOUS
    <3> HIDE DEF g
    <3>3. {f[c] + 1 : c \in {d \in D : n \in above[d]}} = {g[c] + 1 : c \in {d \in D : n \in above[d]}}
      BY <3>1
    <3>4. Bounds(above, before, f, n) = Bounds(above, before, g, n)
      BY <3>2, <3>3 DEF Bounds
    <3>5. g[n] = Value(f, n)
      BY DEF g
    <3> QED BY <3>4, <3>5
  <2> HIDE DEF g, Value
  <2> QED BY <2>2, <2>3
<1>4. \E K \in Nat : \A n \in D : rank[n] < K
  <2>1. CASE D = {}
    BY <2>1
  <2>2. CASE D # {}
    <3>1. \A x \in D : rank[x] \in Int
      OBVIOUS
    <3>2. PICK m \in D : \A x \in D : rank[x] <= rank[m]
      BY <2>2, <3>1, Greatest
    <3>3. rank[m] + 1 \in Nat /\ \A n \in D : rank[n] < rank[m] + 1
      BY <3>2
    <3> QED BY <3>3
  <2> QED BY <2>1, <2>2
<1>5. PICK K \in Nat : \A n \in D : rank[n] < K
  BY <1>4
<1>6. K \in P
  <2> HIDE DEF P
  <2> QED BY <1>2, <1>3, Induction
<1>7. PICK f \in [D -> Int] : \A n \in D : rank[n] < K => f[n] = Value(f, n)
  BY <1>6
<1>8. \A n \in D : f[n] = Value(f, n)
  BY <1>5, <1>7
<1> DEFINE Is(h) == h = [n \in DOMAIN above |-> Value(h, n)]
<1>9. Is(f)
  <2>1. f = [n \in D |-> f[n]] /\ DOMAIN above = D
    OBVIOUS
  <2> HIDE DEF Value
  <2> QED BY <2>1, <1>8
<1>10. LeastHeights(above, before) = CHOOSE h : Is(h)
  BY Zenon DEF LeastHeights, Bounds, GreatestOf
<1>11. Is(LeastHeights(above, before))
  <2> HIDE DEF Is
  <2> QED BY <1>9, <1>10, Zenon
<1> DEFINE h == LeastHeights(above, before)
<1>12. h = [n \in D |-> Value(h, n)]
  BY <1>11
<1> HIDE DEF h
<1>13. \A n \in D : h[n] = Value(h, n)
  <2> HIDE DEF Value
  <2> QED BY <1>12
<1>14. h \in [D -> Int]
  <2> DEFINE Q == {k \in Nat : \A n \in D : rank[n] < k => h[n] = f[n]}
  <2>1. 0 \in Q
    OBVIOUS
  <2>2. \A k \in Nat : k \in Q => k + 1 \in Q
    <3> SUFFICES ASSUME NEW k \in Nat, \A n \in D : rank[n] < k => h[n] = f[n], NEW n \in D,
                        rank[n] < k + 1
                 PROVE  h[n] = f[n]
      OBVIOUS
    <3>1. \A c \in {d \in D : n \in above[d]} : h[c] = f[c]
      <4> SUFFICES ASSUME NEW c \in D, n \in above[c] PROVE h[c] = f[c]
        OBVIOUS
      <4>1. rank[c] < k
        <5>1. rank[c] < rank[n] /\ rank[c] \in Nat /\ rank[n] \in Nat
          OBVIOUS
        <5> QED BY <5>1
      <4> QED BY <4>1
    <3>2. {f[c] + 1 : c \in {d \in D : n \in above[d]}} = {h[c] + 1 : c \in {d \in D : n \in above[d]}}
      BY <3>1
    <3>3. DOMAIN above = D
      OBVIOUS
    <3>4. Bounds(above, before, f, n) = Bounds(above, before, h, n)
      BY <3>2, <3>3 DEF Bounds
    <3> QED BY <3>4, <1>8, <1>13
  <2>3. K \in Q
    <3> HIDE DEF Q
    <3> QED BY <2>1, <2>2, Induction
  <2>4. \A n \in D : h[n] = f[n]
    BY <2>3, <1>5
  <2>5. h = [n \in D |-> f[n]]
    <3> HIDE DEF Value
    <3> QED BY <2>4, <1>12
  <2> QED BY <2>5
<1> QED BY <1>13, <1>14 DEF h

\* What the recursion means: the heights are respected, none is below the one before, and
\* none is higher than it has to be.
LEMMA LeastHeightsFacts ==
  ASSUME NEW D, IsFiniteSet(D), NEW above \in [D -> SUBSET D], NEW before \in [D -> Int],
         NEW rank \in [D -> Nat], \A c \in D : \A n \in above[c] : rank[c] < rank[n],
         NEW h, h = LeastHeights(above, before)
  PROVE  /\ h \in [D -> Int]
         /\ \A n \in D : before[n] <= h[n]
         /\ \A c \in D : \A n \in above[c] : h[c] < h[n]
         /\ \A n \in D : h[n] = before[n] \/ \E c \in D : n \in above[c] /\ h[n] = h[c] + 1
<1>1. h \in [D -> Int] /\ \A n \in D : h[n] = GreatestOf(Bounds(above, before, h, n))
  BY LeastHeightsRecursion
<1>2. \A n \in D : /\ h[n] \in Bounds(above, before, h, n)
                   /\ \A b \in Bounds(above, before, h, n) : b <= h[n]
  BY <1>1, GreatestOfBounds
<1>3. \A n \in D : before[n] <= h[n]
  BY <1>2 DEF Bounds
<1>4. \A c \in D : \A n \in above[c] : h[c] < h[n]
  <2> SUFFICES ASSUME NEW c \in D, NEW n \in above[c] PROVE h[c] < h[n]
    OBVIOUS
  <2>1. n \in D /\ h[c] + 1 \in Bounds(above, before, h, n)
    BY DEF Bounds
  <2>2. h[c] + 1 <= h[n] /\ h[c] \in Int /\ h[n] \in Int
    BY <1>1, <1>2, <2>1
  <2> QED BY <2>2
<1>5. \A n \in D : h[n] = before[n] \/ \E c \in D : n \in above[c] /\ h[n] = h[c] + 1
  BY <1>2 DEF Bounds
<1> QED BY <1>1, <1>3, <1>4, <1>5

(***************************************************************************)
(* LeastHeights is what it is said to be, when a rank shows that `above'   *)
(* has no cycle: heights that respect `above', nowhere lower than before,  *)
(* and the least such.  Binds uses it for the result of                    *)
(* AdjustHeightsHeap::adjust_heights, and AdjustHeights has it as the      *)
(* property of the loop.                                                   *)
(***************************************************************************)
THEOREM LeastHeightsCorrect ==
  ASSUME NEW D, IsFiniteSet(D), NEW above \in [D -> SUBSET D], NEW before \in [D -> Int],
         NEW rank \in [D -> Nat], \A c \in D : \A n \in above[c] : rank[c] < rank[n],
         NEW h, h = LeastHeights(above, before)
  PROVE  /\ h \in [D -> Int] /\ Respected(above, h) /\ \A n \in D : before[n] <= h[n]
         /\ \A g \in [D -> Int] : Respected(above, g) /\ (\A n \in D : before[n] <= g[n])
              => \A n \in D : h[n] <= g[n]
<1>1. /\ h \in [D -> Int]
      /\ \A n \in D : before[n] <= h[n]
      /\ \A c \in D : \A n \in above[c] : h[c] < h[n]
      /\ \A n \in D : h[n] = before[n] \/ \E c \in D : n \in above[c] /\ h[n] = h[c] + 1
  BY LeastHeightsFacts
<1>2. Respected(above, h)
  BY <1>1 DEF Respected
<1>3. ASSUME NEW g \in [D -> Int], Respected(above, g), \A n \in D : before[n] <= g[n]
      PROVE  \A n \in D : h[n] <= g[n]
  <2> DEFINE Higher == {n \in D : ~(h[n] <= g[n])}
             Ranks == {rank[n] : n \in Higher}
  <2> SUFFICES ASSUME Higher # {} PROVE FALSE
    OBVIOUS
  <2>1. PICK r \in Ranks : \A s \in Ranks : r <= s
    <3>1. Ranks \in SUBSET Nat /\ Ranks # {}
      OBVIOUS
    <3> HIDE DEF Ranks
    <3> QED BY <3>1, LeastElement
  <2>2. PICK n \in Higher : rank[n] = r
    BY <2>1
  <2>3. PICK c \in D : n \in above[c] /\ h[n] = h[c] + 1
    <3>1. n \in D /\ h[n] # before[n]
      BY <1>1, <1>3
    <3> QED BY <1>1, <3>1
  <2>4. rank[c] < rank[n] /\ rank[c] \in Nat /\ rank[n] \in Nat
    BY <2>3
  <2>5. c \notin Higher
    <3>1. c \in Higher => rank[c] \in Ranks
      OBVIOUS
    <3> HIDE DEF Ranks, Higher
    <3> QED BY <2>1, <2>2, <2>4, <3>1
  <2>6. g[c] < g[n]
    BY <1>3, <2>3 DEF Respected
  <2>7. h[c] <= g[c] /\ n \in D
    BY <2>5
  <2> QED BY <1>1, <2>2, <2>3, <2>6, <2>7
<1> QED BY <1>1, <1>2, <1>3

-----------------------------------------------------------------------------
(***************************************************************************)
(* The calls that are still to be made, and their order.                   *)
(***************************************************************************)
\* d of n, given p, is still to be made; and it is not the call that runs.
Called(d, n, p) == [do |-> d, node |-> n, with |-> p] \in Range(calls)
Waiting(d, n, p) == [do |-> d, node |-> n, with |-> p] \in Range(Tail(calls))

Linking == {"add_parent", "place"}
Ending == {"lower", "drain", "mark"}
Observing == {"add_observer", "remove_observer"}
Paired == {"add_parent", "remove_parent", "adjust_heights", "queue_if_older"}

\* The node whose links or whose end a call works on.
Of(f) == IF f.do \in {"add_parent", "remove_parent"} THEN f.with ELSE f.node

(***************************************************************************)
(* The call f may be made before the waiting call g.  Links are made for   *)
(* lower nodes first, since BecameNecessary puts the calls for a child     *)
(* before the rest of the node's own; heights are adjusted when all links  *)
(* are there; a node is marked invalid after all that its invalidation     *)
(* started, which is about nodes below it in rank, or made by its bind.    *)
(***************************************************************************)
Before(rank, f, g) ==
  /\ g.do \in Linking => f.do \in Linking /\ f # g /\ rank[Of(f)] <= rank[Of(g)]
  /\ g.do = "adjust_heights" => f.do \in Linking
  /\ g.do = "remove_parent" => f.do = "remove_parent" /\ f # g
  /\ g.do \in Ending =>
       /\ f.do \in Ending \union {"invalidate", "remove_parent"}
       /\ f.node # NoNode => rank[Of(f)] <= rank[g.node]
       /\ f.do \in {"invalidate", "mark"} /\ f.node # NoNode => rank[f.node] < rank[g.node]
  /\ f.do \in Observing => g.do \in Observing
  /\ f.do = "release" => g.do # "release"
  /\ f.do = "change" => g.do = "drop"
  /\ f.do # "drop"

Ordered(rank, s) == \A i, j \in DOMAIN s : i < j => Before(rank, s[i], s[j])
Stack(rank) == Ordered(rank, calls)

\* Calls that may find an invalid child or invalidate a node are followed by the loop of
\* propagate_invalidity.
Adding == {"add_parent", "invalidate", "drain", "mark"}
Heard(s) == \A i \in DOMAIN s : s[i].do \in Adding =>
  \E j \in DOMAIN s : i < j /\ s[j].do = "propagate_invalidity"
Covered == Heard(calls)

LEMMA RangeHasIndex ==
  ASSUME NEW S, NEW s \in Seq(S), NEW x \in Range(s)
  PROVE  x \in S /\ \E i \in 1 .. Len(s) : s[i] = x
<1>1. DOMAIN s = 1 .. Len(s) /\ \A i \in 1 .. Len(s) : s[i] \in S
  OBVIOUS
<1>2. \E i \in DOMAIN s : s[i] = x
  BY Zenon DEF Range
<1> QED BY <1>1, <1>2

LEMMA IndexInRange ==
  ASSUME NEW S, NEW s \in Seq(S), NEW i \in 1 .. Len(s)
  PROVE  s[i] \in Range(s)
<1>1. i \in DOMAIN s
  OBVIOUS
<1> QED BY <1>1, Zenon DEF Range

LEMMA HeadAndTail ==
  ASSUME NEW S, NEW s \in Seq(S), s # <<>>
  PROVE  /\ Head(s) \in S /\ Tail(s) \in Seq(S)
         /\ \A x : x \in Range(s) <=> x = Head(s) \/ x \in Range(Tail(s))
<1>1. Head(s) \in S /\ Tail(s) \in Seq(S) /\ Len(s) \in Nat \ {0} /\ Len(Tail(s)) = Len(s) - 1
      /\ \A i \in 1 .. Len(s) - 1 : Tail(s)[i] = s[i + 1]
  OBVIOUS
<1>2. ASSUME NEW x, x \in Range(s) PROVE x = Head(s) \/ x \in Range(Tail(s))
  <2>1. PICK i \in 1 .. Len(s) : s[i] = x
    BY <1>2, RangeHasIndex, IndexInRange
  <2>2. CASE i = 1
    BY <2>1, <2>2
  <2>3. CASE i # 1
    <3>1. i - 1 \in 1 .. Len(s) - 1 /\ (i - 1) + 1 = i
      BY <2>3, <1>1
    <3>2. Tail(s)[i - 1] = x /\ i - 1 \in 1 .. Len(Tail(s))
      BY <1>1, <2>1, <3>1
    <3> QED BY <1>1, <3>2, RangeHasIndex, IndexInRange
  <2> QED BY <2>2, <2>3
<1>3. ASSUME NEW x, x = Head(s) \/ x \in Range(Tail(s)) PROVE x \in Range(s)
  <2>1. CASE x = Head(s)
    <3>1. 1 \in 1 .. Len(s) /\ s[1] = x
      BY <1>1, <2>1
    <3>2. s[1] \in Range(s)
      BY <3>1, IndexInRange, Zenon
    <3> QED BY <3>1, <3>2
  <2>2. CASE x \in Range(Tail(s))
    <3>0. Tail(s) \in Seq(S) /\ x \in Range(Tail(s))
      BY <1>1, <2>2
    <3> DEFINE t == Tail(s)
    <3>1. PICK i \in 1 .. Len(t) : t[i] = x
      <4> HIDE DEF t
      <4>1. t \in Seq(S) /\ x \in Range(t)
        BY <3>0 DEF t
      <4> QED BY <4>1, RangeHasIndex
    <3>2. i + 1 \in 1 .. Len(s) /\ s[i + 1] = x
      BY <1>1, <3>1
    <3> QED BY <3>2, RangeHasIndex, IndexInRange
  <2> QED BY <1>3, <2>1, <2>2
<1> QED BY <1>1, <1>2, <1>3

LEMMA Concatenation ==
  ASSUME NEW S, NEW s \in Seq(S), NEW t \in Seq(S)
  PROVE  /\ s \o t \in Seq(S) /\ Len(s \o t) = Len(s) + Len(t)
         /\ \A i \in 1 .. Len(s) : (s \o t)[i] = s[i]
         /\ \A i \in Len(s) + 1 .. Len(s) + Len(t) : (s \o t)[i] = t[i - Len(s)]
         /\ \A x : x \in Range(s \o t) <=> x \in Range(s) \/ x \in Range(t)
<1>1. s \o t \in Seq(S) /\ Len(s \o t) = Len(s) + Len(t) /\ Len(s) \in Nat /\ Len(t) \in Nat
      /\ (\A i \in 1 .. Len(s) : (s \o t)[i] = s[i])
      /\ \A i \in Len(s) + 1 .. Len(s) + Len(t) : (s \o t)[i] = t[i - Len(s)]
  OBVIOUS
<1>2. ASSUME NEW x, x \in Range(s \o t) PROVE x \in Range(s) \/ x \in Range(t)
  <2>1. PICK i \in 1 .. Len(s) + Len(t) : (s \o t)[i] = x
    BY <1>1, <1>2, RangeHasIndex, IndexInRange
  <2>2. CASE i <= Len(s)
    <3>1. i \in 1 .. Len(s)
      BY <1>1, <2>2
    <3> QED BY <1>1, <2>1, <3>1, RangeHasIndex, IndexInRange
  <2>3. CASE ~(i <= Len(s))
    <3>1. i \in Len(s) + 1 .. Len(s) + Len(t) /\ i - Len(s) \in 1 .. Len(t)
      BY <1>1, <2>3
    <3> QED BY <1>1, <2>1, <3>1, RangeHasIndex, IndexInRange
  <2> QED BY <2>2, <2>3
<1>3. ASSUME NEW x, x \in Range(s) \/ x \in Range(t) PROVE x \in Range(s \o t)
  <2>1. CASE x \in Range(s)
    <3>1. PICK i \in 1 .. Len(s) : s[i] = x
      BY <2>1, RangeHasIndex, IndexInRange
    <3>2. i \in 1 .. Len(s \o t) /\ (s \o t)[i] = x
      BY <1>1, <3>1
    <3> QED BY <1>1, <3>2, RangeHasIndex, IndexInRange
  <2>2. CASE x \in Range(t)
    <3>1. PICK i \in 1 .. Len(t) : t[i] = x
      BY <2>2, RangeHasIndex, IndexInRange
    <3>2. i + Len(s) \in Len(s) + 1 .. Len(s) + Len(t) /\ (i + Len(s)) - Len(s) = i
      BY <1>1, <3>1
    <3>3. i + Len(s) \in 1 .. Len(s \o t) /\ (s \o t)[i + Len(s)] = x
      BY <1>1, <3>1, <3>2
    <3> QED BY <1>1, <3>3, RangeHasIndex, IndexInRange
  <2> QED BY <1>3, <2>1, <2>2
<1> QED BY <1>1, <1>2, <1>3

LEMMA OrderedTail ==
  ASSUME NEW rank, NEW S, NEW s \in Seq(S), s # <<>>, Ordered(rank, s)
  PROVE  Ordered(rank, Tail(s)) /\ \A g \in Range(Tail(s)) : Before(rank, Head(s), g)
<1>1. Tail(s) \in Seq(S) /\ Len(s) \in Nat \ {0} /\ Len(Tail(s)) = Len(s) - 1
      /\ Head(s) = s[1] /\ \A i \in 1 .. Len(s) - 1 : Tail(s)[i] = s[i + 1]
  OBVIOUS
<1>2. \A i, j \in 1 .. Len(s) : i < j => Before(rank, s[i], s[j])
  BY DEF Ordered
<1>3. ASSUME NEW i \in DOMAIN Tail(s), NEW j \in DOMAIN Tail(s), i < j
      PROVE  Before(rank, Tail(s)[i], Tail(s)[j])
  <2>1. i + 1 \in 1 .. Len(s) /\ j + 1 \in 1 .. Len(s) /\ i + 1 < j + 1
    BY <1>1, <1>3
  <2>2. Tail(s)[i] = s[i + 1] /\ Tail(s)[j] = s[j + 1]
    BY <1>1
  <2> QED BY <1>2, <2>1, <2>2
<1>4. ASSUME NEW g \in Range(Tail(s)) PROVE Before(rank, Head(s), g)
  <2>0. Tail(s) \in Seq(S) /\ g \in Range(Tail(s))
    BY <1>1, <1>4
  <2> DEFINE t == Tail(s)
  <2>1. PICK i \in 1 .. Len(t) : t[i] = g
    <3> HIDE DEF t
    <3>1. t \in Seq(S) /\ g \in Range(t)
      BY <2>0 DEF t
    <3> QED BY <3>1, RangeHasIndex
  <2>2. i + 1 \in 1 .. Len(s) /\ 1 \in 1 .. Len(s) /\ 1 < i + 1 /\ s[i + 1] = g
    BY <1>1, <2>1
  <2> QED BY <1>1, <1>2, <2>2
<1> QED BY <1>3, <1>4 DEF Ordered

LEMMA OrderedConcatenation ==
  ASSUME NEW rank, NEW S, NEW s \in Seq(S), NEW t \in Seq(S), Ordered(rank, s), Ordered(rank, t),
         \A f \in Range(s), g \in Range(t) : Before(rank, f, g)
  PROVE  Ordered(rank, s \o t)
<1>1. Len(s) \in Nat /\ Len(t) \in Nat /\ DOMAIN s = 1 .. Len(s) /\ DOMAIN t = 1 .. Len(t)
      /\ DOMAIN (s \o t) = 1 .. Len(s) + Len(t)
  BY Concatenation
<1>2. SUFFICES ASSUME NEW i \in 1 .. Len(s) + Len(t), NEW j \in 1 .. Len(s) + Len(t), i < j
               PROVE  Before(rank, (s \o t)[i], (s \o t)[j])
  BY <1>1 DEF Ordered
<1>3. CASE j <= Len(s)
  <2>1. i \in 1 .. Len(s) /\ j \in 1 .. Len(s)
    BY <1>1, <1>2, <1>3
  <2>2. (s \o t)[i] = s[i] /\ (s \o t)[j] = s[j]
    BY <2>1, Concatenation
  <2> QED BY <1>1, <1>2, <2>1, <2>2 DEF Ordered
<1>4. CASE i <= Len(s) /\ ~(j <= Len(s))
  <2>1. i \in 1 .. Len(s) /\ j \in Len(s) + 1 .. Len(s) + Len(t) /\ j - Len(s) \in 1 .. Len(t)
    BY <1>1, <1>2, <1>4
  <2>2. (s \o t)[i] = s[i] /\ (s \o t)[j] = t[j - Len(s)]
    BY <2>1, Concatenation
  <2>3. s[i] \in Range(s) /\ t[j - Len(s)] \in Range(t)
    BY <2>1, RangeHasIndex, IndexInRange
  <2> QED BY <2>2, <2>3
<1>5. CASE ~(i <= Len(s))
  <2>1. /\ i \in Len(s) + 1 .. Len(s) + Len(t) /\ i - Len(s) \in 1 .. Len(t)
        /\ j \in Len(s) + 1 .. Len(s) + Len(t) /\ j - Len(s) \in 1 .. Len(t)
        /\ i - Len(s) < j - Len(s)
    BY <1>1, <1>2, <1>5
  <2>2. (s \o t)[i] = t[i - Len(s)] /\ (s \o t)[j] = t[j - Len(s)]
    BY <2>1, Concatenation
  <2> QED BY <1>1, <2>1, <2>2 DEF Ordered
<1> QED BY <1>3, <1>4, <1>5

\* What a call that makes the calls of `first' and returns after them does to the stack.
LEMMA Turn ==
  ASSUME calls \in Seq(Call), calls # <<>>, NEW first \in Seq(Call), calls' = first \o Tail(calls)
  PROVE  /\ calls' \in Seq(Call)
         /\ \A d, n, p : Called(d, n, p) <=>
              Waiting(d, n, p) \/ Head(calls) = [do |-> d, node |-> n, with |-> p]
         /\ \A d, n, p : Called(d, n, p)' <=>
              Waiting(d, n, p) \/ [do |-> d, node |-> n, with |-> p] \in Range(first)
<1>1. Tail(calls) \in Seq(Call)
      /\ \A x : x \in Range(calls) <=> x = Head(calls) \/ x \in Range(Tail(calls))
  BY HeadAndTail
<1>2. calls' \in Seq(Call)
      /\ \A x : x \in Range(first \o Tail(calls)) <=> x \in Range(first) \/ x \in Range(Tail(calls))
  BY <1>1, Concatenation
<1>3. \A d, n, p : Called(d, n, p) <=>
        Waiting(d, n, p) \/ Head(calls) = [do |-> d, node |-> n, with |-> p]
  BY <1>1, Zenon DEF Called, Waiting
<1>4. \A d, n, p : Called(d, n, p)' <=>
        Waiting(d, n, p) \/ [do |-> d, node |-> n, with |-> p] \in Range(first)
  BY <1>2, Zenon DEF Called, Waiting
<1> QED BY <1>2, <1>3, <1>4

LEMMA StackPush ==
  ASSUME NEW rank, calls \in Seq(Call), calls # <<>>, Stack(rank), NEW first \in Seq(Call),
         calls' = first \o Tail(calls), Ordered(rank, first),
         \A f \in Range(first), g \in Range(Tail(calls)) :
           g \in Call /\ Before(rank, Head(calls), g) => Before(rank, f, g)
  PROVE  Stack(rank)'
<1>1. Tail(calls) \in Seq(Call) /\ Ordered(rank, Tail(calls))
      /\ \A g \in Range(Tail(calls)) : Before(rank, Head(calls), g)
  BY HeadAndTail, OrderedTail DEF Stack
<1>2. \A g \in Range(Tail(calls)) : g \in Call
  BY <1>1, RangeHasIndex, IndexInRange
<1>3. \A f \in Range(first), g \in Range(Tail(calls)) : Before(rank, f, g)
  BY <1>1, <1>2
<1>4. Ordered(rank, first \o Tail(calls))
  BY <1>1, <1>3, OrderedConcatenation
<1> QED BY <1>4 DEF Stack

LEMMA StackPop ==
  ASSUME NEW rank, calls \in Seq(Call), calls # <<>>, Stack(rank), calls' = Tail(calls)
  PROVE  Stack(rank)'
BY OrderedTail DEF Stack

LEMMA HeardTail ==
  ASSUME NEW S, NEW s \in Seq(S), s # <<>>, Heard(s)
  PROVE  /\ Heard(Tail(s))
         /\ Head(s).do \in Adding => \E g \in Range(Tail(s)) : g.do = "propagate_invalidity"
<1>1. Tail(s) \in Seq(S) /\ Len(s) \in Nat \ {0} /\ Len(Tail(s)) = Len(s) - 1
      /\ Head(s) = s[1] /\ \A i \in 1 .. Len(s) - 1 : Tail(s)[i] = s[i + 1]
  OBVIOUS
<1>2. \A i \in 1 .. Len(s) : s[i].do \in Adding =>
        \E j \in 1 .. Len(s) : i < j /\ s[j].do = "propagate_invalidity"
  BY DEF Heard
<1>3. \A j \in 1 .. Len(s) : 1 < j => j - 1 \in 1 .. Len(Tail(s)) /\ Tail(s)[j - 1] = s[j]
  <2> SUFFICES ASSUME NEW j \in 1 .. Len(s), 1 < j
               PROVE  j - 1 \in 1 .. Len(Tail(s)) /\ Tail(s)[j - 1] = s[j]
    OBVIOUS
  <2>1. j - 1 \in 1 .. Len(s) - 1 /\ (j - 1) + 1 = j
    BY <1>1
  <2> QED BY <1>1, <2>1
<1>4. ASSUME NEW i \in 1 .. Len(Tail(s)), Tail(s)[i].do \in Adding
      PROVE  \E j \in 1 .. Len(Tail(s)) : i < j /\ Tail(s)[j].do = "propagate_invalidity"
  <2>1. i + 1 \in 1 .. Len(s) /\ s[i + 1].do \in Adding
    BY <1>1, <1>4
  <2>2. PICK j \in 1 .. Len(s) : i + 1 < j /\ s[j].do = "propagate_invalidity"
    BY <1>2, <2>1
  <2>3. 1 < j /\ i < j - 1
    BY <2>1, <2>2
  <2> QED BY <1>3, <2>2, <2>3
<1>5. ASSUME Head(s).do \in Adding
      PROVE  \E g \in Range(Tail(s)) : g.do = "propagate_invalidity"
  <2>1. 1 \in 1 .. Len(s)
    BY <1>1
  <2>2. PICK j \in 1 .. Len(s) : 1 < j /\ s[j].do = "propagate_invalidity"
    BY <1>1, <1>2, <1>5, <2>1
  <2>3. Tail(s)[j - 1] \in Range(Tail(s)) /\ Tail(s)[j - 1].do = "propagate_invalidity"
    BY <1>1, <1>3, <2>2, RangeHasIndex, IndexInRange
  <2> QED BY <2>3
<1> QED BY <1>1, <1>4, <1>5 DEF Heard

LEMMA HeardConcatenation ==
  ASSUME NEW S, NEW s \in Seq(S), NEW t \in Seq(S), Heard(t),
         \/ \A f \in Range(s) : f.do \notin Adding
         \/ \E g \in Range(t) : g.do = "propagate_invalidity"
         \/ Heard(s)
  PROVE  Heard(s \o t)
<1>1. Len(s) \in Nat /\ Len(t) \in Nat /\ DOMAIN s = 1 .. Len(s) /\ DOMAIN t = 1 .. Len(t)
      /\ DOMAIN (s \o t) = 1 .. Len(s) + Len(t)
  BY Concatenation
<1> DEFINE st == s \o t
<1>2. /\ \A i \in 1 .. Len(s) : st[i] = s[i]
      /\ \A i \in 1 .. Len(t) : st[i + Len(s)] = t[i]
  <2>1. \A i \in 1 .. Len(t) : i + Len(s) \in Len(s) + 1 .. Len(s) + Len(t) /\ (i + Len(s)) - Len(s) = i
    BY <1>1
  <2> QED BY <2>1, Concatenation
<1> HIDE DEF st
<1>3. SUFFICES ASSUME NEW i \in 1 .. Len(s) + Len(t), st[i].do \in Adding
               PROVE  \E j \in 1 .. Len(s) + Len(t) : i < j /\ st[j].do = "propagate_invalidity"
  BY <1>1 DEF Heard, st
<1>4. CASE i <= Len(s)
  <2>0. i \in 1 .. Len(s) /\ s[i].do \in Adding /\ s[i] \in Range(s)
    BY <1>1, <1>2, <1>3, <1>4, RangeHasIndex, IndexInRange
  <2>1. CASE \E g \in Range(t) : g.do = "propagate_invalidity"
    <3>1. PICK j \in 1 .. Len(t) : t[j].do = "propagate_invalidity"
      BY <2>1, RangeHasIndex, IndexInRange
    <3>2. j + Len(s) \in 1 .. Len(s) + Len(t) /\ i < j + Len(s)
      BY <1>1, <2>0
    <3> QED BY <1>2, <3>1, <3>2
  <2>2. CASE Heard(s)
    <3>1. PICK j \in 1 .. Len(s) : i < j /\ s[j].do = "propagate_invalidity"
      BY <1>1, <2>0, <2>2 DEF Heard
    <3>2. j \in 1 .. Len(s) + Len(t)
      BY <1>1
    <3> QED BY <1>2, <3>1, <3>2
  <2> QED BY <2>0, <2>1, <2>2
<1>5. CASE ~(i <= Len(s))
  <2>1. i - Len(s) \in 1 .. Len(t) /\ (i - Len(s)) + Len(s) = i
    BY <1>1, <1>5
  <2>2. t[i - Len(s)].do \in Adding
    BY <1>2, <1>3, <2>1
  <2>3. PICK j \in 1 .. Len(t) : i - Len(s) < j /\ t[j].do = "propagate_invalidity"
    BY <1>1, <2>1, <2>2 DEF Heard
  <2>4. j + Len(s) \in 1 .. Len(s) + Len(t) /\ i < j + Len(s)
    BY <1>1, <2>3
  <2> QED BY <1>2, <2>3, <2>4
<1> QED BY <1>4, <1>5

-----------------------------------------------------------------------------
(***************************************************************************)
(* Reading the graph and the calls; sequences.                             *)
(***************************************************************************)
Exists(n) == kind[n] # "None"
IsMain(m) == kind[m] = "Main"

\* The children of a main node.
Lhs(m) == children[m][1]
HasRhs(m) == Len(children[m]) = 2
Rhs(m) == children[m][2]

Child(c, p) == c \in Range(children[p])
InRun(n, b) == n \in Range(created[b])
IsParent(p, c) == p \in Range(parents[c])
Single(s) == \A i, j \in DOMAIN s : s[i] = s[j] => i = j

\* p is about to be linked to its child c, or unlinked from it.
Link(c, p) == Called("add_parent", c, p)
Unlink(c, p) == Called("remove_parent", c, p)

\* n is about to be placed above its children; is being invalidated; or will be.
Placing(n) == Called("place", n, NoNode)
Marked(n) == Called("mark", n, NoNode)
Dying(n) == Called("invalidate", n, NoNode) \/ Marked(n)

LEMMA SameCall ==
  ASSUME NEW d, NEW n, NEW p, NEW e, NEW k, NEW q
  PROVE  [do |-> d, node |-> n, with |-> p] = [do |-> e, node |-> k, with |-> q]
           <=> d = e /\ n = k /\ p = q
OBVIOUS

LEMMA CallFields ==
  ASSUME NEW f \in Call
  PROVE  /\ f = [do |-> f.do, node |-> f.node, with |-> f.with]
         /\ f.do \in Function /\ f.node \in Node \union {NoNode} /\ f.with \in Node \union {NoNode}
BY DEF Call

LEMMA CallMade ==
  ASSUME NEW d \in Function, NEW n \in Node \union {NoNode}, NEW p \in Node \union {NoNode}
  PROVE  [do |-> d, node |-> n, with |-> p] \in Call
BY DEF Call

LEMMA ElementInSet ==
  ASSUME NEW S, NEW s \in Seq(S), NEW x \in Range(s)
  PROVE  x \in S
BY RangeHasIndex

LEMMA EmptyRange ==
  ASSUME NEW S, NEW s \in Seq(S)
  PROVE  /\ s = <<>> => \A x : x \notin Range(s)
         /\ s # <<>> => \E x \in S : x \in Range(s)
<1>1. ASSUME NEW x, x \in Range(s) PROVE s # <<>>
  <2>1. PICK i \in 1 .. Len(s) : s[i] = x
    BY <1>1, RangeHasIndex
  <2> QED BY <2>1
<1>2. ASSUME s # <<>> PROVE \E x \in S : x \in Range(s)
  <2>1. 1 \in 1 .. Len(s) /\ s[1] \in S
    BY <1>2
  <2>2. s[1] \in Range(s)
    BY <2>1, IndexInRange, Zenon
  <2> QED BY <2>1, <2>2
<1> QED BY <1>1, <1>2

LEMMA AppendFacts ==
  ASSUME NEW S, NEW s \in Seq(S), NEW x \in S
  PROVE  /\ Append(s, x) \in Seq(S) /\ Append(s, x) # <<>>
         /\ \A y : y \in Range(Append(s, x)) <=> y \in Range(s) \/ y = x
         /\ Single(s) /\ x \notin Range(s) => Single(Append(s, x))
<1> DEFINE t == Append(s, x)
<1>1. t \in Seq(S) /\ Len(s) \in Nat /\ Len(t) = Len(s) + 1 /\ t[Len(s) + 1] = x
      /\ \A i \in 1 .. Len(s) : t[i] = s[i]
  OBVIOUS
<1>2. t # <<>>
  BY <1>1
<1> HIDE DEF t
<1>3. ASSUME NEW y, y \in Range(t) PROVE y \in Range(s) \/ y = x
  <2>1. PICK i \in 1 .. Len(t) : t[i] = y
    BY <1>1, <1>3, RangeHasIndex
  <2>2. CASE i = Len(s) + 1
    BY <1>1, <2>1, <2>2
  <2>3. CASE i # Len(s) + 1
    <3>1. i \in 1 .. Len(s) /\ s[i] = y
      BY <1>1, <2>1, <2>3
    <3> QED BY <3>1, IndexInRange
  <2> QED BY <2>2, <2>3
<1>4. ASSUME NEW y, y \in Range(s) \/ y = x PROVE y \in Range(t)
  <2>1. CASE y = x
    <3>1. Len(s) + 1 \in 1 .. Len(t) /\ t[Len(s) + 1] = y
      BY <1>1, <2>1
    <3> QED BY <1>1, <3>1, IndexInRange
  <2>2. CASE y \in Range(s)
    <3>1. PICK i \in 1 .. Len(s) : s[i] = y
      BY <2>2, RangeHasIndex
    <3>2. i \in 1 .. Len(t) /\ t[i] = y
      BY <1>1, <3>1
    <3> QED BY <1>1, <3>2, IndexInRange
  <2> QED BY <1>4, <2>1, <2>2
<1>5. ASSUME Single(s), x \notin Range(s) PROVE Single(t)
  <2>1. SUFFICES ASSUME NEW i \in 1 .. Len(t), NEW j \in 1 .. Len(t), t[i] = t[j] PROVE i = j
    BY <1>1 DEF Single
  <2>2. \A k \in 1 .. Len(s) : s[k] # x
    BY <1>5, IndexInRange
  <2>3. \A k \in 1 .. Len(t) : k = Len(s) + 1 \/ (k \in 1 .. Len(s) /\ t[k] = s[k] /\ t[k] # x)
    BY <1>1, <2>2
  <2>4. \A k, l \in 1 .. Len(s) : s[k] = s[l] => k = l
    BY <1>5 DEF Single
  <2> QED BY <1>1, <2>1, <2>3, <2>4
<1> QED BY <1>1, <1>2, <1>3, <1>4, <1>5 DEF t

LEMMA LastFacts ==
  ASSUME NEW S, NEW s \in Seq(S), s # <<>>
  PROVE  /\ Front(s) \in Seq(S) /\ Last(s) \in S
         /\ \A x : x \in Range(s) <=> x \in Range(Front(s)) \/ x = Last(s)
<1> DEFINE t == Front(s)
<1>1. /\ Len(s) \in Nat \ {0} /\ t \in Seq(S) /\ Len(t) = Len(s) - 1 /\ Last(s) = s[Len(s)]
      /\ Last(s) \in S
      /\ \A i \in 1 .. Len(s) - 1 : t[i] = s[i]
  <2>1. Len(s) \in Nat \ {0}
    OBVIOUS
  <2>2. Last(s) = s[Len(s)] /\ Last(s) \in S
    BY <2>1 DEF Last
  <2>3. Front(s) \in Seq(S) /\ Len(Front(s)) = Len(s) - 1 /\ \A i \in 1 .. Len(s) - 1 : Front(s)[i] = s[i]
    <3>1. Len(s) - 1 \in Nat /\ Len(s) - 1 <= Len(s)
      BY <2>1
    <3>2. \A i \in 1 .. Len(s) - 1 : s[i] \in S
      BY <2>1
    <3>3. Front(s) = [i \in 1 .. Len(s) - 1 |-> s[i]]
      BY <3>1, <2>1 DEF Front
    <3>4. Len([i \in 1 .. Len(s) - 1 |-> s[i]]) = Len(s) - 1
      BY <3>1
    <3> QED BY <3>1, <3>2, <3>3, <3>4
  <2> QED BY <2>1, <2>2, <2>3
<1> HIDE DEF t
<1>2. ASSUME NEW x, x \in Range(s) PROVE x \in Range(t) \/ x = Last(s)
  <2>0. x \in Range(s)
    BY <1>2
  <2>1. PICK i \in 1 .. Len(s) : s[i] = x
    BY <2>0, RangeHasIndex
  <2>2. CASE i = Len(s)
    BY <1>1, <2>1, <2>2
  <2>3. CASE i # Len(s)
    <3>1. i \in 1 .. Len(t) /\ t[i] = x
      BY <1>1, <2>1, <2>3
    <3> QED BY <1>1, <3>1, IndexInRange
  <2> QED BY <2>2, <2>3
<1>3. ASSUME NEW x, x \in Range(t) \/ x = Last(s) PROVE x \in Range(s)
  <2>1. CASE x = Last(s)
    <3>1. Len(s) \in 1 .. Len(s) /\ s[Len(s)] = x
      BY <1>1, <2>1
    <3> QED BY <3>1, IndexInRange
  <2>2. CASE x \in Range(t)
    <3>1. PICK i \in 1 .. Len(t) : t[i] = x
      BY <1>1, <2>2, RangeHasIndex
    <3>2. i \in 1 .. Len(s) /\ s[i] = x
      BY <1>1, <3>1
    <3> QED BY <3>2, IndexInRange
  <2> QED BY <1>3, <2>1, <2>2
<1> QED BY <1>1, <1>2, <1>3 DEF t

LEMMA WithoutFacts ==
  ASSUME NEW S, NEW s \in Seq(S), Single(s), NEW p \in Range(s)
  PROVE  /\ Without(s, p) \in Seq(S) /\ Single(Without(s, p))
         /\ \A x : x \in Range(Without(s, p)) <=> x \in Range(s) /\ x # p
<1> DEFINE at == CHOOSE i \in DOMAIN s : s[i] = p
           len == Len(s)
           t == Without(s, p)
<1>1. at \in 1 .. len /\ s[at] = p
  <2>1. \E i \in DOMAIN s : s[i] = p
    BY RangeHasIndex
  <2>2. at \in DOMAIN s /\ s[at] = p
    BY <2>1
  <2> QED BY <2>2
<1>2. len \in Nat \ {0} /\ s[len] \in S
  BY <1>1
<1>3. /\ t \in Seq(S) /\ Len(t) = len - 1
      /\ \A i \in 1 .. len - 1 : t[i] = IF i = at THEN s[len] ELSE s[i]
  <2> DEFINE r == [s EXCEPT ![at] = Last(s)]
  <2>1. r \in Seq(S) /\ Len(r) = len /\ \A i \in 1 .. len : r[i] = IF i = at THEN s[len] ELSE s[i]
    BY <1>1, <1>2 DEF Last
  <2>2. t = Front(r)
    BY DEF Without
  <2> HIDE DEF r, t
  <2>3. Front(r) \in Seq(S) /\ Len(Front(r)) = len - 1 /\ \A i \in 1 .. len - 1 : Front(r)[i] = r[i]
    BY <1>2, <2>1 DEF Front
  <2> QED BY <1>2, <2>1, <2>2, <2>3
<1> HIDE DEF at, t
<1>4. \A i, j \in 1 .. len : s[i] = s[j] => i = j
  BY DEF Single
<1>5. Single(t)
  <2>1. SUFFICES ASSUME NEW i \in 1 .. len - 1, NEW j \in 1 .. len - 1, t[i] = t[j] PROVE i = j
    BY <1>2, <1>3 DEF Single
  <2> QED BY <1>1, <1>2, <1>3, <1>4, <2>1
<1>6. ASSUME NEW x, x \in Range(t) PROVE x \in Range(s) /\ x # p
  <2>1. PICK i \in 1 .. len - 1 : t[i] = x
    BY <1>3, <1>6, RangeHasIndex
  <2>2. PICK j \in 1 .. len : s[j] = x /\ j # at
    BY <1>1, <1>2, <1>3, <2>1
  <2>3. x # p
    BY <1>1, <1>4, <2>2
  <2> QED BY <2>2, <2>3, IndexInRange
<1>7. ASSUME NEW x, x \in Range(s), x # p PROVE x \in Range(t)
  <2>1. PICK j \in 1 .. len : s[j] = x
    BY <1>7, RangeHasIndex
  <2>2. j # at
    BY <1>1, <1>7, <2>1
  <2>3. \E i \in 1 .. Len(t) : t[i] = x
    <3>1. CASE j = len
      <4>1. at \in 1 .. len - 1 /\ t[at] = x
        BY <1>1, <1>2, <1>3, <2>1, <2>2, <3>1
      <4> QED BY <1>3, <4>1
    <3>2. CASE j # len
      <4>1. j \in 1 .. len - 1 /\ t[j] = x
        BY <1>2, <1>3, <2>1, <2>2, <3>2
      <4> QED BY <1>3, <4>1
    <3> QED BY <3>1, <3>2
  <2> QED BY <1>3, <2>3, IndexInRange
<1> QED BY <1>3, <1>5, <1>6, <1>7 DEF t

LEMMA DoEachFacts ==
  ASSUME NEW f \in Function, NEW s \in Seq(Node \union {NoNode})
  PROVE  /\ DoEach(f, s) \in Seq(Call)
         /\ \A d, n, p : [do |-> d, node |-> n, with |-> p] \in Range(DoEach(f, s))
              <=> d = f /\ n \in Range(s) /\ p = NoNode
<1> DEFINE t == DoEach(f, s)
           N == Node \union {NoNode}
<1>1. /\ Len(s) \in Nat /\ DOMAIN s = 1 .. Len(s)
      /\ \A i \in 1 .. Len(s) : s[i] \in N
  OBVIOUS
<1>2. \A i \in 1 .. Len(s) : [do |-> f, node |-> s[i], with |-> NoNode] \in Call
  BY <1>1 DEF Call
<1>3. t = [i \in 1 .. Len(s) |-> [do |-> f, node |-> s[i], with |-> NoNode]]
  BY <1>1 DEF DoEach, Do
<1>4. t \in Seq(Call) /\ Len(t) = Len(s)
  BY <1>1, <1>2, <1>3
<1>5. \A i \in 1 .. Len(s) : t[i] = [do |-> f, node |-> s[i], with |-> NoNode]
  BY <1>3
<1> HIDE DEF t
<1>6. ASSUME NEW d, NEW n, NEW p, [do |-> d, node |-> n, with |-> p] \in Range(t)
      PROVE  d = f /\ n \in Range(s) /\ p = NoNode
  <2>1. PICK i \in 1 .. Len(s) : t[i] = [do |-> d, node |-> n, with |-> p]
    BY <1>4, <1>6, RangeHasIndex
  <2>2. d = f /\ n = s[i] /\ p = NoNode
    <3>1. [do |-> d, node |-> n, with |-> p] = [do |-> f, node |-> s[i], with |-> NoNode]
      BY <1>5, <2>1
    <3> QED BY <3>1, SameCall, Zenon
  <2>3. s[i] \in Range(s)
    BY IndexInRange
  <2> QED BY <2>2, <2>3
<1>7. ASSUME NEW n, n \in Range(s)
      PROVE  [do |-> f, node |-> n, with |-> NoNode] \in Range(t)
  <2>1. PICK i \in 1 .. Len(s) : s[i] = n
    BY <1>7, RangeHasIndex
  <2>2. t[i] \in Range(t)
    BY <1>4, IndexInRange
  <2> QED BY <1>5, <2>1, <2>2
<1> QED BY <1>4, <1>6, <1>7 DEF t

LEMMA ForChildrenFacts ==
  ASSUME NEW f \in Function, NEW n \in Node, children \in [Node -> Seq(Node)]
  PROVE  /\ ForChildren(f, n) \in Seq(Call)
         /\ \A d, c, p : [do |-> d, node |-> c, with |-> p] \in Range(ForChildren(f, n))
              <=> d = f /\ valid[n] /\ Child(c, n) /\ p = n
<1> DEFINE s == ChildrenOf(n)
           t == ForChildren(f, n)
<1>1. /\ s \in Seq(Node) /\ Len(s) \in Nat /\ DOMAIN s = 1 .. Len(s)
      /\ \A i \in 1 .. Len(s) : s[i] \in Node
  BY DEF ChildrenOf
<1>2. \A c : c \in Range(s) <=> valid[n] /\ Child(c, n)
  <2>1. CASE valid[n]
    BY <2>1 DEF ChildrenOf, Child
  <2>2. CASE ~valid[n]
    <3>1. s = <<>>
      BY <2>2 DEF ChildrenOf
    <3>2. \A c : c \notin Range(s)
      BY <3>1, <1>1, EmptyRange, Zenon
    <3> QED BY <2>2, <3>2
  <2> QED BY <2>1, <2>2
<1>3. t = [i \in 1 .. Len(s) |-> [do |-> f, node |-> s[i], with |-> n]]
  BY <1>1 DEF ForChildren, DoWith
<1> HIDE DEF s
<1>4. \A i \in 1 .. Len(s) : [do |-> f, node |-> s[i], with |-> n] \in Call
  BY <1>1 DEF Call
<1>5. t \in Seq(Call) /\ Len(t) = Len(s)
  BY <1>1, <1>3, <1>4
<1>6. \A i \in 1 .. Len(s) : t[i] = [do |-> f, node |-> s[i], with |-> n]
  BY <1>3
<1> HIDE DEF t
<1>7. ASSUME NEW d, NEW c, NEW p, [do |-> d, node |-> c, with |-> p] \in Range(t)
      PROVE  d = f /\ c \in Range(s) /\ p = n
  <2>1. PICK i \in 1 .. Len(s) : t[i] = [do |-> d, node |-> c, with |-> p]
    BY <1>5, <1>7, RangeHasIndex
  <2>2. d = f /\ c = s[i] /\ p = n
    <3>1. [do |-> d, node |-> c, with |-> p] = [do |-> f, node |-> s[i], with |-> n]
      BY <1>6, <2>1
    <3> QED BY <3>1, SameCall, Zenon
  <2>3. s[i] \in Range(s)
    BY <1>1, IndexInRange
  <2> QED BY <2>2, <2>3
<1>8. ASSUME NEW c, c \in Range(s)
      PROVE  [do |-> f, node |-> c, with |-> n] \in Range(t)
  <2>1. PICK i \in 1 .. Len(s) : s[i] = c
    BY <1>1, <1>8, RangeHasIndex
  <2>2. t[i] \in Range(t)
    BY <1>5, IndexInRange
  <2> QED BY <1>6, <2>1, <2>2
<1> QED BY <1>2, <1>5, <1>7, <1>8 DEF t

LEMMA OneCall ==
  ASSUME NEW f \in Call
  PROVE  <<f>> \in Seq(Call) /\ \A g : g \in Range(<<f>>) <=> g = f
<1>1. <<f>> \in Seq(Call) /\ Len(<<f>>) = 1 /\ <<f>>[1] = f
  OBVIOUS
<1> DEFINE s == <<f>>
<1> HIDE DEF s
<1>2. \A g : g \in Range(s) <=> g = f
  <2>1. ASSUME NEW g, g \in Range(s) PROVE g = f
    <3>1. PICK i \in 1 .. Len(s) : s[i] = g
      BY <1>1, <2>1, RangeHasIndex DEF s
    <3> QED BY <1>1, <3>1 DEF s
  <2>2. f \in Range(s)
    <3>1. s \in Seq(Call) /\ 1 \in 1 .. Len(s) /\ s[1] = f
      BY <1>1 DEF s
    <3> QED BY <3>1, IndexInRange
  <2> QED BY <2>1, <2>2
<1> QED BY <1>1, <1>2 DEF s

-----------------------------------------------------------------------------
(***************************************************************************)
(* The inductive invariant.                                                *)
(***************************************************************************)
\* A place among the top nodes for each closure: it uses only nodes before that place.
Reaches(reach) ==
  /\ \A b \in LhsNode : \A i \in DOMAIN TopNode : TopNode[i] = b => reach[TopCode[b]] <= i
  /\ \A c \in DOMAIN Program : \A v \in Bit :
       /\ \E i \in 1 .. reach[c] - 1 : Program[c][v].of = TopNode[i]
       /\ Program[c][v].op = "bind" => reach[Program[c][v].code] <= reach[c]

Reach == CHOOSE reach \in [DOMAIN Program -> DOMAIN TopNode] : Reaches(reach)

(***************************************************************************)
(* The graph: which nodes there are, and their children by kind.           *)
(***************************************************************************)
TopNodes == \A n \in Top :
  /\ kind[n] = TopKind[n] /\ scope[n] = NoNode
  /\ n \notin VarNode => Lhs(n) = TopChildren[n][1]

FreshNodes == \A n \in Fresh : kind[n] # "Var" /\ (Exists(n) => scope[n] \in Node)

NoNodes == \A n \in Node : ~Exists(n) =>
  children[n] = <<>> /\ created[n] = <<>> /\ scope[n] = NoNode

Shape(n) ==
  /\ kind[n] = "Var" => children[n] = <<>>
  /\ kind[n] \in {"Map", "Lhs"} => Len(children[n]) = 1 /\ kind[Lhs(n)] \notin {"None", "Lhs"}
  /\ kind[n] = "Lhs" => code[n] \in DOMAIN Program
  /\ kind[n] = "Main" => Len(children[n]) \in {1, 2} /\ kind[Lhs(n)] = "Lhs"
  /\ kind[n] = "Main" /\ Len(children[n]) = 2 => kind[Rhs(n)] \notin {"None", "Lhs"}
Shapes == \A n \in Node : Shape(n)

OneMain == \A m, k \in Node : IsMain(m) /\ IsMain(k) /\ Lhs(m) = Lhs(k) => m = k

\* all_nodes_created_on_rhs has nodes of the bind's own scope.
Created == \A b, n \in Node : InRun(n, b) => kind[b] = "Lhs" /\ Exists(n) /\ scope[n] = b

Graph == TopNodes /\ FreshNodes /\ NoNodes /\ Shapes /\ OneMain /\ Created

(***************************************************************************)
(* The graph has no cycle, neither of children nor through the scopes: a   *)
(* rank goes up from each node to what depends on it, from an lhs-change   *)
(* node to what it created, and from there to the main node.               *)
(***************************************************************************)
RankedAt(rank, n) ==
  /\ \A c \in Range(children[n]) : rank[c] < rank[n]
  /\ \A k \in Node : InRun(k, n) => rank[n] < rank[k]
  /\ IsMain(n) => \A k \in Node : InRun(k, Lhs(n)) => rank[k] < rank[n]
  /\ kind[n] = "Lhs" => \A i \in DOMAIN TopNode : i < Reach[code[n]] => rank[TopNode[i]] < rank[n]
Ranked(rank) == \A n \in Node : Exists(n) => RankedAt(rank, n)

\* What each function is called with.
CallTyped(f) ==
  /\ f.do \in {"propagate_invalidity", "drop"} => f.node = NoNode
  /\ f.do \notin {"propagate_invalidity", "drop", "invalidate"} => f.node # NoNode
  /\ f.do \in Paired <=> f.with # NoNode
  /\ f.do \in {"invalidate", "mark"} /\ f.node # NoNode => Exists(f.node)
  /\ f.do = "drain" => IsMain(f.node)
  /\ f.do = "change" => kind[f.node] = "Lhs"
  /\ f.do \in Observing => f.node \in Range(Observable)
CallsTyped == \A f \in Range(calls) : CallTyped(f)

(***************************************************************************)
(* A valid node that a closure made is kept by the main node of its bind,  *)
(* as the right-hand side or as the lhs-change node below it, and belongs  *)
(* to the last run; or it is about to be invalidated.  A bind whose main   *)
(* node is invalid has no nodes of its last run left.                      *)
(***************************************************************************)
Keeps(m, n) ==
  /\ IsMain(m) /\ Lhs(m) = scope[n] /\ HasRhs(m)
  /\ Rhs(m) = n \/ (IsMain(Rhs(m)) /\ Lhs(Rhs(m)) = n)
Homed(n) == InRun(n, scope[n]) /\ \E m \in Node : Keeps(m, n)

Emptied(m) ==
  IsMain(m) /\ (~valid[m] \/ (Marked(m) /\ ~Called("drain", m, NoNode))) => created[Lhs(m)] = <<>>

Validity ==
  /\ \A n \in Node : valid[n] \/ Exists(n)
  /\ \A n \in Fresh : Exists(n) /\ valid[n] => Dying(n) \/ Homed(n)
  /\ \A m \in Node : Emptied(m)

(***************************************************************************)
(* Valid necessary nodes are exactly the parents of their children, but    *)
(* for the links that are about to be made or undone.                      *)
(***************************************************************************)
Linked(c, p) ==
  /\ IsParent(p, c) =>
       /\ valid[p] /\ Child(c, p)
       /\ Necessary(p) \/ Unlink(c, p)
       /\ Marked(p) => Unlink(c, p)
  /\ valid[p] /\ Necessary(p) /\ Child(c, p) => IsParent(p, c) \/ Link(c, p) \/ Marked(p)
  /\ Link(c, p) => valid[p] /\ Necessary(p) /\ Child(c, p) /\ ~IsParent(p, c)
  /\ Unlink(c, p) => IsParent(p, c) /\ (~Necessary(p) \/ Marked(p))

Links ==
  /\ \A c, p \in Node : Linked(c, p)
  /\ \A c \in Node : Single(parents[c])
  /\ \A n \in Node : Placing(n) => Necessary(n)

\* force_necessary is on while change_child_bind_rhs runs, for the old right-hand side.
Observers ==
  /\ observed \subseteq Top \ LhsNode
  /\ \A o \in forced : forced = {o} /\ kind[o] \notin {"None", "Lhs"} /\ Called("release", o, NoNode)
  /\ \A o \in Node : Called("release", o, NoNode) => forced = {o}

Times ==
  /\ \A n \in Node : changedAt[n] <= now
  /\ \A n \in Node : Marked(n) => recomputedAt[n] = now
  /\ \A c, p \in Node : Called("queue_if_older", c, p) => valid[p] \/ recomputedAt[p] = now

(***************************************************************************)
(* What is in the recompute heap is necessary and valid, and between       *)
(* stabilisations only variables are.                                      *)
(***************************************************************************)
Queued(n) == n \in heap \union direct

Heaped(n) ==
  /\ Queued(n) => valid[n] /\ Necessary(n)
  /\ ~Necessary(n) => height[n] = -1 \/ ~valid[n] \/ Marked(n)
  /\ Called("lower", n, NoNode) => Marked(n)

Heap ==
  /\ \A n \in Node : Heaped(n)
  /\ \A n, k \in direct : n = k
  /\ direct # {} => \A f \in Range(calls) : f.do = "drop"
  /\ ~stabilising => direct = {} /\ calls = <<>> /\ heap \subseteq VarNode

(***************************************************************************)
(* A necessary valid node with an invalid child will hear of it, or is a   *)
(* main node that is queued to see whether its right-hand side has been    *)
(* replaced.                                                               *)
(***************************************************************************)
ToldOf(n, c) ==
  valid[n] /\ Necessary(n) /\ Child(c, n) /\ ~valid[c] =>
    \/ n \in Range(invalidated) \/ Link(c, n) \/ Dying(n)
    \/ IsMain(n) /\ c # Lhs(n) /\ Queued(n)

Told ==
  /\ \A n, c \in Node : ToldOf(n, c)
  /\ invalidated # <<>> => Called("propagate_invalidity", NoNode, NoNode)

\* The invariant, for a rank of the nodes.
Inv(rank) ==
  /\ Graph /\ Ranked(rank) /\ CallsTyped /\ Stack(rank) /\ Covered
  /\ Validity /\ Links /\ Observers /\ Times /\ Heap /\ Told

-----------------------------------------------------------------------------
(***************************************************************************)
(* A call that runs, and the calls that wait for it.                       *)
(***************************************************************************)
\* The running call is f of n, given p.
Runs(f, n, p) == calls # <<>> /\ Head(calls) = [do |-> f, node |-> n, with |-> p]

\* What the calls that wait for the running one can be.
Under(rank, f, n, p, d, k, q) ==
  /\ d \in Linking =>
       /\ f \in Linking /\ ~(f = d /\ n = k /\ p = q)
       /\ rank[IF f = "add_parent" THEN p ELSE n] <= rank[IF d = "add_parent" THEN q ELSE k]
  /\ d = "adjust_heights" => f \in Linking
  /\ d = "remove_parent" => f = "remove_parent" /\ ~(f = d /\ n = k /\ p = q)
  /\ d \in Ending =>
       /\ f \in Ending \union {"invalidate", "remove_parent"}
       /\ n # NoNode => rank[IF f = "remove_parent" THEN p ELSE n] <= rank[k]
       /\ f \in {"invalidate", "mark"} /\ n # NoNode => rank[n] < rank[k]
  /\ f \in Observing => d \in Observing
  /\ f = "release" => d # "release"
  /\ f = "change" => d = "drop"
  /\ f # "drop"

LEMMA BeforeUnder ==
  ASSUME NEW rank, NEW f, NEW n, NEW p, NEW d, NEW k, NEW q
  PROVE  Before(rank, [do |-> f, node |-> n, with |-> p], [do |-> d, node |-> k, with |-> q])
           <=> Under(rank, f, n, p, d, k, q)
<1> DEFINE g == [do |-> f, node |-> n, with |-> p]
           h == [do |-> d, node |-> k, with |-> q]
<1>1. g.do = f /\ g.node = n /\ g.with = p /\ h.do = d /\ h.node = k /\ h.with = q
  OBVIOUS
<1>2. g = h <=> f = d /\ n = k /\ p = q
  BY SameCall
<1> HIDE DEF g, h
<1>3. Before(rank, g, h) <=> Under(rank, f, n, p, d, k, q)
  BY <1>1, <1>2 DEF Before, Under, Of, Linking, Ending
<1> QED BY <1>3 DEF g, h

\* The calls before a step that runs f, by its caller and by what waits.
LEMMA Running ==
  ASSUME NEW rank, calls \in Seq(Call), Stack(rank), CallsTyped,
         NEW f, NEW n, NEW p, Runs(f, n, p)
  PROVE  /\ f \in Function /\ n \in Node \union {NoNode} /\ p \in Node \union {NoNode}
         /\ CallTyped([do |-> f, node |-> n, with |-> p])
         /\ \A d, k, q : Called(d, k, q) <=> Waiting(d, k, q) \/ (d = f /\ k = n /\ q = p)
         /\ \A d, k, q : Waiting(d, k, q) =>
              /\ d \in Function /\ k \in Node \union {NoNode} /\ q \in Node \union {NoNode}
              /\ CallTyped([do |-> d, node |-> k, with |-> q])
              /\ Under(rank, f, n, p, d, k, q)
<1> DEFINE h == [do |-> f, node |-> n, with |-> p]
<1>0. calls # <<>> /\ Head(calls) = h
  BY DEF Runs
<1>1. /\ h \in Call /\ Tail(calls) \in Seq(Call)
      /\ \A x : x \in Range(calls) <=> x = h \/ x \in Range(Tail(calls))
  BY <1>0, HeadAndTail
<1>2. f \in Function /\ n \in Node \union {NoNode} /\ p \in Node \union {NoNode}
  <2>1. h.do = f /\ h.node = n /\ h.with = p
    OBVIOUS
  <2> HIDE DEF h
  <2> QED BY <1>1, <2>1, CallFields
<1>3. CallTyped(h)
  BY <1>1, Zenon DEF CallsTyped
<1>4. \A d, k, q : Called(d, k, q) <=> Waiting(d, k, q) \/ (d = f /\ k = n /\ q = p)
  BY <1>1, SameCall, Zenon DEF Called, Waiting
<1>5. ASSUME NEW d, NEW k, NEW q, Waiting(d, k, q)
      PROVE  /\ d \in Function /\ k \in Node \union {NoNode} /\ q \in Node \union {NoNode}
             /\ CallTyped([do |-> d, node |-> k, with |-> q])
             /\ Under(rank, f, n, p, d, k, q)
  <2> DEFINE g == [do |-> d, node |-> k, with |-> q]
  <2>1. g \in Range(Tail(calls))
    BY <1>5 DEF Waiting
  <2>2. g \in Call
    <3> DEFINE t == Tail(calls)
    <3>1. t \in Seq(Call) /\ g \in Range(t)
      BY <1>1, <2>1
    <3> HIDE DEF g, t
    <3> QED BY <3>1, ElementInSet
  <2>3. d \in Function /\ k \in Node \union {NoNode} /\ q \in Node \union {NoNode}
    <3>1. g.do = d /\ g.node = k /\ g.with = q
      OBVIOUS
    <3> HIDE DEF g
    <3> QED BY <2>2, <3>1, CallFields
  <2>4. CallTyped(g)
    BY <1>1, <2>1, Zenon DEF CallsTyped
  <2>5. Before(rank, h, g)
    BY <1>0, <2>1, OrderedTail DEF Stack
  <2>6. Under(rank, f, n, p, d, k, q)
    BY <2>5, BeforeUnder, Zenon
  <2> QED BY <2>3, <2>4, <2>6
<1> QED BY <1>2, <1>3, <1>4, <1>5

LEMMA CallsTypedKept ==
  ASSUME UNCHANGED kind, CallsTyped,
         \A f \in Range(calls') : f \in Range(calls) \/ CallTyped(f)
  PROVE  CallsTyped'
<1>1. ASSUME NEW f, CallTyped(f) PROVE CallTyped(f)'
  BY <1>1 DEF CallTyped, Exists, IsMain
<1> QED BY <1>1 DEF CallsTyped

\* The running call returns.
LEMMA Return ==
  ASSUME NEW rank, calls \in Seq(Call), Stack(rank), CallsTyped, Covered,
         calls # <<>>, Returns, UNCHANGED kind
  PROVE  /\ calls' \in Seq(Call) /\ Stack(rank)' /\ CallsTyped' /\ Covered'
         /\ \A d, n, p : Called(d, n, p)' <=> Waiting(d, n, p)
<1>1. /\ Tail(calls) \in Seq(Call)
      /\ \A x : x \in Range(calls) <=> x = Head(calls) \/ x \in Range(Tail(calls))
  BY HeadAndTail
<1>2. calls' = Tail(calls)
  BY DEF Returns
<1>3. Stack(rank)'
  BY <1>2, StackPop
<1>4. CallsTyped'
  BY <1>1, <1>2, CallsTypedKept, Zenon
<1>5. Covered'
  BY <1>2, HeardTail DEF Covered
<1>6. \A d, n, p : Called(d, n, p)' <=> Waiting(d, n, p)
  BY <1>2 DEF Called, Waiting
<1> QED BY <1>1, <1>2, <1>3, <1>4, <1>5, <1>6

\* The running call makes the calls of `first'.
LEMMA Push ==
  ASSUME NEW rank, calls \in Seq(Call), Stack(rank), CallsTyped, Covered,
         NEW f, NEW n, NEW p, Runs(f, n, p), UNCHANGED kind,
         NEW first \in Seq(Call), Calls(first), Ordered(rank, first),
         \A e, j, o, d, k, q :
           /\ [do |-> e, node |-> j, with |-> o] \in Range(first)
           /\ d \in Function /\ k \in Node \union {NoNode} /\ q \in Node \union {NoNode}
           /\ Waiting(d, k, q) /\ Under(rank, f, n, p, d, k, q)
           => Under(rank, e, j, o, d, k, q),
         \A g \in Range(first) : CallTyped(g),
         \/ f \in Adding
         \/ \A g \in Range(first) : g.do \notin Adding
         \/ Heard(first)
  PROVE  /\ calls' \in Seq(Call) /\ Stack(rank)' /\ CallsTyped' /\ Covered'
         /\ \A d, k, q : Called(d, k, q)' <=>
              Waiting(d, k, q) \/ [do |-> d, node |-> k, with |-> q] \in Range(first)
<1> DEFINE h == [do |-> f, node |-> n, with |-> p]
           t == Tail(calls)
<1>0. calls # <<>> /\ Head(calls) = h /\ calls' = first \o t
  BY DEF Runs, Calls
<1>1. /\ t \in Seq(Call)
      /\ \A x : x \in Range(calls) <=> x = h \/ x \in Range(t)
  BY <1>0, HeadAndTail
<1>2. /\ calls' \in Seq(Call)
      /\ \A d, k, q : Called(d, k, q)' <=>
           Waiting(d, k, q) \/ [do |-> d, node |-> k, with |-> q] \in Range(first)
  BY <1>0, Turn, Zenon
<1>3. Stack(rank)'
  <2>1. ASSUME NEW g \in Range(first), NEW x \in Range(t), x \in Call, Before(rank, h, x)
        PROVE  Before(rank, g, x)
    <3>1. g \in Call
      BY ElementInSet
    <3>2. g = [do |-> g.do, node |-> g.node, with |-> g.with]
          /\ x = [do |-> x.do, node |-> x.node, with |-> x.with]
      BY <2>1, <3>1, CallFields
    <3>3. x.do \in Function /\ x.node \in Node \union {NoNode} /\ x.with \in Node \union {NoNode}
      BY <2>1, CallFields
    <3>4. Waiting(x.do, x.node, x.with)
      BY <2>1, <3>2, Zenon DEF Waiting
    <3>5. Under(rank, f, n, p, x.do, x.node, x.with)
      <4>1. Before(rank, h, [do |-> x.do, node |-> x.node, with |-> x.with])
        BY <2>1, <3>2, Zenon
      <4> QED BY <4>1, BeforeUnder, Zenon
    <3>6. [do |-> g.do, node |-> g.node, with |-> g.with] \in Range(first)
      BY <2>1, <3>2, Zenon
    <3>7. Under(rank, g.do, g.node, g.with, x.do, x.node, x.with)
      BY <3>3, <3>4, <3>5, <3>6, Zenon
    <3>8. Before(rank, [do |-> g.do, node |-> g.node, with |-> g.with],
                       [do |-> x.do, node |-> x.node, with |-> x.with])
      BY <3>7, BeforeUnder, Zenon
    <3> QED BY <3>2, <3>8, Zenon
  <2> HIDE DEF h, t
  <2>2. \A g \in Range(first), x \in Range(Tail(calls)) :
          x \in Call /\ Before(rank, Head(calls), x) => Before(rank, g, x)
    BY <1>0, <2>1, Zenon DEF t
  <2>3. calls' = first \o Tail(calls)
    BY <1>0 DEF t
  <2> QED BY <1>0, <2>2, <2>3, StackPush
<1>4. CallsTyped'
  <2>1. \A x : x \in Range(calls') <=> x \in Range(first) \/ x \in Range(t)
    <3> HIDE DEF t
    <3> QED BY <1>0, <1>1, Concatenation
  <2> QED BY <1>1, <2>1, CallsTypedKept, Zenon
<1>5. Covered'
  <2>1. Heard(t) /\ (h.do \in Adding => \E g \in Range(t) : g.do = "propagate_invalidity")
    BY <1>0, HeardTail, Zenon DEF Covered
  <2>2. h.do = f
    OBVIOUS
  <2> HIDE DEF h, t
  <2>3. Heard(first \o t)
    BY <1>1, <2>1, <2>2, HeardConcatenation
  <2> QED BY <1>0, <2>3 DEF Covered
<1> QED BY <1>2, <1>3, <1>4, <1>5

-----------------------------------------------------------------------------
(***************************************************************************)
(* What each part of the invariant depends on.                             *)
(***************************************************************************)
LEMMA GraphKept ==
  ASSUME NEW CONSTANT rank, UNCHANGED <<kind, scope, code, children, created>>, Graph, Ranked(rank)
  PROVE  Graph' /\ Ranked(rank)'
<1>1. TopNodes' /\ FreshNodes' /\ NoNodes'
  BY DEF Graph, TopNodes, FreshNodes, NoNodes, Exists, Lhs
<1>2. Shapes'
  BY DEF Graph, Shapes, Shape, Lhs, Rhs
<1>3. OneMain' /\ Created'
  BY DEF Graph, OneMain, Created, IsMain, Lhs, InRun, Exists
<1>4. Ranked(rank)'
  BY DEF Ranked, RankedAt, IsMain, Lhs, Exists, InRun
<1> QED BY <1>1, <1>2, <1>3, <1>4 DEF Graph

LEMMA ValidityKept ==
  ASSUME UNCHANGED <<kind, scope, children, created, valid>>, Validity,
         \A n \in Node : Marked(n)' <=> Marked(n),
         \A n \in Node : Called("drain", n, NoNode)' <=> Called("drain", n, NoNode),
         \A n \in Node : Called("invalidate", n, NoNode) /\ valid[n] => Dying(n)'
  PROVE  Validity'
<1>1. ASSUME NEW n \in Node, Homed(n) PROVE Homed(n)'
  BY <1>1 DEF Homed, InRun, Keeps, IsMain, Lhs, Rhs, HasRhs
<1>2. ASSUME NEW n \in Node, valid[n], Dying(n) PROVE Dying(n)'
  BY <1>2 DEF Dying
<1>3. \A n \in Node : Emptied(n)'
  BY DEF Validity, Emptied, IsMain, Lhs
<1>4. \A n \in Fresh : Exists(n)' /\ valid'[n] => Dying(n)' \/ Homed(n)'
  BY <1>1, <1>2 DEF Validity, Exists, Node
<1>5. \A n \in Node : valid'[n] \/ Exists(n)'
  BY DEF Validity, Exists
<1> QED BY <1>3, <1>4, <1>5 DEF Validity

LEMMA LinksKept ==
  ASSUME UNCHANGED <<children, valid, parents, observed, forced>>, Links,
         \A c, p \in Node : Link(c, p)' <=> Link(c, p),
         \A c, p \in Node : Unlink(c, p)' <=> Unlink(c, p),
         \A n \in Node : Marked(n)' <=> Marked(n),
         \A n \in Node : Placing(n)' => Placing(n)
  PROVE  Links'
<1>1. ASSUME NEW n \in Node PROVE Necessary(n)' <=> Necessary(n)
  BY DEF Necessary
<1>2. ASSUME NEW c \in Node, NEW p \in Node PROVE Linked(c, p)'
  <2>1. (IsParent(p, c)' <=> IsParent(p, c)) /\ (Child(c, p)' <=> Child(c, p)) /\ valid'[p] = valid[p]
    BY DEF IsParent, Child
  <2>2. Linked(c, p)
    BY DEF Links
  <2> QED BY <1>1, <2>1, <2>2, Zenon DEF Linked
<1>3. \A c \in Node : Single(parents[c])'
  BY DEF Links, Single
<1>4. \A n \in Node : Placing(n)' => Necessary(n)'
  BY <1>1 DEF Links
<1> QED BY <1>2, <1>3, <1>4 DEF Links

LEMMA ObserversKept ==
  ASSUME UNCHANGED <<kind, observed, forced>>, Observers,
         \A o : Called("release", o, NoNode)' <=> Called("release", o, NoNode)
  PROVE  Observers'
BY DEF Observers

LEMMA TimesKept ==
  ASSUME UNCHANGED <<changedAt, recomputedAt, now, valid>>, Times,
         \A n \in Node : Marked(n)' => Marked(n),
         \A c, p \in Node : Called("queue_if_older", c, p)' => Called("queue_if_older", c, p)
  PROVE  Times'
BY DEF Times

LEMMA ToldKept ==
  ASSUME UNCHANGED <<kind, children, valid, parents, observed, forced, invalidated>>, Told,
         \A n, c \in Node : Link(c, n) => Link(c, n)',
         \A n \in Node : Dying(n) /\ valid[n] => Dying(n)',
         \A n \in Node : IsMain(n) /\ Queued(n) /\ valid[n] => Queued(n)' \/ Dying(n)'
            \/ \A c \in Node : Child(c, n) => valid[c],
         Called("propagate_invalidity", NoNode, NoNode) =>
           Called("propagate_invalidity", NoNode, NoNode)' \/ invalidated = <<>>
  PROVE  Told'
<1>1. ASSUME NEW n \in Node, NEW c \in Node PROVE ToldOf(n, c)'
  <2>1. (Necessary(n)' <=> Necessary(n)) /\ (Child(c, n)' <=> Child(c, n)) /\ (IsMain(n)' <=> IsMain(n))
        /\ Lhs(n)' = Lhs(n) /\ valid'[n] = valid[n] /\ valid'[c] = valid[c]
    BY DEF Necessary, Child, IsMain, Lhs
  <2>2. ToldOf(n, c)
    BY DEF Told
  <2>3. n \in Range(invalidated)' <=> n \in Range(invalidated)
    OBVIOUS
  <2> QED BY <2>1, <2>2, <2>3 DEF ToldOf
<1>2. invalidated' # <<>> => Called("propagate_invalidity", NoNode, NoNode)'
  BY DEF Told
<1> QED BY <1>1, <1>2 DEF Told

\* Children exist, and an lhs-change node is the child of its main node only.
LEMMA Children ==
  ASSUME TypeOK, Graph, NEW p \in Node, NEW c, Child(c, p)
  PROVE  /\ c \in Node /\ Exists(c) /\ Exists(p) /\ kind[p] # "Var"
         /\ c = Lhs(p) \/ (IsMain(p) /\ HasRhs(p) /\ c = Rhs(p))
         /\ kind[c] = "Lhs" => IsMain(p) /\ c = Lhs(p)
<1>1. children[p] \in Seq(Node) /\ kind[p] \in {"None", "Var", "Map", "Lhs", "Main"} /\ Shape(p)
  BY DEF TypeOK, Graph, Shapes
<1>2. c \in Range(children[p])
  BY DEF Child
<1>3. children[p] # <<>>
  BY <1>1, <1>2, EmptyRange
<1>4. Exists(p) /\ kind[p] # "Var"
  BY <1>1, <1>3 DEF Graph, NoNodes, Shape
<1>5. PICK i \in 1 .. Len(children[p]) : c = children[p][i]
  BY <1>1, <1>2, RangeHasIndex
<1>6. CASE kind[p] \in {"Map", "Lhs"}
  <2>1. i = 1
    BY <1>1, <1>5, <1>6 DEF Shape
  <2> QED BY <1>1, <1>4, <1>5, <1>6, <2>1 DEF Shape, Exists, Lhs
<1>7. CASE kind[p] = "Main"
  <2>1. Len(children[p]) \in {1, 2} /\ (i = 1 \/ (i = 2 /\ Len(children[p]) = 2))
    BY <1>1, <1>5, <1>7 DEF Shape
  <2> QED BY <1>1, <1>4, <1>5, <1>7, <2>1 DEF Shape, Exists, Lhs, Rhs, IsMain, HasRhs
<1> QED BY <1>1, <1>4, <1>6, <1>7 DEF Exists

LEMMA MainChildren ==
  ASSUME TypeOK, Graph, NEW m \in Node, IsMain(m)
  PROVE  /\ Child(Lhs(m), m) /\ Lhs(m) \in Node /\ kind[Lhs(m)] = "Lhs"
         /\ HasRhs(m) => Child(Rhs(m), m) /\ Rhs(m) \in Node /\ kind[Rhs(m)] \notin {"None", "Lhs"}
<1>1. children[m] \in Seq(Node) /\ Len(children[m]) \in {1, 2} /\ Shape(m)
  BY DEF TypeOK, Graph, Shapes, Shape, IsMain
<1>2. 1 \in 1 .. Len(children[m]) /\ (HasRhs(m) => 2 \in 1 .. Len(children[m]))
  BY <1>1 DEF HasRhs
<1>3. Child(Lhs(m), m) /\ (HasRhs(m) => Child(Rhs(m), m))
  BY <1>1, <1>2, IndexInRange DEF Child, Lhs, Rhs
<1> QED BY <1>1, <1>2, <1>3 DEF Shape, IsMain, HasRhs, Lhs, Rhs

LEMMA DistinctChildren ==
  ASSUME TypeOK, Graph, NEW n \in Node
  PROVE  Single(children[n])
<1>1. children[n] \in Seq(Node) /\ kind[n] \in {"None", "Var", "Map", "Lhs", "Main"} /\ Shape(n)
  BY DEF TypeOK, Graph, Shapes
<1>2. Len(children[n]) \in {0, 1, 2}
  BY <1>1 DEF Shape, Graph, NoNodes, Exists
<1>3. Len(children[n]) = 2 => children[n][1] # children[n][2]
  BY <1>1 DEF Shape, Graph, NoNodes, Exists, Lhs, Rhs
<1>4. DOMAIN children[n] = 1 .. Len(children[n])
  BY <1>1
<1> QED BY <1>2, <1>3, <1>4 DEF Single

\* The calls a node makes for each of its children.
LEMMA ForChildrenOrdered ==
  ASSUME TypeOK, Graph, NEW n \in Node, NEW rank \in [Node -> Nat],
         NEW f \in {"add_parent", "remove_parent"}
  PROVE  Ordered(rank, ForChildren(f, n))
<1> DEFINE t == ForChildren(f, n)
           s == ChildrenOf(n)
<1>1. s \in Seq(Node) /\ Single(s)
  <2>1. children[n] \in Seq(Node) /\ Single(children[n])
    BY DistinctChildren DEF TypeOK
  <2>2. CASE valid[n]
    BY <2>1, <2>2 DEF ChildrenOf
  <2>3. CASE ~valid[n]
    <3>1. s = <<>>
      BY <2>3 DEF ChildrenOf
    <3> HIDE DEF s
    <3>2. \A i \in DOMAIN s : FALSE
      BY <3>1
    <3> QED BY <3>1, <3>2 DEF Single
  <2> QED BY <2>2, <2>3
<1>2. \A i, j \in DOMAIN s : s[i] = s[j] => i = j
  BY <1>1 DEF Single
<1>3. DOMAIN t = DOMAIN s /\ \A i \in DOMAIN s : t[i] = [do |-> f, node |-> s[i], with |-> n]
  BY DEF ForChildren, DoWith
<1>4. rank[n] \in Nat
  OBVIOUS
<1> HIDE DEF s, t
<1>5. ASSUME NEW i \in DOMAIN s, NEW j \in DOMAIN s, i < j
      PROVE  Before(rank, t[i], t[j])
  <2>1. s[i] # s[j]
    <3>1. s \in Seq(Node)
      BY <1>1
    <3>2. i # j
      BY <1>5, <3>1
    <3> QED BY <1>2, <3>2
  <2>2. Under(rank, f, s[i], n, f, s[j], n)
    BY <1>4, <2>1 DEF Under, Linking, Ending, Observing
  <2> QED BY <1>3, <2>2, BeforeUnder
<1>6. Ordered(rank, t)
  BY <1>3, <1>5 DEF Ordered
<1> QED BY <1>6 DEF t

-----------------------------------------------------------------------------
(***************************************************************************)
(* The calls one by one.  First those that link nothing and make no calls. *)
(***************************************************************************)
\* What is known when f of n, given p, is about to run.
Scene(rank, f, n, p) ==
  /\ calls \in Seq(Call) /\ calls # <<>> /\ Stack(rank) /\ CallsTyped /\ Covered
  /\ f \in Function /\ n \in Node \union {NoNode}
  /\ f \notin {"propagate_invalidity", "drop", "invalidate"} => n \in Node
  /\ f \in {"propagate_invalidity", "drop"} => n = NoNode
  /\ IF f \in Paired THEN p \in Node ELSE p = NoNode
  /\ f \in {"invalidate", "mark"} /\ n # NoNode => Exists(n)
  /\ f = "drain" => IsMain(n)
  /\ f = "change" => kind[n] = "Lhs"
  /\ f \in Observing => n \in Range(Observable)
  /\ stabilising /\ (f # "drop" => direct = {})
  /\ \A d, k, q : Called(d, k, q) <=> Waiting(d, k, q) \/ (d = f /\ k = n /\ q = p)
  /\ \A d, k, q : Waiting(d, k, q) =>
       /\ Under(rank, f, n, p, d, k, q)
       /\ d \in Function /\ k \in Node \union {NoNode} /\ q \in Node \union {NoNode}
       /\ d \notin {"propagate_invalidity", "drop", "invalidate"} => k # NoNode
       /\ d \in {"propagate_invalidity", "drop"} => k = NoNode
       /\ d \in Paired <=> q # NoNode

LEMMA Context ==
  ASSUME NEW rank, TypeOK, Inv(rank), NEW f, NEW n, NEW p, Runs(f, n, p)
  PROVE  Scene(rank, f, n, p)
<1> DEFINE h == [do |-> f, node |-> n, with |-> p]
<1>1. calls \in Seq(Call) /\ Stack(rank) /\ CallsTyped /\ Covered /\ Heap
  BY DEF TypeOK, Inv
<1>2. calls # <<>> /\ Head(calls) = h
  BY DEF Runs
<1>3. h \in Range(calls)
  BY <1>1, <1>2, HeadAndTail
<1>4. /\ f \in Function /\ n \in Node \union {NoNode} /\ p \in Node \union {NoNode}
      /\ CallTyped([do |-> f, node |-> n, with |-> p])
      /\ \A d, k, q : Called(d, k, q) <=> Waiting(d, k, q) \/ (d = f /\ k = n /\ q = p)
      /\ \A d, k, q : Waiting(d, k, q) =>
           /\ d \in Function /\ k \in Node \union {NoNode} /\ q \in Node \union {NoNode}
           /\ CallTyped([do |-> d, node |-> k, with |-> q])
           /\ Under(rank, f, n, p, d, k, q)
  BY <1>1, Running, Zenon
<1>5. h.do = f /\ h.node = n /\ h.with = p
  OBVIOUS
<1>6. stabilising /\ (f # "drop" => direct = {})
  BY <1>1, <1>2, <1>3, <1>5 DEF Heap, TypeOK
<1>7. ASSUME NEW d, NEW k, NEW q, CallTyped([do |-> d, node |-> k, with |-> q])
      PROVE  /\ d \notin {"propagate_invalidity", "drop", "invalidate"} => k # NoNode
             /\ d \in {"propagate_invalidity", "drop"} => k = NoNode
             /\ d \in Paired <=> q # NoNode
             /\ d \in {"invalidate", "mark"} /\ k # NoNode => Exists(k)
             /\ d = "drain" => IsMain(k)
             /\ d = "change" => kind[k] = "Lhs"
             /\ d \in Observing => k \in Range(Observable)
  <2> DEFINE g == [do |-> d, node |-> k, with |-> q]
  <2>1. g.do = d /\ g.node = k /\ g.with = q
    OBVIOUS
  <2> HIDE DEF g
  <2> QED BY <1>7, <2>1, Zenon DEF CallTyped, g
<1>8. /\ f \notin {"propagate_invalidity", "drop", "invalidate"} => n \in Node
      /\ f \in {"propagate_invalidity", "drop"} => n = NoNode
      /\ IF f \in Paired THEN p \in Node ELSE p = NoNode
      /\ f \in {"invalidate", "mark"} /\ n # NoNode => Exists(n)
      /\ f = "drain" => IsMain(n)
      /\ f = "change" => kind[n] = "Lhs"
      /\ f \in Observing => n \in Range(Observable)
  BY <1>4, <1>7
<1>9. ASSUME NEW d, NEW k, NEW q, Waiting(d, k, q)
      PROVE  /\ Under(rank, f, n, p, d, k, q)
             /\ d \in Function /\ k \in Node \union {NoNode} /\ q \in Node \union {NoNode}
             /\ d \notin {"propagate_invalidity", "drop", "invalidate"} => k # NoNode
             /\ d \in {"propagate_invalidity", "drop"} => k = NoNode
             /\ d \in Paired <=> q # NoNode
  <2>1. /\ d \in Function /\ k \in Node \union {NoNode} /\ q \in Node \union {NoNode}
        /\ CallTyped([do |-> d, node |-> k, with |-> q])
        /\ Under(rank, f, n, p, d, k, q)
    BY <1>4, <1>9, Zenon
  <2> QED BY <1>7, <2>1
<1> QED BY <1>1, <1>2, <1>4, <1>6, <1>8, <1>9, Zenon DEF Scene

LEMMA LowerInv ==
  ASSUME NEW rank \in [Node -> Nat], TypeOK, Inv(rank), NEW n, NEW p, Runs("lower", n, p), Lower(n)
  PROVE  Inv(rank)'
<1>1. /\ calls \in Seq(Call) /\ calls # <<>> /\ Stack(rank) /\ CallsTyped /\ Covered
      /\ n \in Node /\ p = NoNode /\ stabilising /\ direct = {}
      /\ \A d, k, q : Called(d, k, q) <=> Waiting(d, k, q) \/ (d = "lower" /\ k = n /\ q = p)
  <2>1. Scene(rank, "lower", n, p)
    BY Context, Zenon
  <2> QED BY <2>1 DEF Scene, Paired
<1>2. /\ calls' \in Seq(Call) /\ Stack(rank)' /\ CallsTyped' /\ Covered'
      /\ \A d, k, q : Called(d, k, q)' <=> Waiting(d, k, q)
  BY <1>1, Return DEF Lower, made
<1>3. \A d, k, q : d # "lower" => (Called(d, k, q)' <=> Called(d, k, q))
  BY <1>1, <1>2
<1>4. Graph' /\ Ranked(rank)'
  BY GraphKept DEF Inv, Lower, made
<1>5. Validity'
  BY <1>3, ValidityKept DEF Inv, Lower, made, Marked, Dying
<1>6. Links' /\ Observers' /\ Times'
  BY <1>3, LinksKept, ObserversKept, TimesKept
     DEF Inv, Lower, made, links, values, turn, Link, Unlink, Marked, Placing
<1>7. Told'
  BY <1>3, ToldKept DEF Inv, Lower, made, links, turn, Link, Dying, Marked, Queued
<1>8. Heap'
  <2>1. ASSUME NEW k \in Node PROVE Heaped(k)'
    <3>1. Heaped(k) /\ Heaped(n)
      BY <1>1 DEF Inv, Heap
    <3>2. (Queued(k)' <=> Queued(k)) /\ (Necessary(k)' <=> Necessary(k)) /\ valid'[k] = valid[k]
          /\ (k # n => height'[k] = height[k])
      BY <1>1 DEF Lower, Queued, Necessary, links, turn, TypeOK
    <3>3. (Marked(k)' <=> Marked(k)) /\ (Called("lower", k, NoNode)' => Called("lower", k, NoNode))
      BY <1>1, <1>2, <1>3 DEF Marked
    <3>4. Called("lower", n, NoNode)
      BY <1>1
    <3> QED BY <3>1, <3>2, <3>3, <3>4 DEF Heaped
  <2> QED BY <1>1, <2>1 DEF Heap, Lower, turn
<1> QED BY <1>2, <1>4, <1>5, <1>6, <1>7, <1>8 DEF Inv

LEMMA PlaceInv ==
  ASSUME NEW rank \in [Node -> Nat], TypeOK, Inv(rank), NEW n, NEW p, Runs("place", n, p), Place(n)
  PROVE  Inv(rank)'
<1>1. /\ calls \in Seq(Call) /\ calls # <<>> /\ Stack(rank) /\ CallsTyped /\ Covered
      /\ n \in Node /\ p = NoNode /\ stabilising /\ direct = {}
      /\ \A d, k, q : Called(d, k, q) <=> Waiting(d, k, q) \/ (d = "place" /\ k = n /\ q = p)
  <2>1. Scene(rank, "place", n, p)
    BY Context, Zenon
  <2> QED BY <2>1 DEF Scene, Paired
<1>2. /\ calls' \in Seq(Call) /\ Stack(rank)' /\ CallsTyped' /\ Covered'
      /\ \A d, k, q : Called(d, k, q)' <=> Waiting(d, k, q)
  BY <1>1, Return DEF Place, made
<1>3. \A d, k, q : d # "place" => (Called(d, k, q)' <=> Called(d, k, q))
  BY <1>1, <1>2
<1>4. Graph' /\ Ranked(rank)'
  BY GraphKept DEF Inv, Place, made
<1>5. Validity'
  BY <1>3, ValidityKept DEF Inv, Place, made, Marked, Dying
<1>6. Links' /\ Observers' /\ Times'
  <2>1. \A k \in Node : Placing(k)' => Placing(k)
    BY <1>1, <1>2 DEF Placing
  <2> QED BY <1>3, <2>1, LinksKept, ObserversKept, TimesKept
            DEF Inv, Place, made, links, values, turn, Link, Unlink, Marked
<1>7. Told'
  BY <1>3, ToldKept DEF Inv, Place, made, links, turn, Link, Dying, Marked, Queued
<1>8. Heap'
  <2>1. Necessary(n)
    BY <1>1 DEF Inv, Links, Placing
  <2>2. ASSUME NEW k \in Node PROVE Heaped(k)'
    <3>1. Heaped(k)
      BY DEF Inv, Heap
    <3>2. (Necessary(k)' <=> Necessary(k)) /\ valid'[k] = valid[k] /\ (k # n => height'[k] = height[k])
      BY <1>1 DEF Place, Necessary, links, TypeOK
    <3>3. Queued(k)' => Queued(k) \/ (k = n /\ valid[n])
      BY <1>1 DEF Place, Stale, Queued, turn
    <3>4. (Marked(k)' <=> Marked(k)) /\ (Called("lower", k, NoNode)' => Called("lower", k, NoNode))
      BY <1>3 DEF Marked
    <3> QED BY <2>1, <3>1, <3>2, <3>3, <3>4 DEF Heaped
  <2> QED BY <1>1, <2>2 DEF Heap, Place, turn
<1> QED BY <1>2, <1>4, <1>5, <1>6, <1>7, <1>8 DEF Inv

LEMMA AdjustHeightsInv ==
  ASSUME NEW rank \in [Node -> Nat], TypeOK, Inv(rank), NEW c, NEW p,
         Runs("adjust_heights", c, p), AdjustHeights(c, p)
  PROVE  Inv(rank)'
<1>1. /\ calls \in Seq(Call) /\ calls # <<>> /\ Stack(rank) /\ CallsTyped /\ Covered
      /\ c \in Node /\ p \in Node /\ stabilising /\ direct = {}
      /\ \A d, k, q : Called(d, k, q) <=> Waiting(d, k, q) \/ (d = "adjust_heights" /\ k = c /\ q = p)
  <2>1. Scene(rank, "adjust_heights", c, p)
    BY Context, Zenon
  <2> QED BY <2>1 DEF Scene, Paired
<1>2. /\ calls' \in Seq(Call) /\ Stack(rank)' /\ CallsTyped' /\ Covered'
      /\ \A d, k, q : Called(d, k, q)' <=> Waiting(d, k, q)
  BY <1>1, Return DEF AdjustHeights, made
<1>3. \A d, k, q : d # "adjust_heights" => (Called(d, k, q)' <=> Called(d, k, q))
  BY <1>1, <1>2
<1>4. Graph' /\ Ranked(rank)'
  BY GraphKept DEF Inv, AdjustHeights, made
<1>5. Validity'
  BY <1>3, ValidityKept DEF Inv, AdjustHeights, made, Marked, Dying
<1>6. Links' /\ Observers' /\ Times'
  BY <1>3, LinksKept, ObserversKept, TimesKept
     DEF Inv, AdjustHeights, made, links, values, turn, Link, Unlink, Marked, Placing
<1>7. Told'
  BY <1>3, ToldKept DEF Inv, AdjustHeights, made, links, turn, Link, Dying, Marked, Queued
<1>8. Heap'
  <2>1. ASSUME NEW k \in Node PROVE Heaped(k)'
    <3>1. Heaped(k)
      BY DEF Inv, Heap
    <3>2. (Necessary(k)' <=> Necessary(k)) /\ valid'[k] = valid[k] /\ (Queued(k)' <=> Queued(k))
      BY <1>1 DEF AdjustHeights, Necessary, links, turn, Queued
    <3>3. ~Necessary(k) => height'[k] = height[k]
      <4>1. CASE height[c] < height[p]
        BY <4>1 DEF AdjustHeights
      <4>2. CASE ~(height[c] < height[p])
        <5> DEFINE raised == LeastHeights(Above, height)
        <5>1. height' = [j \in Node |-> IF Necessary(j) THEN raised[j] ELSE height[j]]
          BY <4>2 DEF AdjustHeights
        <5> HIDE DEF raised
        <5> QED BY <5>1
      <4> QED BY <4>1, <4>2
    <3>4. (Marked(k)' <=> Marked(k)) /\ (Called("lower", k, NoNode)' <=> Called("lower", k, NoNode))
      BY <1>3 DEF Marked
    <3> QED BY <3>1, <3>2, <3>3, <3>4 DEF Heaped
  <2> QED BY <1>1, <2>1 DEF Heap, AdjustHeights, turn
<1> QED BY <1>2, <1>4, <1>5, <1>6, <1>7, <1>8 DEF Inv

\* A valid node that is inserted into the heap is necessary: else it has no height.
LEMMA InsertedNecessary ==
  ASSUME NEW rank, TypeOK, Inv(rank), NEW n \in Node, ~Marked(n), valid[n], Insert(n), ~panicked'
  PROVE  Necessary(n)
<1>1. Heaped(n)
  BY DEF Inv, Heap
<1>2. height[n] \in Int
  BY DEF TypeOK
<1>3. n \in heap \/ ~(height[n] < 0)
  BY Zenon DEF Insert
<1>4. height[n] # -1 \/ Necessary(n)
  BY <1>1, <1>2, <1>3 DEF Heaped, Queued
<1> QED BY <1>1, <1>4 DEF Heaped

LEMMA QueueIfOlderInv ==
  ASSUME NEW rank \in [Node -> Nat], TypeOK, Inv(rank), NEW c, NEW p, ~panicked', ~panicked,
         Runs("queue_if_older", c, p), QueueIfOlder(c, p)
  PROVE  Inv(rank)'
<1>0. Scene(rank, "queue_if_older", c, p)
  BY Context, Zenon
<1>1. /\ calls \in Seq(Call) /\ calls # <<>> /\ Stack(rank) /\ CallsTyped /\ Covered
      /\ c \in Node /\ p \in Node /\ stabilising /\ direct = {}
      /\ \A d, k, q : Called(d, k, q) <=> Waiting(d, k, q) \/ (d = "queue_if_older" /\ k = c /\ q = p)
      /\ \A d, k, q : Waiting(d, k, q) => Under(rank, "queue_if_older", c, p, d, k, q)
  BY <1>0 DEF Scene, Paired
<1>2. /\ calls' \in Seq(Call) /\ Stack(rank)' /\ CallsTyped' /\ Covered'
      /\ \A d, k, q : Called(d, k, q)' <=> Waiting(d, k, q)
  BY <1>1, Return DEF QueueIfOlder, made
<1>3. \A d, k, q : d # "queue_if_older" => (Called(d, k, q)' <=> Called(d, k, q))
  BY <1>1, <1>2
<1>4. Graph' /\ Ranked(rank)'
  BY GraphKept DEF Inv, QueueIfOlder, made
<1>5. Validity'
  BY <1>3, ValidityKept DEF Inv, QueueIfOlder, made, Marked, Dying
<1>6. Links' /\ Observers' /\ Times'
  <2>1. \A k, q \in Node : Called("queue_if_older", k, q)' => Called("queue_if_older", k, q)
    BY <1>1, <1>2
  <2> QED BY <1>3, <2>1, LinksKept, ObserversKept, TimesKept
            DEF Inv, QueueIfOlder, made, links, values, turn, Link, Unlink, Marked, Placing
<1>7. heap' = heap \/ (Insert(p) /\ valid[p] /\ Necessary(p))
  <2>1. SUFFICES ASSUME recomputedAt[p] = Never \/ changedAt[c] > recomputedAt[p], Insert(p)
                 PROVE  valid[p] /\ Necessary(p)
    BY DEF QueueIfOlder
  <2>2. valid[p]
    <3>1. Called("queue_if_older", c, p) /\ changedAt[c] <= now
      BY <1>1 DEF Inv, Times
    <3>2. valid[p] \/ recomputedAt[p] = now
      BY <1>1, <3>1 DEF Inv, Times
    <3>3. now \in Nat /\ changedAt[c] \in Int
      BY <1>1 DEF TypeOK
    <3> QED BY <2>1, <3>1, <3>2, <3>3 DEF Never
  <2>3. ~Marked(p)
    <3>1. ~Waiting("mark", p, NoNode)
      BY <1>1 DEF Under, Ending
    <3> QED BY <1>1, <3>1 DEF Marked
  <2> QED BY <1>1, <2>1, <2>2, <2>3, InsertedNecessary
<1>8. Told'
  <2>1. \A k : Queued(k) => Queued(k)'
    BY DEF QueueIfOlder, Insert, Queued, turn
  <2> QED BY <1>3, <2>1, ToldKept DEF Inv, QueueIfOlder, made, links, turn, Link, Dying, Marked
<1>9. Heap'
  <2>1. ASSUME NEW k \in Node PROVE Heaped(k)'
    <3>1. Heaped(k)
      BY DEF Inv, Heap
    <3>2. (Necessary(k)' <=> Necessary(k)) /\ valid'[k] = valid[k] /\ height'[k] = height[k]
      BY DEF QueueIfOlder, Necessary, links
    <3>3. Queued(k)' => Queued(k) \/ (k = p /\ valid[p] /\ Necessary(p))
      BY <1>7 DEF QueueIfOlder, Insert, Queued, turn
    <3>4. (Marked(k)' <=> Marked(k)) /\ (Called("lower", k, NoNode)' <=> Called("lower", k, NoNode))
      BY <1>3 DEF Marked
    <3> QED BY <3>1, <3>2, <3>3, <3>4 DEF Heaped
  <2> QED BY <1>1, <2>1 DEF Heap, QueueIfOlder, turn
<1> QED BY <1>2, <1>4, <1>5, <1>6, <1>8, <1>9 DEF Inv

\* maybe_change_value of a node queues only its parents, and forgets nobody else.
LEMMA MaybeChangeValueFacts ==
  ASSUME TypeOK, Links, NEW n \in Node, NEW v, MaybeChangeValue(n, v),
         \A k \in Node : ~Unlink(n, k)
  PROVE  /\ heap' \subseteq Node /\ direct' \subseteq Node /\ heap \ {n} \subseteq heap'
         /\ \A j, k \in direct' : j = k
         /\ \A k : k \in heap' \union direct' =>
              k \in heap \ {n} \/ (IsParent(k, n) /\ valid[k] /\ Necessary(k))
         /\ v \in Bit \union {NoValue} => value' \in [Node -> Bit \union {NoValue}]
         /\ changedAt' \in [Node -> Int] /\ \A k \in Node : changedAt'[k] \in {changedAt[k], now}
<1>1. parents[n] \in Seq(Node) /\ now \in Int /\ heap \subseteq Node
  BY DEF TypeOK
<1>2. ASSUME NEW k, IsParent(k, n) PROVE k \in Node /\ valid[k] /\ Necessary(k)
  <2>1. k \in Node
    BY <1>1, <1>2, ElementInSet DEF IsParent
  <2>2. Linked(n, k)
    BY <2>1 DEF Links
  <2> QED BY <1>2, <2>1, <2>2 DEF Linked
<1>3. ASSUME parents[n] # <<>>
      PROVE  \A k : k = Head(parents[n]) \/ k \in Range(Tail(parents[n])) => IsParent(k, n)
  BY <1>1, <1>3, HeadAndTail DEF IsParent
<1>4. /\ heap \ {n} \subseteq heap'
      /\ \A j, k \in direct' : j = k
      /\ \A k : k \in heap' \union direct' =>
           k \in heap \ {n} \/ (parents[n] # <<>> /\ (k = Head(parents[n]) \/ k \in Range(Tail(parents[n]))))
  BY DEF MaybeChangeValue
<1>5. \A k : k \in heap' \union direct' => k \in heap \ {n} \/ IsParent(k, n)
  BY <1>3, <1>4
<1>6. v \in Bit \union {NoValue} => value' \in [Node -> Bit \union {NoValue}]
  BY DEF MaybeChangeValue, TypeOK
<1>7. changedAt' \in [Node -> Int] /\ \A k \in Node : changedAt'[k] \in {changedAt[k], now}
  BY <1>1 DEF MaybeChangeValue, TypeOK
<1> QED BY <1>1, <1>2, <1>4, <1>5, <1>6, <1>7

-----------------------------------------------------------------------------
(***************************************************************************)
(* Telling the parents, and the values of nodes.                           *)
(***************************************************************************)
LEMMA Idle ==
  ASSUME calls = <<>>
  PROVE  \A d, n, p : ~Called(d, n, p)
<1>1. calls \in Seq({})
  OBVIOUS
<1>2. \A x : x \notin Range(calls)
  BY <1>1, EmptyRange, Zenon
<1> QED BY <1>2 DEF Called

\* A turn of the loop of stabilise begins.
LEMMA Begin ==
  ASSUME NEW rank, calls = <<>>, UNCHANGED kind, NEW first \in Seq(Call), calls' = first,
         Ordered(rank, first), Heard(first), \A f \in Range(first) : CallTyped(f)'
  PROVE  /\ Stack(rank)' /\ CallsTyped' /\ Covered'
         /\ \A d, n, p : Called(d, n, p)' <=> [do |-> d, node |-> n, with |-> p] \in Range(first)
<1>1. Stack(rank)'
  BY DEF Stack, Ordered
<1>2. Covered'
  BY DEF Covered, Heard
<1>3. CallsTyped'
  BY DEF CallsTyped
<1>4. \A d, n, p : Called(d, n, p)' <=> [do |-> d, node |-> n, with |-> p] \in Range(first)
  BY DEF Called
<1> QED BY <1>1, <1>2, <1>3, <1>4

LEMMA NothingOrdered ==
  ASSUME NEW rank
  PROVE  /\ Ordered(rank, <<>>) /\ Heard(<<>>) /\ <<>> \in Seq(Call) /\ \A x : x \notin Range(<<>>)
<1>1. \A i \in DOMAIN <<>> : FALSE
  OBVIOUS
<1>2. <<>> \in Seq(Call)
  OBVIOUS
<1>3. \A x : x \notin Range(<<>>)
  BY <1>2, EmptyRange, Zenon
<1> QED BY <1>1, <1>2, <1>3 DEF Ordered, Heard

LEMMA ChangeInv ==
  ASSUME NEW rank \in [Node -> Nat], TypeOK, Inv(rank), NEW b, NEW p, Runs("change", b, p), Change(b)
  PROVE  Inv(rank)'
<1>0. Scene(rank, "change", b, p)
  BY Context, Zenon
<1>1. /\ calls \in Seq(Call) /\ calls # <<>> /\ Stack(rank) /\ CallsTyped /\ Covered
      /\ b \in Node /\ p = NoNode /\ stabilising /\ direct = {} /\ kind[b] = "Lhs"
      /\ \A d, k, q : Called(d, k, q) <=> Waiting(d, k, q) \/ (d = "change" /\ k = b /\ q = p)
      /\ \A d, k, q : Waiting(d, k, q) => Under(rank, "change", b, p, d, k, q)
  BY <1>0 DEF Scene, Paired
<1>2. /\ calls' \in Seq(Call) /\ Stack(rank)' /\ CallsTyped' /\ Covered'
      /\ \A d, k, q : Called(d, k, q)' <=> Waiting(d, k, q)
  BY <1>1, Return DEF Change, made
<1>3. \A d, k, q : d # "change" => (Called(d, k, q)' <=> Called(d, k, q))
  BY <1>1, <1>2
<1>4. \A d, k, q : Waiting(d, k, q) => d = "drop"
  BY <1>1 DEF Under
<1>5. Graph' /\ Ranked(rank)'
  BY GraphKept DEF Inv, Change, made
<1>6. Validity'
  BY <1>3, ValidityKept DEF Inv, Change, made, Marked, Dying
<1>7. Links' /\ Observers'
  BY <1>3, LinksKept, ObserversKept DEF Inv, Change, made, links, Link, Unlink, Marked, Placing
<1>8. /\ heap' \subseteq Node /\ direct' \subseteq Node /\ heap \ {b} \subseteq heap'
      /\ \A j, k \in direct' : j = k
      /\ \A k : k \in heap' \union direct' =>
           k \in heap \ {b} \/ (IsParent(k, b) /\ valid[k] /\ Necessary(k))
      /\ changedAt' \in [Node -> Int] /\ \A k \in Node : changedAt'[k] \in {changedAt[k], now}
  <2>1. Links /\ MaybeChangeValue(b, 0)
    BY DEF Inv, Change
  <2>2. \A k \in Node : ~Unlink(b, k)
    BY <1>1, <1>4 DEF Unlink
  <2> QED BY <1>1, <2>1, <2>2, MaybeChangeValueFacts
<1>9. Times'
  <2>1. now' = now /\ recomputedAt' = recomputedAt /\ now \in Nat
    BY DEF Change, TypeOK
  <2>2. \A k \in Node : changedAt'[k] <= now
    BY <1>8, <2>1 DEF Inv, Times
  <2>3. \A k, q : ~Called("mark", k, q)' /\ ~Called("queue_if_older", k, q)'
    BY <1>2, <1>4
  <2> QED BY <2>1, <2>2, <2>3 DEF Times, Marked
<1>10. Told'
  <2>1. \A k \in Node : IsMain(k) /\ Queued(k) => Queued(k)'
    BY <1>1, <1>8 DEF Queued, IsMain
  <2> QED BY <1>3, <2>1, ToldKept DEF Inv, Change, made, links, turn, Link, Dying, Marked
<1>11. Heap'
  <2>1. ASSUME NEW k \in Node PROVE Heaped(k)'
    <3>1. Heaped(k)
      BY DEF Inv, Heap
    <3>2. (Necessary(k)' <=> Necessary(k)) /\ valid'[k] = valid[k] /\ height'[k] = height[k]
      BY DEF Change, Necessary, links
    <3>3. Queued(k)' => Queued(k) \/ (valid[k] /\ Necessary(k))
      BY <1>8 DEF Queued
    <3>4. (Marked(k)' <=> Marked(k)) /\ (Called("lower", k, NoNode)' <=> Called("lower", k, NoNode))
      BY <1>3 DEF Marked
    <3> QED BY <3>1, <3>2, <3>3, <3>4 DEF Heaped
  <2>2. \A f \in Range(calls') : f.do = "drop"
    <3>1. SUFFICES ASSUME NEW f \in Range(calls') PROVE f.do = "drop"
      OBVIOUS
    <3>2. f \in Call
      BY <1>2, <3>1, ElementInSet
    <3>3. f = [do |-> f.do, node |-> f.node, with |-> f.with]
      BY <3>2, CallFields
    <3>4. Called(f.do, f.node, f.with)'
      BY <3>1, <3>3 DEF Called
    <3> QED BY <1>2, <1>4, <3>4
  <2> QED BY <1>1, <1>8, <2>1, <2>2 DEF Heap, Change
<1> QED BY <1>2, <1>5, <1>6, <1>7, <1>9, <1>10, <1>11 DEF Inv

\* What holds between turns.
LEMMA BetweenTurns ==
  ASSUME NEW rank, TypeOK, Inv(rank), calls = <<>>
  PROVE  /\ \A d, n, p : ~Called(d, n, p)
         /\ forced = {} /\ invalidated = <<>>
         /\ \A n \in Node : ~Dying(n)
<1>1. \A d, n, p : ~Called(d, n, p)
  BY Idle
<1>2. forced = {}
  BY <1>1 DEF Inv, Observers
<1>3. invalidated = <<>>
  BY <1>1 DEF Inv, Told
<1> QED BY <1>1, <1>2, <1>3 DEF Dying, Marked

\* A node is taken from the heap, or recomputed directly, and its value spreads.
LEMMA SpreadInv ==
  ASSUME NEW rank \in [Node -> Nat], TypeOK, Inv(rank), stabilising, calls = <<>>, calls' = <<>>,
         NEW n \in Node, NEW v, MaybeChangeValue(n, v), direct \subseteq {n},
         IsMain(n) => \A c \in Node : Child(c, n) => valid[c],
         \A k \in Node : k # n => recomputedAt'[k] = recomputedAt[k],
         UNCHANGED <<made, children, created, valid, height, links, invalidated, now, stabilising>>
  PROVE  Inv(rank)'
<1>1. /\ \A d, k, q : ~Called(d, k, q)
      /\ \A d, k, q : ~Called(d, k, q)'
      /\ \A d, k, q : Called(d, k, q)' <=> Called(d, k, q)
  <2>1. \A d, k, q : ~Called(d, k, q)
    BY Idle
  <2>2. calls' = calls
    OBVIOUS
  <2> QED BY <2>1, <2>2 DEF Called
<1>2. Stack(rank)' /\ CallsTyped' /\ Covered'
  BY NothingOrdered, Zenon DEF Stack, CallsTyped, Covered
<1>3. Graph' /\ Ranked(rank)'
  BY GraphKept DEF Inv, made
<1>4. Validity'
  BY <1>1, ValidityKept DEF Inv, made, Marked, Dying
<1>5. Links' /\ Observers'
  BY <1>1, LinksKept, ObserversKept DEF Inv, made, links, Link, Unlink, Marked, Placing
<1>6. /\ heap' \subseteq Node /\ direct' \subseteq Node /\ heap \ {n} \subseteq heap'
      /\ \A j, k \in direct' : j = k
      /\ \A k : k \in heap' \union direct' =>
           k \in heap \ {n} \/ (IsParent(k, n) /\ valid[k] /\ Necessary(k))
      /\ changedAt' \in [Node -> Int] /\ \A k \in Node : changedAt'[k] \in {changedAt[k], now}
  <2>1. \A k \in Node : ~Unlink(n, k)
    BY <1>1 DEF Unlink
  <2> QED BY <2>1, MaybeChangeValueFacts DEF Inv
<1>7. Times'
  <2>1. now \in Nat
    BY DEF TypeOK
  <2>2. \A k \in Node : changedAt'[k] <= now
    BY <1>6, <2>1 DEF Inv, Times
  <2> QED BY <1>1, <2>1, <2>2 DEF Times, Marked
<1>8. Told'
  <2>1. \A k \in Node : IsMain(k) /\ Queued(k) => Queued(k)' \/ \A c \in Node : Child(c, k) => valid[c]
    BY <1>6 DEF Queued
  <2> QED BY <1>1, <2>1, ToldKept DEF Inv, made, links, Link, Dying, Marked
<1>9. Heap'
  <2>1. ASSUME NEW k \in Node PROVE Heaped(k)'
    <3>1. Heaped(k)
      BY DEF Inv, Heap
    <3>2. (Necessary(k)' <=> Necessary(k)) /\ valid'[k] = valid[k] /\ height'[k] = height[k]
      BY DEF Necessary, links
    <3>3. Queued(k)' => Queued(k) \/ (valid[k] /\ Necessary(k))
      BY <1>6 DEF Queued
    <3>4. (Marked(k)' <=> Marked(k)) /\ (Called("lower", k, NoNode)' <=> Called("lower", k, NoNode))
      BY <1>1 DEF Marked
    <3> QED BY <3>1, <3>2, <3>3, <3>4 DEF Heaped
  <2>2. \A f \in Range(calls') : f.do = "drop"
    BY NothingOrdered, Zenon
  <2> QED BY <1>6, <2>1, <2>2 DEF Heap
<1> QED BY <1>2, <1>3, <1>4, <1>5, <1>7, <1>8, <1>9 DEF Inv

LEMMA NextIsQueued ==
  ASSUME NEW rank, TypeOK, Inv(rank), NEW n, IsNext(n)
  PROVE  /\ n \in Node /\ Queued(n) /\ valid[n] /\ Necessary(n)
         /\ direct \subseteq {n} /\ calls = <<>> /\ stabilising
<1>1. n \in Node /\ Queued(n) /\ calls = <<>> /\ stabilising
  BY DEF IsNext, Queued, TypeOK
<1>2. Heaped(n)
  BY <1>1 DEF Inv, Heap
<1>3. direct \subseteq {n}
  BY DEF IsNext, Inv, Heap
<1> QED BY <1>1, <1>2, <1>3 DEF Heaped

LEMMA RecomputeValueInv ==
  ASSUME NEW rank \in [Node -> Nat], TypeOK, Inv(rank), NEW n, IsNext(n), RecomputeValue(n)
  PROVE  Inv(rank)'
<1>1. n \in Node /\ direct \subseteq {n} /\ calls = <<>> /\ stabilising
  BY NextIsQueued
<1> DEFINE v == IF kind[n] = "Var" THEN varValue[n] ELSE 1 - value[children[n][1]]
<1>2. MaybeChangeValue(n, v) /\ ~IsMain(n)
  BY DEF RecomputeValue, IsMain
<1>3. \A k \in Node : k # n => recomputedAt'[k] = recomputedAt[k]
  BY DEF RecomputeValue, TypeOK
<1>4. /\ calls' = <<>>
      /\ UNCHANGED <<made, children, created, valid, height, links, invalidated, now, stabilising>>
  BY <1>1 DEF RecomputeValue
<1> HIDE DEF v
<1> QED BY <1>1, <1>2, <1>3, <1>4, SpreadInv

\* A main node in the heap has its closure's result as a child, and its bind is valid.
LEMMA MainNext ==
  ASSUME NEW rank, TypeOK, Inv(rank), NEW n, IsNext(n), ~RecomputePanics(n), IsMain(n)
  PROVE  /\ HasRhs(n) /\ Rhs(n) \in Node
         /\ \A c \in Node : Child(c, n) => c = Rhs(n) \/ valid[c]
<1>1. n \in Node /\ valid[n] /\ Necessary(n) /\ calls = <<>>
  BY NextIsQueued
<1>2. Shape(n)
  BY <1>1 DEF Inv, Graph, Shapes
<1>3. HasRhs(n)
  BY <1>2 DEF RecomputePanics, IsMain, Shape, HasRhs
<1>4. Rhs(n) \in Node
  BY <1>1, <1>3, MainChildren DEF Inv
<1>5. ASSUME NEW c \in Node, Child(c, n), ~valid[c] PROVE c = Rhs(n)
  <2>1. ~Link(c, n) /\ ~Dying(n) /\ invalidated = <<>>
    BY <1>1, BetweenTurns DEF Link
  <2>2. n \notin Range(invalidated)
    BY <2>1, NothingOrdered, Zenon
  <2>3. ToldOf(n, c)
    BY <1>1 DEF Inv, Told
  <2>4. c # Lhs(n)
    BY <1>1, <1>5, <2>1, <2>2, <2>3 DEF ToldOf
  <2> QED BY <1>1, <1>5, <2>4, Children DEF Inv
<1> QED BY <1>3, <1>4, <1>5

\* One call and the propagation after it.
LEMMA TwoCalls ==
  ASSUME NEW rank, NEW f \in Call, NEW g \in Call, Before(rank, f, g), g.do = "propagate_invalidity"
  PROVE  /\ <<f, g>> \in Seq(Call) /\ Ordered(rank, <<f, g>>) /\ Heard(<<f, g>>)
         /\ \A x : x \in Range(<<f, g>>) <=> x = f \/ x = g
<1> DEFINE s == <<f, g>>
<1>1. s \in Seq(Call) /\ Len(s) = 2 /\ s[1] = f /\ s[2] = g
  OBVIOUS
<1> HIDE DEF s
<1>2. \A i \in DOMAIN s : i = 1 \/ i = 2
  BY <1>1
<1>3. 1 \in DOMAIN s /\ 2 \in DOMAIN s /\ 1 < 2 /\ ~(2 < 1) /\ ~(1 < 1) /\ ~(2 < 2)
  BY <1>1
<1>4. Ordered(rank, s)
  <2>1. SUFFICES ASSUME NEW i \in DOMAIN s, NEW j \in DOMAIN s, i < j
                 PROVE  Before(rank, s[i], s[j])
    BY DEF Ordered
  <2>2. i = 1 /\ j = 2
    BY <1>2, <1>3, <2>1
  <2> QED BY <1>1, <2>2, Zenon
<1>5. Heard(s)
  <2>1. "propagate_invalidity" \notin Adding
    BY DEF Adding
  <2> QED BY <1>1, <1>2, <1>3, <2>1 DEF Heard
<1>6. \A x : x \in Range(s) <=> x = f \/ x = g
  BY <1>1, <1>2, <1>3 DEF Range
<1> QED BY <1>1, <1>4, <1>5, <1>6 DEF s

LEMMA RecomputeMainInv ==
  ASSUME NEW rank \in [Node -> Nat], TypeOK, Inv(rank), NEW n, IsNext(n), ~RecomputePanics(n),
         RecomputeMain(n)
  PROVE  Inv(rank)'
<1>1. n \in Node /\ valid[n] /\ direct \subseteq {n} /\ calls = <<>> /\ stabilising /\ IsMain(n)
  BY NextIsQueued DEF RecomputeMain, IsMain
<1>2. /\ HasRhs(n) /\ Rhs(n) \in Node
      /\ \A c \in Node : Child(c, n) => c = Rhs(n) \/ valid[c]
  BY <1>1, MainNext
<1> DEFINE c == children[n][2]
<1>3. c = Rhs(n)
  BY DEF Rhs
<1>4. \A k \in Node : k # n => recomputedAt'[k] = recomputedAt[k]
  BY DEF RecomputeMain, TypeOK
<1>5. UNCHANGED <<made, children, created, valid, height, links, invalidated, now, stabilising>>
  BY DEF RecomputeMain
<1>6. CASE valid[c] /\ value[c] # NoValue
  <2>1. MaybeChangeValue(n, value[c]) /\ calls' = <<>>
    BY <1>1, <1>6 DEF RecomputeMain
  <2>2. \A k \in Node : Child(k, n) => valid[k]
    BY <1>2, <1>3, <1>6
  <2> QED BY <1>1, <1>4, <1>5, <2>1, <2>2, SpreadInv
<1>7. CASE ~(valid[c] /\ value[c] # NoValue)
  <2> DEFINE first == IF valid[c] THEN <<>>
                      ELSE <<Do("invalidate", n), Do("propagate_invalidity", NoNode)>>
  <2>1. heap' = heap \ {n} /\ direct' = {} /\ calls' = first /\ UNCHANGED <<value, changedAt>>
    BY <1>7 DEF RecomputeMain
  <2>2. /\ first \in Seq(Call) /\ Ordered(rank, first) /\ Heard(first)
        /\ \A f \in Range(first) : CallTyped(f)'
        /\ \A d, k, q : [do |-> d, node |-> k, with |-> q] \in Range(first) <=>
             ~valid[c] /\ q = NoNode /\ \/ d = "invalidate" /\ k = n
                                        \/ d = "propagate_invalidity" /\ k = NoNode
    <3>1. CASE valid[c]
      <4>1. first = <<>>
        BY <3>1
      <4> HIDE DEF first
      <4> QED BY <3>1, <4>1, NothingOrdered, Zenon
    <3>2. CASE ~valid[c]
      <4> DEFINE f == Do("invalidate", n)
                 g == Do("propagate_invalidity", NoNode)
      <4>1. f \in Call /\ g \in Call
        BY <1>1, CallMade DEF Do, Function
      <4>2. f.do = "invalidate" /\ f.node = n /\ f.with = NoNode
            /\ g.do = "propagate_invalidity" /\ g.node = NoNode /\ g.with = NoNode
        BY DEF Do
      <4>3. Before(rank, f, g)
        BY <4>2 DEF Before, Linking, Ending, Observing
      <4>4. CallTyped(f)' /\ CallTyped(g)'
        BY <1>1, <1>5, <4>2 DEF CallTyped, Paired, Exists, IsMain, Observing, made
      <4>5. first = <<f, g>>
        BY <3>2
      <4>6. \A d, k, q : [do |-> d, node |-> k, with |-> q] = f \/ [do |-> d, node |-> k, with |-> q] = g <=>
             q = NoNode /\ \/ d = "invalidate" /\ k = n
                           \/ d = "propagate_invalidity" /\ k = NoNode
        BY SameCall, Zenon DEF Do
      <4> HIDE DEF f, g, first, c
      <4>7. /\ <<f, g>> \in Seq(Call) /\ Ordered(rank, <<f, g>>) /\ Heard(<<f, g>>)
            /\ \A x : x \in Range(<<f, g>>) <=> x = f \/ x = g
        BY <4>1, <4>2, <4>3, TwoCalls
      <4>8. /\ first \in Seq(Call) /\ Ordered(rank, first) /\ Heard(first)
            /\ \A x : x \in Range(first) <=> x = f \/ x = g
        BY <4>5, <4>7, Zenon
      <4>9. \A x \in Range(first) : CallTyped(x)'
        BY <4>4, <4>8, Zenon
      <4>10. \A d, k, q : [do |-> d, node |-> k, with |-> q] \in Range(first) <=>
               q = NoNode /\ \/ d = "invalidate" /\ k = n
                             \/ d = "propagate_invalidity" /\ k = NoNode
        BY <4>6, <4>8, Zenon
      <4> QED BY <3>2, <4>8, <4>9, <4>10
    <3> QED BY <3>1, <3>2
  <2> HIDE DEF first, c
  <2>3. /\ Stack(rank)' /\ CallsTyped' /\ Covered'
        /\ \A d, k, q : Called(d, k, q)' <=>
             ~valid[c] /\ q = NoNode /\ \/ d = "invalidate" /\ k = n
                                        \/ d = "propagate_invalidity" /\ k = NoNode
    <3>1. UNCHANGED kind
      BY <1>5 DEF made
    <3>2. /\ Stack(rank)' /\ CallsTyped' /\ Covered'
          /\ \A d, k, q : Called(d, k, q)' <=> [do |-> d, node |-> k, with |-> q] \in Range(first)
      BY <1>1, <2>1, <2>2, <3>1, Begin
    <3>3. ASSUME NEW d, NEW k, NEW q
          PROVE  Called(d, k, q)' <=>
             ~valid[c] /\ q = NoNode /\ \/ d = "invalidate" /\ k = n
                                        \/ d = "propagate_invalidity" /\ k = NoNode
      <4>1. Called(d, k, q)' <=> [do |-> d, node |-> k, with |-> q] \in Range(first)
        BY <3>2, Zenon
      <4>2. [do |-> d, node |-> k, with |-> q] \in Range(first) <=>
             ~valid[c] /\ q = NoNode /\ \/ d = "invalidate" /\ k = n
                                        \/ d = "propagate_invalidity" /\ k = NoNode
        BY <2>2, Zenon
      <4> QED BY <4>1, <4>2, Zenon
    <3> QED BY <3>2, <3>3, Zenon
  <2>4. \A d, k, q : ~Called(d, k, q)
    BY <1>1, Idle
  <2>5. \A d, k, q : d \notin {"invalidate", "propagate_invalidity"} => (Called(d, k, q)' <=> Called(d, k, q))
    BY <2>3, <2>4
  <2>6. Graph' /\ Ranked(rank)'
    BY <1>5, GraphKept DEF Inv, made
  <2>7. Validity'
    BY <1>5, <2>4, <2>5, ValidityKept DEF Inv, made, Marked, Dying
  <2>8. Links' /\ Observers'
    BY <1>5, <2>5, LinksKept, ObserversKept DEF Inv, made, links, Link, Unlink, Marked, Placing
  <2>9. Times'
    <3>1. \A k \in Node : changedAt'[k] <= now' /\ ~Marked(k)'
      BY <1>5, <2>1, <2>4, <2>5 DEF Inv, Times, Marked
    <3>2. \A k, q : ~Called("queue_if_older", k, q)'
      BY <2>4, <2>5
    <3> QED BY <3>1, <3>2 DEF Times
  <2>10. Told'
    <3>1. \A k \in Node : IsMain(k) /\ Queued(k) =>
            Queued(k)' \/ Dying(k)' \/ \A j \in Node : Child(j, k) => valid[j]
      <4>1. ASSUME NEW k \in Node, k # n, Queued(k) PROVE Queued(k)'
        BY <1>1, <2>1, <4>1 DEF Queued
      <4>2. Dying(n)' \/ \A j \in Node : Child(j, n) => valid[j]
        <5>1. CASE valid[c]
          BY <1>2, <1>3, <5>1 DEF c
        <5>2. CASE ~valid[c]
          BY <2>3, <5>2 DEF Dying
        <5> QED BY <5>1, <5>2
      <4> QED BY <4>1, <4>2
    <3>2. invalidated = <<>>
      BY <1>1, BetweenTurns
    <3> QED BY <1>5, <2>4, <2>5, <3>1, <3>2, ToldKept DEF Inv, made, links, Link, Dying, Marked
  <2>11. Heap'
    <3>1. ASSUME NEW k \in Node PROVE Heaped(k)'
      <4>1. Heaped(k)
        BY DEF Inv, Heap
      <4>2. (Necessary(k)' <=> Necessary(k)) /\ valid'[k] = valid[k] /\ height'[k] = height[k]
        BY <1>5 DEF Necessary, links
      <4>3. Queued(k)' => Queued(k)
        BY <2>1 DEF Queued
      <4>4. (Marked(k)' <=> Marked(k)) /\ (Called("lower", k, NoNode)' <=> Called("lower", k, NoNode))
        BY <2>5 DEF Marked
      <4> QED BY <4>1, <4>2, <4>3, <4>4 DEF Heaped
    <3> QED BY <1>1, <1>5, <2>1, <3>1 DEF Heap
  <2> QED BY <2>3, <2>6, <2>7, <2>8, <2>9, <2>10, <2>11 DEF Inv
<1> QED BY <1>6, <1>7

-----------------------------------------------------------------------------
(***************************************************************************)
(* Invalidation.                                                           *)
(***************************************************************************)
\* A call that may add to propagate_invalidity has the propagation below it.
LEMMA PropagationWaits ==
  ASSUME NEW rank, NEW f, NEW n, NEW p, Scene(rank, f, n, p), Runs(f, n, p), f \in Adding
  PROVE  Waiting("propagate_invalidity", NoNode, NoNode)
<1> DEFINE h == [do |-> f, node |-> n, with |-> p]
           t == Tail(calls)
<1>1. calls \in Seq(Call) /\ calls # <<>> /\ Covered /\ Head(calls) = h /\ h.do = f
  BY DEF Scene, Runs
<1>2. \E g \in Range(t) : g.do = "propagate_invalidity"
  BY <1>1, HeardTail DEF Covered
<1>3. PICK g \in Range(t) : g.do = "propagate_invalidity"
  BY <1>2
<1>4. g = [do |-> g.do, node |-> g.node, with |-> g.with]
  <2>1. t \in Seq(Call) /\ g \in Range(t)
    BY <1>1, <1>3, HeadAndTail
  <2> HIDE DEF t
  <2>2. g \in Call
    BY <2>1, ElementInSet
  <2> QED BY <2>2, CallFields
<1>5. Waiting("propagate_invalidity", g.node, g.with)
  BY <1>3, <1>4, Zenon DEF Waiting
<1>6. g.node = NoNode /\ g.with = NoNode
  <2>1. "propagate_invalidity" \notin Paired
    BY DEF Paired
  <2> QED BY <1>5, <2>1 DEF Scene
<1> QED BY <1>5, <1>6

LEMMA NoLinkUnder ==
  ASSUME NEW rank, NEW f, NEW n, NEW p, Scene(rank, f, n, p), f \notin Linking
  PROVE  \A k, q : /\ ~Waiting("add_parent", k, q) /\ ~Waiting("place", k, q)
                   /\ ~Waiting("adjust_heights", k, q)
                   /\ Waiting("remove_parent", k, q) => f = "remove_parent" /\ ~(n = k /\ p = q)
BY DEF Scene, Under, Linking

LEMMA DrainInv ==
  ASSUME NEW rank \in [Node -> Nat], TypeOK, Inv(rank), NEW n, NEW p, Runs("drain", n, p), Drain(n)
  PROVE  Inv(rank)'
<1>0. Scene(rank, "drain", n, p)
  BY Context, Zenon
<1>1. /\ calls \in Seq(Call) /\ calls # <<>> /\ Stack(rank) /\ CallsTyped /\ Covered
      /\ n \in Node /\ p = NoNode /\ stabilising /\ direct = {} /\ IsMain(n)
      /\ \A d, k, q : Called(d, k, q) <=> Waiting(d, k, q) \/ (d = "drain" /\ k = n /\ q = p)
      /\ \A d, k, q : Waiting(d, k, q) => Under(rank, "drain", n, p, d, k, q)
  BY <1>0 DEF Scene, Paired
<1> DEFINE b == Lhs(n)
           s == created[b]
           first == DoEach("invalidate", s)
<1>2. b \in Node /\ s \in Seq(Node \union {NoNode}) /\ Graph
  BY <1>1, MainChildren DEF Inv, TypeOK
<1>3. /\ created' = [created EXCEPT ![b] = <<>>] /\ Calls(first)
      /\ UNCHANGED <<made, children, valid, values, height, links, heap, invalidated, turn>>
  BY DEF Drain, Lhs
<1>4. \A k \in Node : InRun(k, b) => Exists(k) /\ scope[k] = b /\ rank[k] < rank[n]
  <2>1. ASSUME NEW k \in Node, InRun(k, b) PROVE Exists(k) /\ scope[k] = b
    BY <1>2, <2>1 DEF Graph, Created
  <2>2. RankedAt(rank, n)
    BY <1>1 DEF Inv, Ranked, IsMain, Exists
  <2> QED BY <1>1, <2>1, <2>2 DEF RankedAt
<1>5. /\ first \in Seq(Call)
      /\ \A d, k, q : [do |-> d, node |-> k, with |-> q] \in Range(first)
              <=> d = "invalidate" /\ k \in Range(s) /\ q = NoNode
  <2>1. "invalidate" \in Function
    BY DEF Function
  <2> HIDE DEF s
  <2> QED BY <1>2, <2>1, DoEachFacts
<1>6. \A g \in Range(first) : g.do = "invalidate" /\ CallTyped(g)
  <2>1. ASSUME NEW g \in Range(first) PROVE g.do = "invalidate" /\ CallTyped(g)
    <3> HIDE DEF first
    <3>1. g \in Call
      BY <1>5, <2>1, ElementInSet
    <3>2. g = [do |-> g.do, node |-> g.node, with |-> g.with]
          /\ g.node \in Node \union {NoNode}
      BY <3>1, CallFields
    <3>3. g.do = "invalidate" /\ g.node \in Range(s) /\ g.with = NoNode
      BY <1>5, <3>2, <2>1, Zenon
    <3>4. g.node # NoNode => Exists(g.node)
      BY <1>4, <3>2, <3>3 DEF InRun
    <3> QED BY <3>3, <3>4 DEF CallTyped, Paired, Observing
  <2> QED BY <2>1
<1>7. Ordered(rank, first)
  <2> HIDE DEF first
  <2>1. \A i \in DOMAIN first : first[i].do = "invalidate"
    <3>1. DOMAIN first = 1 .. Len(first)
      BY <1>5
    <3>2. \A i \in 1 .. Len(first) : first[i] \in Range(first)
      BY <1>5, IndexInRange
    <3> QED BY <1>6, <3>1, <3>2
  <2> QED BY <2>1 DEF Ordered, Before, Linking, Ending, Observing
<1>8. \A e, j, o, d, k, q :
        /\ [do |-> e, node |-> j, with |-> o] \in Range(first)
        /\ d \in Function /\ k \in Node \union {NoNode} /\ q \in Node \union {NoNode}
        /\ Waiting(d, k, q) /\ Under(rank, "drain", n, p, d, k, q)
        => Under(rank, e, j, o, d, k, q)
  <2> HIDE DEF first
  <2>1. SUFFICES ASSUME NEW e, NEW j, NEW o, NEW d, NEW k, NEW q,
                        [do |-> e, node |-> j, with |-> o] \in Range(first),
                        Waiting(d, k, q), Under(rank, "drain", n, p, d, k, q)
                 PROVE  Under(rank, e, j, o, d, k, q)
    BY Zenon
  <2>2. e = "invalidate" /\ j \in Range(s) /\ o = NoNode
    BY <1>5, <2>1, Zenon
  <2>3. j # NoNode => j \in Node /\ rank[j] < rank[n]
    <3>1. j \in Node \union {NoNode}
      <4> HIDE DEF s
      <4> QED BY <1>2, <2>2, ElementInSet
    <3> QED BY <1>4, <2>2, <3>1 DEF InRun
  <2>4. d \in Ending => k \in Node
    <3>1. Scene(rank, "drain", n, p)
      BY <1>0
    <3> QED BY <2>1, <3>1 DEF Scene, Ending
  <2>5. n # NoNode
    BY <1>1, NodeAssumption
  <2> QED BY <1>1, <2>1, <2>2, <2>3, <2>4, <2>5 DEF Under, Linking, Ending, Observing
<1>9. /\ calls' \in Seq(Call) /\ Stack(rank)' /\ CallsTyped' /\ Covered'
      /\ \A d, k, q : Called(d, k, q)' <=>
           Waiting(d, k, q) \/ [do |-> d, node |-> k, with |-> q] \in Range(first)
  <2> HIDE DEF first
  <2>1. UNCHANGED kind /\ "drain" \in Adding
    BY <1>3 DEF made, Adding
  <2>2. \A g \in Range(first) : CallTyped(g)
    BY <1>6
  <2> QED BY <1>1, <1>3, <1>5, <1>7, <1>8, <2>1, <2>2, Push
<1> HIDE DEF first
<1>10. \A d, k, q : Called(d, k, q)' <=> Waiting(d, k, q) \/ (d = "invalidate" /\ k \in Range(s) /\ q = NoNode)
  <2> HIDE DEF s
  <2> TAKE d, k, q
  <2>1. Called(d, k, q)' <=> Waiting(d, k, q) \/ [do |-> d, node |-> k, with |-> q] \in Range(first)
    BY <1>9, Zenon
  <2>2. [do |-> d, node |-> k, with |-> q] \in Range(first) <=> d = "invalidate" /\ k \in Range(s) /\ q = NoNode
    BY <1>5, Zenon
  <2> QED BY <2>1, <2>2, Zenon
<1>11. \A d, k, q : d \notin {"drain", "invalidate"} => (Called(d, k, q)' <=> Called(d, k, q))
  BY <1>1, <1>10
<1>12. \A k, q : Called("invalidate", k, q) => Called("invalidate", k, q)'
  BY <1>1, <1>10
<1>13. \A k, q : k # n => (Called("drain", k, q)' <=> Called("drain", k, q))
  BY <1>1, <1>10
<1>14. created'[b] = <<>> /\ \A c \in Node : c # b => created'[c] = created[c]
  BY <1>2, <1>3 DEF TypeOK
<1>15. Graph' /\ Ranked(rank)'
  <2>1. TopNodes' /\ FreshNodes' /\ Shapes' /\ OneMain'
    BY <1>2, <1>3 DEF Graph, TopNodes, FreshNodes, Shapes, Shape, OneMain, made, Exists, IsMain, Lhs, Rhs
  <2>2. NoNodes'
    BY <1>2, <1>3, <1>14 DEF Graph, NoNodes, made, Exists
  <2>3. Created'
    <3>1. SUFFICES ASSUME NEW c \in Node, NEW k \in Node, InRun(k, c)'
                   PROVE  kind'[c] = "Lhs" /\ Exists(k)' /\ scope'[k] = c
      BY DEF Created
    <3>2. c # b
      BY <1>14, <3>1, NothingOrdered, Zenon DEF InRun
    <3>3. InRun(k, c)
      BY <1>14, <3>1, <3>2 DEF InRun
    <3> QED BY <1>2, <1>3, <3>3 DEF Graph, Created, made, Exists
  <2>4. Ranked(rank)'
    <3>1. SUFFICES ASSUME NEW k \in Node, Exists(k)' PROVE RankedAt(rank, k)'
      BY DEF Ranked
    <3>2. RankedAt(rank, k)
      BY <1>3, <3>1 DEF Inv, Ranked, Exists, made
    <3>3. ASSUME NEW j \in Node, NEW c \in Node, InRun(j, c)' PROVE InRun(j, c)
      <4>1. c # b
        BY <1>14, <3>3, NothingOrdered, Zenon DEF InRun
      <4> QED BY <1>14, <3>3, <4>1 DEF InRun
    <3>4. IsMain(k) => Lhs(k) \in Node
      BY <1>2, MainChildren
    <3>5. (IsMain(k)' <=> IsMain(k)) /\ Lhs(k)' = Lhs(k)
      BY <1>3 DEF IsMain, Lhs, made
    <3> QED BY <1>3, <3>2, <3>3, <3>4, <3>5 DEF RankedAt, made
  <2> QED BY <2>1, <2>2, <2>3, <2>4 DEF Graph
<1>16. Validity'
  <2>1. \A k \in Node : valid'[k] \/ Exists(k)'
    BY <1>3 DEF Inv, Validity, Exists, made
  <2>2. ASSUME NEW k \in Fresh, Exists(k)', valid'[k] PROVE Dying(k)' \/ Homed(k)'
    <3>1. k \in Node /\ (Dying(k) \/ Homed(k))
      BY <1>3, <2>2 DEF Inv, Validity, Exists, made, Node
    <3>2. CASE Dying(k)
      BY <1>11, <1>12, <3>2 DEF Dying, Marked
    <3>3. CASE Homed(k) /\ scope[k] = b
      <4>1. k \in Range(s)
        BY <3>3 DEF Homed, InRun
      <4> QED BY <1>10, <4>1 DEF Dying
    <3>4. CASE Homed(k) /\ scope[k] # b
      <4>1. PICK m \in Node : Keeps(m, k)
        BY <3>4 DEF Homed
      <4>2. Keeps(m, k)'
        BY <1>3, <4>1 DEF Keeps, IsMain, Lhs, Rhs, HasRhs, made
      <4>3. scope[k] \in Node
        BY <3>1, <2>2, <1>2, <1>3 DEF Graph, FreshNodes, Exists, made
      <4>4. InRun(k, scope[k])'
        BY <1>3, <1>14, <3>4, <4>3 DEF Homed, InRun, made
      <4> QED BY <1>3, <4>2, <4>4 DEF Homed, made
    <3> QED BY <3>1, <3>2, <3>3, <3>4
  <2>3. ASSUME NEW m \in Node PROVE Emptied(m)'
    <3>1. Emptied(m)
      BY DEF Inv, Validity
    <3>2. (IsMain(m)' <=> IsMain(m)) /\ Lhs(m)' = Lhs(m) /\ valid'[m] = valid[m] /\ (Marked(m)' <=> Marked(m))
      BY <1>3, <1>11 DEF IsMain, Lhs, made, Marked
    <3>3. CASE m = n
      BY <1>3, <1>14, <3>3 DEF Emptied, Lhs
    <3>4. CASE m # n
      <4>1. Called("drain", m, NoNode)' <=> Called("drain", m, NoNode)
        BY <1>13, <3>4
      <4>2. IsMain(m) => Lhs(m) # b
        BY <1>1, <1>2, <3>4 DEF Graph, OneMain
      <4>3. IsMain(m) => created'[Lhs(m)] = created[Lhs(m)]
        BY <1>2, <1>14, <4>2, MainChildren
      <4> QED BY <3>1, <3>2, <4>1, <4>3 DEF Emptied
    <3> QED BY <3>3, <3>4
  <2> QED BY <2>1, <2>2, <2>3 DEF Validity
<1>17. Links' /\ Observers' /\ Times'
  BY <1>3, <1>11, LinksKept, ObserversKept, TimesKept
     DEF Inv, made, links, values, turn, Link, Unlink, Marked, Placing
<1>18. Told'
  BY <1>3, <1>11, <1>12, ToldKept DEF Inv, made, links, turn, Link, Dying, Marked, Queued
<1>19. Heap'
  <2>1. ASSUME NEW k \in Node PROVE Heaped(k)'
    <3>1. Heaped(k)
      BY DEF Inv, Heap
    <3>2. (Necessary(k)' <=> Necessary(k)) /\ valid'[k] = valid[k] /\ height'[k] = height[k]
          /\ (Queued(k)' <=> Queued(k))
      BY <1>3 DEF Necessary, links, Queued, turn
    <3>3. (Marked(k)' <=> Marked(k)) /\ (Called("lower", k, NoNode)' <=> Called("lower", k, NoNode))
      BY <1>11 DEF Marked
    <3> QED BY <3>1, <3>2, <3>3 DEF Heaped
  <2> QED BY <1>1, <1>3, <2>1 DEF Heap, turn
<1> QED BY <1>9, <1>15, <1>16, <1>17, <1>18, <1>19 DEF Inv

LEMMA OneOrdered ==
  ASSUME NEW rank, NEW f \in Call
  PROVE  /\ <<f>> \in Seq(Call) /\ Ordered(rank, <<f>>)
         /\ \A x : x \in Range(<<f>>) <=> x = f
<1> DEFINE s == <<f>>
<1>1. s \in Seq(Call) /\ \A i, j \in DOMAIN s : ~(i < j)
  OBVIOUS
<1>2. \A x : x \in Range(s) <=> x = f
  BY OneCall
<1> HIDE DEF s
<1>3. Ordered(rank, s)
  BY <1>1 DEF Ordered
<1> QED BY <1>1, <1>2, <1>3 DEF s

LEMMA PairOrdered ==
  ASSUME NEW rank, NEW f \in Call, NEW g \in Call, Before(rank, f, g)
  PROVE  /\ <<f, g>> \in Seq(Call) /\ Ordered(rank, <<f, g>>)
         /\ \A x : x \in Range(<<f, g>>) <=> x = f \/ x = g
<1> DEFINE s == <<f, g>>
<1>1. s \in Seq(Call) /\ Len(s) = 2 /\ s[1] = f /\ s[2] = g
  OBVIOUS
<1> HIDE DEF s
<1>2. \A i \in DOMAIN s : i = 1 \/ i = 2
  BY <1>1
<1>3. 1 \in DOMAIN s /\ 2 \in DOMAIN s /\ ~(2 < 1) /\ ~(1 < 1) /\ ~(2 < 2)
  BY <1>1
<1>4. Ordered(rank, s)
  <2>1. SUFFICES ASSUME NEW i \in DOMAIN s, NEW j \in DOMAIN s, i < j
                 PROVE  Before(rank, s[i], s[j])
    BY DEF Ordered
  <2>2. i = 1 /\ j = 2
    BY <1>2, <1>3, <2>1
  <2> QED BY <1>1, <2>2, Zenon
<1>5. \A x : x \in Range(s) <=> x = f \/ x = g
  BY <1>1, <1>2, <1>3 DEF Range
<1> QED BY <1>1, <1>4, <1>5 DEF s

LEMMA OrderedAppend ==
  ASSUME NEW rank, NEW s \in Seq(Call), NEW f \in Call, Ordered(rank, s),
         \A g \in Range(s) : Before(rank, g, f)
  PROVE  Ordered(rank, Append(s, f))
<1> DEFINE t == Append(s, f)
<1>1. DOMAIN s = 1 .. Len(s) /\ Len(s) \in Nat /\ DOMAIN t = 1 .. Len(s) + 1 /\ t[Len(s) + 1] = f
      /\ \A i \in 1 .. Len(s) : t[i] = s[i]
  OBVIOUS
<1> HIDE DEF t
<1>2. SUFFICES ASSUME NEW i \in 1 .. Len(s) + 1, NEW j \in 1 .. Len(s) + 1, i < j
               PROVE  Before(rank, t[i], t[j])
  BY <1>1 DEF Ordered, t
<1>3. CASE j = Len(s) + 1
  <2>1. i \in 1 .. Len(s) /\ t[i] = s[i] /\ s[i] \in Range(s)
    <3>1. i \in 1 .. Len(s)
      BY <1>1, <1>2, <1>3
    <3> QED BY <1>1, <3>1, IndexInRange
  <2> QED BY <1>1, <1>3, <2>1
<1>4. CASE j # Len(s) + 1
  <2>1. i \in 1 .. Len(s) /\ j \in 1 .. Len(s)
    BY <1>1, <1>2, <1>4
  <2> QED BY <1>1, <1>2, <2>1 DEF Ordered
<1> QED BY <1>3, <1>4

\* The calls of invalidate_node, for a valid node.
Ends(n) ==
  (IF Necessary(n) THEN Append(ForChildren("remove_parent", n), Do("lower", n)) ELSE <<>>)
    \o (IF kind[n] = "Main" THEN <<Do("drain", n), Do("mark", n)>> ELSE <<Do("mark", n)>>)

EndsCall(n, d, k, q) ==
  \/ d = "remove_parent" /\ Necessary(n) /\ Child(k, n) /\ q = n
  \/ d = "lower" /\ Necessary(n) /\ k = n /\ q = NoNode
  \/ d = "drain" /\ IsMain(n) /\ k = n /\ q = NoNode
  \/ d = "mark" /\ k = n /\ q = NoNode

LEMMA EndsFacts ==
  ASSUME NEW rank \in [Node -> Nat], TypeOK, Graph, NEW n \in Node, valid[n], Ranked(rank)
  PROVE  /\ Ends(n) \in Seq(Call) /\ Ordered(rank, Ends(n))
         /\ \A d, k, q : [do |-> d, node |-> k, with |-> q] \in Range(Ends(n)) => EndsCall(n, d, k, q)
         /\ \A d, k, q : EndsCall(n, d, k, q) => [do |-> d, node |-> k, with |-> q] \in Range(Ends(n))
<1> DEFINE r == ForChildren("remove_parent", n)
           lo == Do("lower", n)
           dr == Do("drain", n)
           ma == Do("mark", n)
           A == IF Necessary(n) THEN Append(r, lo) ELSE <<>>
           B == IF kind[n] = "Main" THEN <<dr, ma>> ELSE <<ma>>
<1>1. Ends(n) = A \o B
  BY DEF Ends
<1>2. lo \in Call /\ dr \in Call /\ ma \in Call
  BY CallMade DEF Do, Function
<1>3. /\ lo = [do |-> "lower", node |-> n, with |-> NoNode]
      /\ dr = [do |-> "drain", node |-> n, with |-> NoNode]
      /\ ma = [do |-> "mark", node |-> n, with |-> NoNode]
  BY DEF Do
<1>4. /\ r \in Seq(Call) /\ Ordered(rank, r)
      /\ \A d, k, q : [do |-> d, node |-> k, with |-> q] \in Range(r)
           <=> d = "remove_parent" /\ valid[n] /\ Child(k, n) /\ q = n
  <2>1. "remove_parent" \in Function /\ children \in [Node -> Seq(Node)]
    BY DEF Function, TypeOK
  <2> QED BY <2>1, ForChildrenFacts, ForChildrenOrdered
<1> HIDE DEF r, lo, dr, ma
<1>5. \A f \in Call : f = [do |-> f.do, node |-> f.node, with |-> f.with]
  BY CallFields
<1>6. n # NoNode /\ rank[n] \in Nat
  BY NodeAssumption
<1>7. \A g \in Range(r) : Before(rank, g, lo) /\ Before(rank, g, dr) /\ Before(rank, g, ma)
  <2>1. SUFFICES ASSUME NEW g \in Range(r) PROVE Before(rank, g, lo) /\ Before(rank, g, dr) /\ Before(rank, g, ma)
    OBVIOUS
  <2>2. g \in Call
    BY <1>4, <2>1, ElementInSet
  <2>3. g = [do |-> g.do, node |-> g.node, with |-> g.with]
    BY <1>5, <2>2
  <2>4. g.do = "remove_parent" /\ g.with = n
    BY <1>4, <2>1, <2>3, Zenon
  <2>5. Under(rank, g.do, g.node, g.with, "lower", n, NoNode) /\ Under(rank, g.do, g.node, g.with, "drain", n, NoNode)
        /\ Under(rank, g.do, g.node, g.with, "mark", n, NoNode)
    BY <1>6, <2>4 DEF Under, Linking, Ending, Observing
  <2> QED BY <1>3, <2>3, <2>5, BeforeUnder, Zenon
<1>8. Before(rank, lo, dr) /\ Before(rank, lo, ma) /\ Before(rank, dr, ma)
  <2>1. Under(rank, "lower", n, NoNode, "drain", n, NoNode) /\ Under(rank, "lower", n, NoNode, "mark", n, NoNode)
        /\ Under(rank, "drain", n, NoNode, "mark", n, NoNode)
    BY <1>6 DEF Under, Linking, Ending, Observing
  <2> QED BY <1>3, <2>1, BeforeUnder, Zenon
<1>9. /\ A \in Seq(Call) /\ Ordered(rank, A)
      /\ \A x : x \in Range(A) <=> Necessary(n) /\ (x \in Range(r) \/ x = lo)
  <2>1. CASE Necessary(n)
    <3>1. /\ Append(r, lo) \in Seq(Call) /\ Ordered(rank, Append(r, lo))
          /\ \A x : x \in Range(Append(r, lo)) <=> x \in Range(r) \/ x = lo
      BY <1>2, <1>4, <1>7, AppendFacts, OrderedAppend
    <3> QED BY <2>1, <3>1
  <2>2. CASE ~Necessary(n)
    <3>1. A = <<>>
      BY <2>2
    <3> HIDE DEF A
    <3> QED BY <2>2, <3>1, NothingOrdered, Zenon
  <2> QED BY <2>1, <2>2
<1>10. /\ B \in Seq(Call) /\ Ordered(rank, B)
       /\ \A x : x \in Range(B) <=> (x = dr /\ IsMain(n)) \/ x = ma
  <2>1. CASE kind[n] = "Main"
    <3>1. /\ <<dr, ma>> \in Seq(Call) /\ Ordered(rank, <<dr, ma>>)
          /\ \A x : x \in Range(<<dr, ma>>) <=> x = dr \/ x = ma
      BY <1>2, <1>8, PairOrdered
    <3>2. B = <<dr, ma>>
      BY <2>1
    <3> HIDE DEF B
    <3> QED BY <2>1, <3>1, <3>2, Zenon DEF IsMain
  <2>2. CASE kind[n] # "Main"
    <3>1. /\ <<ma>> \in Seq(Call) /\ Ordered(rank, <<ma>>)
          /\ \A x : x \in Range(<<ma>>) <=> x = ma
      BY <1>2, OneOrdered
    <3>2. B = <<ma>>
      BY <2>2
    <3> HIDE DEF B
    <3> QED BY <2>2, <3>1, <3>2, Zenon DEF IsMain
  <2> QED BY <2>1, <2>2
<1> HIDE DEF A, B
<1>11. A \o B \in Seq(Call) /\ \A x : x \in Range(A \o B) <=> x \in Range(A) \/ x \in Range(B)
  BY <1>9, <1>10, Concatenation
<1>12. Ordered(rank, A \o B)
  <2>1. \A f \in Range(A), g \in Range(B) : Before(rank, f, g)
    BY <1>7, <1>8, <1>9, <1>10
  <2> QED BY <1>9, <1>10, <2>1, OrderedConcatenation
<1>13. ASSUME NEW d, NEW k, NEW q
       PROVE  [do |-> d, node |-> k, with |-> q] \in Range(A \o B) <=> EndsCall(n, d, k, q)
  <2> DEFINE g == [do |-> d, node |-> k, with |-> q]
  <2>1. g = lo <=> d = "lower" /\ k = n /\ q = NoNode
    BY <1>3, SameCall, Zenon
  <2>2. g = dr <=> d = "drain" /\ k = n /\ q = NoNode
    BY <1>3, SameCall, Zenon
  <2>3. g = ma <=> d = "mark" /\ k = n /\ q = NoNode
    BY <1>3, SameCall, Zenon
  <2>4. g \in Range(r) <=> d = "remove_parent" /\ Child(k, n) /\ q = n
    <3>1. g \in Range(r) <=> d = "remove_parent" /\ valid[n] /\ Child(k, n) /\ q = n
      BY <1>4, Zenon
    <3> QED BY <3>1
  <2> HIDE DEF g
  <2>5. g \in Range(A \o B) <=>
          (Necessary(n) /\ (g \in Range(r) \/ g = lo)) \/ (g = dr /\ IsMain(n)) \/ g = ma
    BY <1>9, <1>10, <1>11, Zenon
  <2>6. g \in Range(A \o B) <=> EndsCall(n, d, k, q)
    BY <2>1, <2>2, <2>3, <2>4, <2>5, Zenon DEF EndsCall
  <2> QED BY <2>6 DEF g
<1> QED BY <1>1, <1>11, <1>12, <1>13, Zenon

\* invalidate_node of a node that is not there or is invalid already.
LEMMA NothingToInvalidate ==
  ASSUME NEW rank \in [Node -> Nat], TypeOK, Inv(rank), NEW n, NEW p, Runs("invalidate", n, p),
         InvalidateNode(n), n = NoNode \/ ~valid[n]
  PROVE  Inv(rank)'
<1>0. Scene(rank, "invalidate", n, p)
  BY Context, Zenon
<1>1. /\ calls \in Seq(Call) /\ calls # <<>> /\ Stack(rank) /\ CallsTyped /\ Covered
      /\ p = NoNode /\ stabilising /\ direct = {}
      /\ \A d, k, q : Called(d, k, q) <=> Waiting(d, k, q) \/ (d = "invalidate" /\ k = n /\ q = p)
  BY <1>0 DEF Scene, Paired
<1>2. /\ UNCHANGED <<made, children, created, valid, values, height, links, heap, invalidated,
                     turn, panicked>>
      /\ Returns
  BY DEF InvalidateNode
<1>3. /\ calls' \in Seq(Call) /\ Stack(rank)' /\ CallsTyped' /\ Covered'
      /\ \A d, k, q : Called(d, k, q)' <=> Waiting(d, k, q)
  BY <1>1, <1>2, Return DEF made
<1>4. \A d, k, q : d # "invalidate" => (Called(d, k, q)' <=> Called(d, k, q))
  BY <1>1, <1>3
<1>5. \A k \in Node : Dying(k) /\ valid[k] => Dying(k)'
  BY <1>1, <1>3, NodeAssumption DEF Dying, Marked, InvalidateNode
<1>6. Graph' /\ Ranked(rank)'
  BY <1>2, GraphKept DEF Inv, made
<1>7. Validity'
  BY <1>2, <1>4, <1>5, ValidityKept DEF Inv, made, Marked, Dying
<1>8. Links' /\ Observers' /\ Times'
  BY <1>2, <1>4, LinksKept, ObserversKept, TimesKept
     DEF Inv, made, links, values, turn, Link, Unlink, Marked, Placing
<1>9. Told'
  BY <1>2, <1>4, <1>5, ToldKept DEF Inv, made, links, turn, Link, Queued
<1>10. Heap'
  <2>1. ASSUME NEW k \in Node PROVE Heaped(k)'
    <3>1. Heaped(k)
      BY DEF Inv, Heap
    <3>2. (Necessary(k)' <=> Necessary(k)) /\ valid'[k] = valid[k] /\ height'[k] = height[k]
          /\ (Queued(k)' <=> Queued(k))
      BY <1>2 DEF Necessary, links, Queued, turn
    <3>3. (Marked(k)' <=> Marked(k)) /\ (Called("lower", k, NoNode)' <=> Called("lower", k, NoNode))
      BY <1>4 DEF Marked
    <3> QED BY <3>1, <3>2, <3>3 DEF Heaped
  <2> QED BY <1>1, <1>2, <2>1 DEF Heap, turn
<1> QED BY <1>3, <1>6, <1>7, <1>8, <1>9, <1>10 DEF Inv

LEMMA InvalidateNodeInv ==
  ASSUME NEW rank \in [Node -> Nat], TypeOK, Inv(rank), NEW n, NEW p, Runs("invalidate", n, p),
         InvalidateNode(n)
  PROVE  Inv(rank)'
<1>0. Scene(rank, "invalidate", n, p)
  BY Context, Zenon
<1> SUFFICES ASSUME ~(n = NoNode \/ ~valid[n]) PROVE Inv(rank)'
  BY NothingToInvalidate
<1>1. /\ calls \in Seq(Call) /\ calls # <<>> /\ Stack(rank) /\ CallsTyped /\ Covered
      /\ n \in Node /\ valid[n] /\ Exists(n) /\ p = NoNode /\ stabilising /\ direct = {}
      /\ \A d, k, q : Called(d, k, q) <=> Waiting(d, k, q) \/ (d = "invalidate" /\ k = n /\ q = p)
      /\ \A d, k, q : Waiting(d, k, q) =>
           Under(rank, "invalidate", n, p, d, k, q) /\ (d \in Ending => k \in Node)
  BY <1>0 DEF Scene, Paired, Ending
<1> DEFINE first == Ends(n)
<1>2. /\ value' = [value EXCEPT ![n] = NoValue]
      /\ changedAt' = [changedAt EXCEPT ![n] = now]
      /\ recomputedAt' = [recomputedAt EXCEPT ![n] = now]
      /\ Calls(first)
      /\ UNCHANGED <<made, children, created, valid, height, links, heap, invalidated, turn>>
  BY DEF InvalidateNode, Ends
<1>3. Graph /\ Ranked(rank)
  BY DEF Inv
<1>4. /\ first \in Seq(Call) /\ Ordered(rank, first)
      /\ \A d, k, q : [do |-> d, node |-> k, with |-> q] \in Range(first) => EndsCall(n, d, k, q)
      /\ \A d, k, q : EndsCall(n, d, k, q) => [do |-> d, node |-> k, with |-> q] \in Range(first)
  BY <1>1, <1>3, EndsFacts
<1> HIDE DEF first
<1>5. \A g \in Range(first) : CallTyped(g)
  <2>1. SUFFICES ASSUME NEW g \in Range(first) PROVE CallTyped(g)
    OBVIOUS
  <2>2. g \in Call
    BY <1>4, <2>1, ElementInSet
  <2>3. g = [do |-> g.do, node |-> g.node, with |-> g.with]
    BY <2>2, CallFields
  <2>4. EndsCall(n, g.do, g.node, g.with)
    BY <1>4, <2>1, <2>3, Zenon
  <2>5. Child(g.node, n) => g.node \in Node
    BY <1>1, <1>3, Children
  <2> QED BY <1>1, <2>4, <2>5, NodeAssumption DEF EndsCall, CallTyped, Paired, Observing
<1>6. ASSUME NEW e, NEW j, NEW o, NEW d, NEW k, NEW q,
             [do |-> e, node |-> j, with |-> o] \in Range(first),
             d \in Function, k \in Node \union {NoNode}, q \in Node \union {NoNode},
             Waiting(d, k, q), Under(rank, "invalidate", n, p, d, k, q)
      PROVE  Under(rank, e, j, o, d, k, q)
  <2>1. EndsCall(n, e, j, o)
    BY <1>4, <1>6, Zenon
  <2>2. /\ d \notin Linking /\ d # "adjust_heights" /\ d # "remove_parent"
        /\ d \in Ending => k \in Node /\ rank[n] < rank[k]
    BY <1>1, <1>6 DEF Under, Linking, Ending
  <2>3. d \in Ending => rank[n] \in Nat /\ rank[k] \in Nat
    BY <1>1, <1>6
  <2> QED BY <2>1, <2>2, <2>3 DEF EndsCall, Under, Linking, Ending, Observing
<1>7. /\ calls' \in Seq(Call) /\ Stack(rank)' /\ CallsTyped' /\ Covered'
      /\ \A d, k, q : Called(d, k, q)' <=>
           Waiting(d, k, q) \/ [do |-> d, node |-> k, with |-> q] \in Range(first)
  <2>1. UNCHANGED kind /\ "invalidate" \in Adding
    BY <1>2 DEF made, Adding
  <2> QED BY <1>1, <1>2, <1>4, <1>5, <1>6, <2>1, Push
<1>8. ASSUME NEW d, NEW k, NEW q PROVE Called(d, k, q)' <=> Waiting(d, k, q) \/ EndsCall(n, d, k, q)
  BY <1>4, <1>7, Zenon
<1>9. /\ \A k \in Node : Marked(k)' <=> Marked(k) \/ k = n
      /\ \A k \in Node : Called("drain", k, NoNode)' <=> Called("drain", k, NoNode) \/ (k = n /\ IsMain(n))
      /\ \A k \in Node : Called("lower", k, NoNode)' => Called("lower", k, NoNode) \/ k = n
      /\ \A k \in Node : Dying(k) => Dying(k)'
      /\ \A o : Called("release", o, NoNode)' <=> Called("release", o, NoNode)
      /\ \A c, k : Called("queue_if_older", c, k)' <=> Called("queue_if_older", c, k)
      /\ Called("propagate_invalidity", NoNode, NoNode)' <=> Called("propagate_invalidity", NoNode, NoNode)
  BY <1>1, <1>8 DEF Marked, Dying, EndsCall
<1>10. /\ \A c, k \in Node : ~Link(c, k) /\ ~Link(c, k)' /\ ~Unlink(c, k)
       /\ \A c, k \in Node : Unlink(c, k)' <=> Necessary(n) /\ Child(c, n) /\ k = n
       /\ \A k \in Node : ~Placing(k) /\ ~Placing(k)'
       /\ ~Marked(n)
  <2>1. \A k, q : ~Waiting("add_parent", k, q) /\ ~Waiting("place", k, q) /\ ~Waiting("remove_parent", k, q)
    BY <1>0, NoLinkUnder DEF Linking
  <2>2. ~Waiting("mark", n, NoNode)
    <3>1. Waiting("mark", n, NoNode) => rank[n] < rank[n]
      BY <1>1, NodeAssumption DEF Under, Ending
    <3> QED BY <1>1, <3>1
  <2> QED BY <1>1, <1>8, <2>1, <2>2 DEF Link, Unlink, Placing, Marked, EndsCall
<1>11. Graph' /\ Ranked(rank)'
  BY <1>2, <1>3, GraphKept DEF made
<1>12. Validity'
  <2>1. ASSUME NEW m \in Node PROVE Emptied(m)'
    <3>1. Emptied(m)
      BY DEF Inv, Validity
    <3>2. (IsMain(m)' <=> IsMain(m)) /\ Lhs(m)' = Lhs(m) /\ valid'[m] = valid[m] /\ created' = created
      BY <1>2 DEF IsMain, Lhs, made
    <3>3. CASE m = n
      BY <1>1, <1>9, <3>2, <3>3 DEF Emptied
    <3>4. CASE m # n
      BY <1>9, <3>1, <3>2, <3>4 DEF Emptied
    <3> QED BY <3>3, <3>4
  <2>2. ASSUME NEW k \in Fresh, Exists(k)', valid'[k] PROVE Dying(k)' \/ Homed(k)'
    <3>1. k \in Node /\ (Dying(k) \/ Homed(k))
      BY <1>2, <2>2 DEF Inv, Validity, Exists, made, Node
    <3>2. Homed(k)' <=> Homed(k)
      BY <1>2 DEF Homed, Keeps, InRun, IsMain, Lhs, Rhs, HasRhs, made
    <3> QED BY <1>9, <3>1, <3>2
  <2>3. \A k \in Node : valid'[k] \/ Exists(k)'
    BY <1>2 DEF Inv, Validity, Exists, made
  <2> QED BY <2>1, <2>2, <2>3 DEF Validity
<1>13. Links'
  <2>1. ASSUME NEW c \in Node, NEW k \in Node PROVE Linked(c, k)'
    <3>1. Linked(c, k)
      BY DEF Inv, Links
    <3>2. (IsParent(k, c)' <=> IsParent(k, c)) /\ valid'[k] = valid[k] /\ (Child(c, k)' <=> Child(c, k))
          /\ (Necessary(k)' <=> Necessary(k))
      BY <1>2 DEF IsParent, Child, Necessary, links
    <3>3. ~Link(c, k) /\ ~Link(c, k)' /\ ~Unlink(c, k)
          /\ (Unlink(c, k)' <=> Necessary(n) /\ Child(c, n) /\ k = n) /\ (Marked(k)' <=> Marked(k) \/ k = n)
      BY <1>9, <1>10
    <3> QED BY <1>1, <1>10, <3>1, <3>2, <3>3 DEF Linked
  <2>2. \A c \in Node : Single(parents[c])'
    BY <1>2 DEF Inv, Links, links, Single
  <2> QED BY <1>10, <2>1, <2>2 DEF Links
<1>14. Observers'
  BY <1>2, <1>9, ObserversKept DEF Inv, made, links
<1>15. Times'
  <2>1. now \in Nat /\ now' = now /\ valid' = valid
    BY <1>2 DEF TypeOK, turn
  <2>2. \A k \in Node : changedAt'[k] = IF k = n THEN now ELSE changedAt[k]
    BY <1>2 DEF TypeOK
  <2>3. \A k \in Node : recomputedAt'[k] = IF k = n THEN now ELSE recomputedAt[k]
    BY <1>2 DEF TypeOK
  <2> QED BY <1>9, <2>1, <2>2, <2>3 DEF Inv, Times
<1>16. Told'
  BY <1>2, <1>9, <1>10, ToldKept DEF Inv, made, links, turn, Queued
<1>17. Heap'
  <2>1. ASSUME NEW k \in Node PROVE Heaped(k)'
    <3>1. Heaped(k)
      BY DEF Inv, Heap
    <3>2. (Necessary(k)' <=> Necessary(k)) /\ valid'[k] = valid[k] /\ height'[k] = height[k]
          /\ (Queued(k)' <=> Queued(k))
      BY <1>2 DEF Necessary, links, Queued, turn
    <3> QED BY <1>9, <3>1, <3>2 DEF Heaped
  <2> QED BY <1>1, <1>2, <2>1 DEF Heap, turn
<1> QED BY <1>7, <1>11, <1>12, <1>13, <1>14, <1>15, <1>16, <1>17 DEF Inv

LEMMA MarkInvalidInv ==
  ASSUME NEW rank \in [Node -> Nat], TypeOK, Inv(rank), NEW n, NEW p, Runs("mark", n, p),
         MarkInvalid(n)
  PROVE  Inv(rank)'
<1>0. Scene(rank, "mark", n, p)
  BY Context, Zenon
<1>1. /\ calls \in Seq(Call) /\ calls # <<>> /\ Stack(rank) /\ CallsTyped /\ Covered
      /\ n \in Node /\ Exists(n) /\ p = NoNode /\ stabilising /\ direct = {}
      /\ \A d, k, q : Called(d, k, q) <=> Waiting(d, k, q) \/ (d = "mark" /\ k = n /\ q = p)
      /\ \A d, k, q : Waiting(d, k, q) => Under(rank, "mark", n, p, d, k, q)
  BY <1>0, NodeAssumption DEF Scene, Paired
<1>2. /\ valid' = [valid EXCEPT ![n] = FALSE]
      /\ invalidated' = invalidated \o parents[n]
      /\ heap' = heap \ {n}
      /\ Returns
      /\ UNCHANGED <<made, children, created, values, height, links, turn>>
  BY DEF MarkInvalid
<1>3. /\ calls' \in Seq(Call) /\ Stack(rank)' /\ CallsTyped' /\ Covered'
      /\ \A d, k, q : Called(d, k, q)' <=> Waiting(d, k, q)
  BY <1>1, <1>2, Return DEF made
<1>4. \A d, k, q : d # "mark" => (Called(d, k, q)' <=> Called(d, k, q))
  BY <1>1, <1>3
<1>5. /\ ~Waiting("mark", n, NoNode) /\ ~Called("drain", n, NoNode) /\ ~Called("lower", n, NoNode)
      /\ Marked(n)
  <2>1. \A d : Waiting(d, n, NoNode) /\ d \in Ending => rank[n] < rank[n]
    BY <1>1, NodeAssumption DEF Under
  <2>2. ~(rank[n] < rank[n])
    BY <1>1
  <2> QED BY <1>1, <2>1, <2>2 DEF Ending, Marked
<1>6. /\ \A k : Marked(k)' <=> Marked(k) /\ k # n
      /\ \A k \in Node : k # n => (Dying(k)' <=> Dying(k))
  BY <1>1, <1>3, <1>4, <1>5 DEF Marked, Dying
<1>7. /\ \A c, k : ~Link(c, k) /\ ~Link(c, k)' /\ ~Unlink(c, k) /\ ~Unlink(c, k)'
      /\ \A k : ~Placing(k)'
  <2>1. \A k, q : ~Waiting("add_parent", k, q) /\ ~Waiting("place", k, q) /\ ~Waiting("remove_parent", k, q)
    BY <1>0, NoLinkUnder DEF Linking
  <2> QED BY <1>1, <1>3, <2>1 DEF Link, Unlink, Placing
<1>8. /\ valid'[n] = FALSE
      /\ \A k \in Node : k # n => valid'[k] = valid[k]
  BY <1>1, <1>2 DEF TypeOK
<1>9. Graph' /\ Ranked(rank)'
  BY <1>2, GraphKept DEF Inv, made
<1>10. Validity'
  <2>1. ASSUME NEW m \in Node PROVE Emptied(m)'
    <3>1. Emptied(m)
      BY DEF Inv, Validity
    <3>2. (IsMain(m)' <=> IsMain(m)) /\ Lhs(m)' = Lhs(m) /\ created' = created
          /\ (Called("drain", m, NoNode)' <=> Called("drain", m, NoNode))
      BY <1>2, <1>4 DEF IsMain, Lhs, made
    <3>3. CASE m = n
      BY <1>5, <3>1, <3>2, <3>3 DEF Emptied
    <3>4. CASE m # n
      BY <1>6, <1>8, <3>1, <3>2, <3>4 DEF Emptied
    <3> QED BY <3>3, <3>4
  <2>2. ASSUME NEW k \in Fresh, Exists(k)', valid'[k] PROVE Dying(k)' \/ Homed(k)'
    <3>1. k \in Node /\ k # n /\ (Dying(k) \/ Homed(k))
      BY <1>2, <1>8, <2>2 DEF Inv, Validity, Exists, made, Node
    <3>2. Homed(k)' <=> Homed(k)
      BY <1>2 DEF Homed, Keeps, InRun, IsMain, Lhs, Rhs, HasRhs, made
    <3> QED BY <1>6, <3>1, <3>2
  <2>3. \A k \in Node : valid'[k] \/ Exists(k)'
    BY <1>1, <1>2, <1>8 DEF Inv, Validity, Exists, made
  <2> QED BY <2>1, <2>2, <2>3 DEF Validity
<1>11. \A c \in Node : ~IsParent(n, c)
  <2>1. \A c \in Node : Linked(c, n)
    BY <1>1 DEF Inv, Links
  <2> QED BY <1>5, <1>7, <2>1 DEF Linked
<1>12. Links'
  <2>1. ASSUME NEW c \in Node, NEW k \in Node PROVE Linked(c, k)'
    <3>1. Linked(c, k)
      BY DEF Inv, Links
    <3>2. (IsParent(k, c)' <=> IsParent(k, c)) /\ (Child(c, k)' <=> Child(c, k))
          /\ (Necessary(k)' <=> Necessary(k))
      BY <1>2 DEF IsParent, Child, Necessary, links
    <3>3. CASE k = n
      BY <1>7, <1>8, <1>11, <3>2, <3>3 DEF Linked
    <3>4. CASE k # n
      BY <1>6, <1>7, <1>8, <3>1, <3>2, <3>4 DEF Linked
    <3> QED BY <3>3, <3>4
  <2>2. \A c \in Node : Single(parents[c])'
    BY <1>2 DEF Inv, Links, links, Single
  <2> QED BY <1>7, <2>1, <2>2 DEF Links
<1>13. Observers'
  BY <1>2, <1>4, ObserversKept DEF Inv, made, links
<1>14. Times'
  <2>1. UNCHANGED <<changedAt, recomputedAt, now>>
    BY <1>2 DEF values, turn
  <2>2. recomputedAt[n] = now
    BY <1>1, <1>5 DEF Inv, Times
  <2>3. ASSUME NEW c \in Node, NEW k \in Node, Called("queue_if_older", c, k)'
        PROVE  valid'[k] \/ recomputedAt'[k] = now'
    BY <1>4, <1>8, <2>1, <2>2, <2>3 DEF Inv, Times
  <2> QED BY <1>6, <2>1, <2>3 DEF Inv, Times
<1>15. Told'
  <2>1. parents[n] \in Seq(Node) /\ invalidated \in Seq(Node)
    BY <1>1 DEF TypeOK
  <2>2. \A x : x \in Range(invalidated') <=> x \in Range(invalidated) \/ x \in Range(parents[n])
    BY <1>2, <2>1, Concatenation
  <2>3. ASSUME NEW k \in Node, NEW c \in Node PROVE ToldOf(k, c)'
    <3>1. SUFFICES ASSUME k # n, valid[k], Necessary(k), Child(c, k), ~valid'[c]
                   PROVE  \/ k \in Range(invalidated') \/ Dying(k)'
                          \/ IsMain(k)' /\ c # Lhs(k)' /\ Queued(k)'
      BY <1>2, <1>8 DEF ToldOf, Necessary, Child, links
    <3>2. (IsMain(k)' <=> IsMain(k)) /\ Lhs(k)' = Lhs(k) /\ (Queued(k)' <=> Queued(k))
      BY <1>2, <3>1 DEF IsMain, Lhs, made, Queued, turn
    <3>3. CASE c = n
      <4>1. Linked(n, k)
        BY <1>1 DEF Inv, Links
      <4>2. IsParent(k, n) \/ Marked(k)
        BY <1>7, <3>1, <3>3, <4>1 DEF Linked
      <4> QED BY <1>6, <2>2, <3>1, <4>2 DEF IsParent, Dying
    <3>4. CASE c # n
      <4>1. ToldOf(k, c) /\ ~valid[c]
        BY <1>8, <3>1, <3>4 DEF Inv, Told
      <4> QED BY <1>6, <1>7, <2>2, <3>1, <3>2, <4>1 DEF ToldOf
    <3> QED BY <3>3, <3>4
  <2>4. Called("propagate_invalidity", NoNode, NoNode)'
    <3>1. "mark" \in Adding
      BY DEF Adding
    <3> QED BY <1>0, <1>3, <3>1, PropagationWaits, Zenon
  <2> QED BY <2>3, <2>4 DEF Told
<1>16. Heap'
  <2>1. ASSUME NEW k \in Node PROVE Heaped(k)'
    <3>1. Heaped(k)
      BY DEF Inv, Heap
    <3>2. (Necessary(k)' <=> Necessary(k)) /\ height'[k] = height[k]
          /\ (Queued(k)' <=> Queued(k) /\ k # n)
          /\ (Called("lower", k, NoNode)' <=> Called("lower", k, NoNode))
      BY <1>1, <1>2, <1>4 DEF Necessary, links, Queued, turn
    <3>3. CASE k = n
      BY <1>5, <1>8, <3>2, <3>3 DEF Heaped
    <3>4. CASE k # n
      BY <1>6, <1>8, <3>1, <3>2, <3>4 DEF Heaped
    <3> QED BY <3>3, <3>4
  <2> QED BY <1>1, <1>2, <2>1 DEF Heap, turn
<1> QED BY <1>3, <1>9, <1>10, <1>12, <1>13, <1>14, <1>15, <1>16 DEF Inv

\* A call is made, and the running one is to go on after it.
LEMMA PushOnTop ==
  ASSUME NEW rank, calls \in Seq(Call), Stack(rank), CallsTyped, Covered, UNCHANGED kind,
         NEW d, NEW n, NEW p, [do |-> d, node |-> n, with |-> p] \in Call,
         CallTyped([do |-> d, node |-> n, with |-> p]),
         calls' = <<[do |-> d, node |-> n, with |-> p]>> \o calls,
         Called("propagate_invalidity", NoNode, NoNode),
         \A e, k, q : Called(e, k, q) => Under(rank, d, n, p, e, k, q)
  PROVE  /\ calls' \in Seq(Call) /\ Stack(rank)' /\ CallsTyped' /\ Covered'
         /\ \A e, k, q : Called(e, k, q)' <=> Called(e, k, q) \/ (e = d /\ k = n /\ q = p)
<1> DEFINE f == [do |-> d, node |-> n, with |-> p]
           s == <<f>>
<1>1. s \in Seq(Call) /\ Ordered(rank, s) /\ \A x : x \in Range(s) <=> x = f
  BY OneOrdered
<1>2. calls' = s \o calls
  OBVIOUS
<1> HIDE DEF f, s
<1>3. /\ calls' \in Seq(Call)
      /\ \A x : x \in Range(calls') <=> x \in Range(s) \/ x \in Range(calls)
  BY <1>1, <1>2, Concatenation
<1>4. \A g \in Range(calls) : Before(rank, f, g)
  <2>1. SUFFICES ASSUME NEW g \in Range(calls) PROVE Before(rank, f, g)
    OBVIOUS
  <2>2. g \in Call
    BY <2>1, ElementInSet
  <2>3. g = [do |-> g.do, node |-> g.node, with |-> g.with]
    BY <2>2, CallFields
  <2>4. Called(g.do, g.node, g.with)
    BY <2>1, <2>3, Zenon DEF Called
  <2>5. Under(rank, d, n, p, g.do, g.node, g.with)
    BY <2>4, Zenon
  <2>6. Before(rank, f, [do |-> g.do, node |-> g.node, with |-> g.with])
    BY <2>5, BeforeUnder, Zenon DEF f
  <2> QED BY <2>3, <2>6, Zenon
<1>5. Stack(rank)'
  <2>1. Ordered(rank, s \o calls)
    BY <1>1, <1>4, OrderedConcatenation DEF Stack
  <2> QED BY <1>2, <2>1 DEF Stack
<1>6. CallsTyped'
  BY <1>1, <1>3, CallsTypedKept, Zenon DEF f
<1>7. Covered'
  <2> DEFINE g == [do |-> "propagate_invalidity", node |-> NoNode, with |-> NoNode]
  <2>1. g \in Range(calls) /\ g.do = "propagate_invalidity"
    BY DEF Called
  <2> HIDE DEF g
  <2>2. Heard(s \o calls)
    BY <1>1, <2>1, HeardConcatenation DEF Covered
  <2> QED BY <1>2, <2>2 DEF Covered
<1>8. ASSUME NEW e, NEW k, NEW q
      PROVE  Called(e, k, q)' <=> Called(e, k, q) \/ (e = d /\ k = n /\ q = p)
  <2>1. [do |-> e, node |-> k, with |-> q] = f <=> e = d /\ k = n /\ q = p
    BY SameCall, Zenon DEF f
  <2> QED BY <1>1, <1>3, <2>1, Zenon DEF Called
<1> QED BY <1>3, <1>5, <1>6, <1>7, <1>8

\* A node that should be invalidated has an invalid child, and only a main node with a
\* valid lhs-change can have one and be left.
LEMMA ShouldBe ==
  ASSUME TypeOK, Graph, NEW n \in Node
  PROVE  /\ ShouldBeInvalidated(n) /\ (\A k \in Node : valid[k] \/ Exists(k)) => Exists(n)
         /\ \A c \in Node : Child(c, n) /\ ~valid[c] /\ ~ShouldBeInvalidated(n) =>
              IsMain(n) /\ c # Lhs(n)
<1>1. ASSUME ShouldBeInvalidated(n) PROVE Exists(n)
  <2>1. CASE kind[n] = "Main"
    BY <2>1 DEF Exists
  <2>2. CASE kind[n] # "Main"
    <3>1. PICK c \in Range(children[n]) : ~valid[c]
      BY <1>1, <2>2 DEF ShouldBeInvalidated
    <3> QED BY <3>1, Children DEF Child
  <2> QED BY <2>1, <2>2
<1>2. ASSUME NEW c \in Node, Child(c, n), ~valid[c], ~ShouldBeInvalidated(n)
      PROVE  IsMain(n) /\ c # Lhs(n)
  BY <1>2 DEF ShouldBeInvalidated, Child, IsMain, Lhs
<1> QED BY <1>1, <1>2

LEMMA PropagateInvalidityInv ==
  ASSUME NEW rank \in [Node -> Nat], TypeOK, Inv(rank), NEW x, NEW p, ~panicked, ~panicked',
         Runs("propagate_invalidity", x, p), PropagateInvalidity
  PROVE  Inv(rank)'
<1>0. Scene(rank, "propagate_invalidity", x, p)
  BY Context, Zenon
<1>1. /\ calls \in Seq(Call) /\ calls # <<>> /\ Stack(rank) /\ CallsTyped /\ Covered
      /\ x = NoNode /\ p = NoNode /\ stabilising /\ direct = {}
      /\ \A d, k, q : Called(d, k, q) <=>
           Waiting(d, k, q) \/ (d = "propagate_invalidity" /\ k = NoNode /\ q = NoNode)
      /\ \A d, k, q : Waiting(d, k, q) => Under(rank, "propagate_invalidity", x, p, d, k, q)
  BY <1>0 DEF Scene, Paired
<1>2. UNCHANGED <<made, children, created, valid, values, height, links, turn>>
  BY DEF PropagateInvalidity
<1>3. Called("propagate_invalidity", NoNode, NoNode)
  BY <1>1
<1>4. Graph' /\ Ranked(rank)'
  BY <1>2, GraphKept DEF Inv, made
<1>5. \A d, k, q : Called(d, k, q) =>
        d \notin Linking /\ d # "adjust_heights" /\ d # "remove_parent" /\ d \notin Ending
  BY <1>1 DEF Under, Linking, Ending
<1>6. CASE invalidated = <<>>
  <2>1. Returns /\ UNCHANGED <<heap, invalidated>>
    BY <1>6 DEF PropagateInvalidity
  <2>2. /\ calls' \in Seq(Call) /\ Stack(rank)' /\ CallsTyped' /\ Covered'
        /\ \A d, k, q : Called(d, k, q)' <=> Waiting(d, k, q)
    BY <1>1, <1>2, <2>1, Return DEF made
  <2>3. \A d, k, q : d # "propagate_invalidity" => (Called(d, k, q)' <=> Called(d, k, q))
    BY <1>1, <2>2
  <2>4. Validity'
    BY <1>2, <2>3, ValidityKept DEF Inv, made, Marked, Dying
  <2>5. Links' /\ Observers' /\ Times'
    BY <1>2, <2>3, LinksKept, ObserversKept, TimesKept
       DEF Inv, made, links, values, turn, Link, Unlink, Marked, Placing
  <2>6. Told'
    BY <1>2, <1>6, <2>1, <2>3, ToldKept DEF Inv, made, links, turn, Link, Dying, Marked, Queued
  <2>7. Heap'
    <3>1. ASSUME NEW k \in Node PROVE Heaped(k)'
      <4>1. Heaped(k)
        BY DEF Inv, Heap
      <4>2. (Necessary(k)' <=> Necessary(k)) /\ valid'[k] = valid[k] /\ height'[k] = height[k]
            /\ (Queued(k)' <=> Queued(k))
        BY <1>2, <2>1 DEF Necessary, links, Queued, turn
      <4>3. (Marked(k)' <=> Marked(k)) /\ (Called("lower", k, NoNode)' <=> Called("lower", k, NoNode))
        BY <2>3 DEF Marked
      <4> QED BY <4>1, <4>2, <4>3 DEF Heaped
    <3> QED BY <1>1, <1>2, <3>1 DEF Heap, turn
  <2> QED BY <1>4, <2>2, <2>4, <2>5, <2>6, <2>7 DEF Inv
<1>7. CASE invalidated # <<>>
  <2>0. PICK n \in Node : n = Last(invalidated)
    BY <1>7, LastFacts DEF TypeOK
  <2>1. /\ invalidated' = Front(invalidated)
        /\ \A k : k \in Range(invalidated) => k \in Range(invalidated') \/ k = n
    <3>1. invalidated \in Seq(Node) /\ invalidated' = Front(invalidated)
      BY <1>7 DEF TypeOK, PropagateInvalidity
    <3> QED BY <1>7, <2>0, <3>1, LastFacts
  <2>2. \/ ~valid[n] /\ UNCHANGED <<calls, heap>>
        \/ valid[n] /\ ShouldBeInvalidated(n) /\ calls' = <<Do("invalidate", n)>> \o calls /\ UNCHANGED heap
        \/ valid[n] /\ ~ShouldBeInvalidated(n) /\ Insert(n) /\ UNCHANGED calls
    BY <1>7, <2>0 DEF PropagateInvalidity
  <2>3. /\ calls' \in Seq(Call) /\ Stack(rank)' /\ CallsTyped' /\ Covered'
        /\ \A d, k, q : Called(d, k, q)' <=> Called(d, k, q)
             \/ (d = "invalidate" /\ k = n /\ q = NoNode /\ calls' # calls)
        /\ valid[n] /\ ShouldBeInvalidated(n) => Called("invalidate", n, NoNode)'
    <3>1. CASE UNCHANGED calls /\ ~(valid[n] /\ ShouldBeInvalidated(n))
      <4>1. CallsTyped'
        BY <1>1, <1>2, <3>1, CallsTypedKept DEF made
      <4> QED BY <1>1, <3>1, <4>1 DEF Stack, Covered, Called
    <3>2. CASE valid[n] /\ ShouldBeInvalidated(n) /\ calls' = <<Do("invalidate", n)>> \o calls
      <4>1. Exists(n)
        BY <2>1, <3>2, ShouldBe DEF Inv, Validity
      <4> DEFINE f == [do |-> "invalidate", node |-> n, with |-> NoNode]
      <4>2. f \in Call /\ CallTyped(f)
        BY <2>1, <4>1, NodeAssumption DEF Call, Function, CallTyped, Paired, Observing
      <4>3. calls' = <<f>> \o calls
        BY <3>2 DEF Do
      <4>4. \A d, k, q : Called(d, k, q) => Under(rank, "invalidate", n, NoNode, d, k, q)
        BY <1>5 DEF Under, Linking, Ending, Observing
      <4> HIDE DEF f
      <4>5. /\ calls' \in Seq(Call) /\ Stack(rank)' /\ CallsTyped' /\ Covered'
            /\ \A e, k, q : Called(e, k, q)' <=> Called(e, k, q) \/ (e = "invalidate" /\ k = n /\ q = NoNode)
        BY <1>1, <1>2, <1>3, <4>2, <4>3, <4>4, PushOnTop DEF f, made
      <4>6. calls' # calls
        <5>1. Len(calls') = 1 + Len(calls) /\ Len(calls) \in Nat
          BY <1>1, <4>2, <4>3
        <5> QED BY <5>1
      <4>7. ASSUME NEW d, NEW k, NEW q
            PROVE  Called(d, k, q)' <=> Called(d, k, q)
                     \/ (d = "invalidate" /\ k = n /\ q = NoNode /\ calls' # calls)
        <5>1. Called(d, k, q)' <=> Called(d, k, q) \/ (d = "invalidate" /\ k = n /\ q = NoNode)
          BY <4>5, Zenon
        <5> QED BY <4>6, <5>1
      <4>8. Called("invalidate", n, NoNode)'
        BY <4>5, Zenon
      <4> QED BY <4>5, <4>7, <4>8, Zenon
    <3> QED BY <2>2, <3>1, <3>2
  <2>4. \A d, k, q : d # "invalidate" => (Called(d, k, q)' <=> Called(d, k, q))
    BY <2>3
  <2>5. \A k, q : Called("invalidate", k, q) => Called("invalidate", k, q)'
    BY <2>3
  <2>6. heap' = heap \/ (Insert(n) /\ valid[n] /\ Necessary(n))
    <3>1. ~Marked(n)
      BY <1>5 DEF Marked, Ending
    <3> QED BY <2>1, <2>2, <3>1, InsertedNecessary
  <2>7. Validity'
    BY <1>2, <2>4, <2>5, ValidityKept DEF Inv, made, Marked, Dying
  <2>8. Links' /\ Observers' /\ Times'
    BY <1>2, <2>4, LinksKept, ObserversKept, TimesKept
       DEF Inv, made, links, values, turn, Link, Unlink, Marked, Placing
  <2>9. Told'
    <3>1. ASSUME NEW k \in Node, NEW c \in Node PROVE ToldOf(k, c)'
      <4>1. SUFFICES ASSUME valid[k], Necessary(k), Child(c, k), ~valid[c]
                     PROVE  \/ k \in Range(invalidated') \/ Link(c, k)' \/ Dying(k)'
                            \/ IsMain(k)' /\ c # Lhs(k)' /\ Queued(k)'
        BY <1>2 DEF ToldOf, Necessary, Child, links
      <4>2. ToldOf(k, c)
        BY DEF Inv, Told
      <4>3. /\ (IsMain(k)' <=> IsMain(k)) /\ Lhs(k)' = Lhs(k) /\ (Queued(k) => Queued(k)')
            /\ (Link(c, k) <=> Link(c, k)') /\ (Dying(k) => Dying(k)')
        BY <1>2, <2>2, <2>4, <2>5 DEF IsMain, Lhs, made, Queued, turn, Insert, Link, Dying, Marked
      <4>4. CASE k = n /\ ShouldBeInvalidated(n)
        <5>1. valid[n] /\ ShouldBeInvalidated(n)
          BY <4>1, <4>4
        <5>2. Called("invalidate", k, NoNode)'
          BY <2>3, <4>4, <5>1, Zenon
        <5> QED BY <5>2 DEF Dying
      <4>5. CASE k = n /\ ~ShouldBeInvalidated(n)
        <5>1. IsMain(k) /\ c # Lhs(k)
          BY <4>1, <4>5, ShouldBe DEF Inv
        <5>2. Queued(k)'
          BY <2>2, <4>1, <4>5 DEF Queued, Insert
        <5> QED BY <4>3, <5>1, <5>2
      <4>6. CASE k # n
        BY <2>1, <4>1, <4>2, <4>3, <4>6 DEF ToldOf
      <4> QED BY <4>4, <4>5, <4>6
    <3> QED BY <1>3, <2>4, <3>1 DEF Told
  <2>10. Heap'
    <3>1. ASSUME NEW k \in Node PROVE Heaped(k)'
      <4>1. Heaped(k)
        BY DEF Inv, Heap
      <4>2. (Necessary(k)' <=> Necessary(k)) /\ valid'[k] = valid[k] /\ height'[k] = height[k]
        BY <1>2 DEF Necessary, links
      <4>3. Queued(k)' => Queued(k) \/ (k = n /\ valid[n] /\ Necessary(n))
        BY <1>2, <2>6 DEF Queued, turn, Insert
      <4>4. (Marked(k)' <=> Marked(k)) /\ (Called("lower", k, NoNode)' <=> Called("lower", k, NoNode))
        BY <2>4 DEF Marked
      <4> QED BY <4>1, <4>2, <4>3, <4>4 DEF Heaped
    <3> QED BY <1>1, <1>2, <3>1 DEF Heap, turn
  <2> QED BY <1>4, <2>3, <2>7, <2>8, <2>9, <2>10 DEF Inv
<1> QED BY <1>6, <1>7

-----------------------------------------------------------------------------
(***************************************************************************)
(* Linking.                                                                *)
(***************************************************************************)
\* The calls of became_necessary.
Starts(n) == ForChildren("add_parent", n) \o <<Do("place", n)>>

StartsCall(n, d, k, q) ==
  \/ d = "add_parent" /\ valid[n] /\ Child(k, n) /\ q = n
  \/ d = "place" /\ k = n /\ q = NoNode

LEMMA StartsFacts ==
  ASSUME NEW rank \in [Node -> Nat], TypeOK, Graph, NEW n \in Node
  PROVE  /\ Starts(n) \in Seq(Call) /\ Ordered(rank, Starts(n))
         /\ \A d, k, q : [do |-> d, node |-> k, with |-> q] \in Range(Starts(n)) => StartsCall(n, d, k, q)
         /\ \A d, k, q : StartsCall(n, d, k, q) => [do |-> d, node |-> k, with |-> q] \in Range(Starts(n))
<1> DEFINE r == ForChildren("add_parent", n)
           pl == Do("place", n)
<1>1. pl \in Call
  BY CallMade DEF Do, Function
<1>2. pl = [do |-> "place", node |-> n, with |-> NoNode]
  BY DEF Do
<1>3. Starts(n) = r \o <<pl>>
  BY DEF Starts
<1>4. /\ r \in Seq(Call) /\ Ordered(rank, r)
      /\ \A d, k, q : [do |-> d, node |-> k, with |-> q] \in Range(r)
           <=> d = "add_parent" /\ valid[n] /\ Child(k, n) /\ q = n
  <2>1. "add_parent" \in Function /\ children \in [Node -> Seq(Node)]
    BY DEF Function, TypeOK
  <2> QED BY <2>1, ForChildrenFacts, ForChildrenOrdered
<1> HIDE DEF r, pl
<1>5. <<pl>> \in Seq(Call) /\ Ordered(rank, <<pl>>) /\ \A x : x \in Range(<<pl>>) <=> x = pl
  BY <1>1, OneOrdered
<1>6. \A g \in Range(r) : Before(rank, g, pl)
  <2>1. SUFFICES ASSUME NEW g \in Range(r) PROVE Before(rank, g, pl)
    OBVIOUS
  <2>2. g \in Call
    BY <1>4, <2>1, ElementInSet
  <2>3. g = [do |-> g.do, node |-> g.node, with |-> g.with]
    BY <2>2, CallFields
  <2>4. g.do = "add_parent" /\ g.with = n
    BY <1>4, <2>1, <2>3, Zenon
  <2>5. Under(rank, g.do, g.node, g.with, "place", n, NoNode)
    <3>1. rank[n] \in Nat
      OBVIOUS
    <3> QED BY <2>4, <3>1 DEF Under, Linking, Ending, Observing
  <2> QED BY <1>2, <2>3, <2>5, BeforeUnder, Zenon
<1>7. /\ r \o <<pl>> \in Seq(Call) /\ Ordered(rank, r \o <<pl>>)
      /\ \A x : x \in Range(r \o <<pl>>) <=> x \in Range(r) \/ x \in Range(<<pl>>)
  <2>1. \A f \in Range(r), g \in Range(<<pl>>) : Before(rank, f, g)
    BY <1>5, <1>6
  <2> DEFINE t == <<pl>>
  <2>2. t \in Seq(Call) /\ Ordered(rank, t) /\ \A f \in Range(r), g \in Range(t) : Before(rank, f, g)
    BY <1>5, <2>1
  <2> HIDE DEF t
  <2>3. r \o t \in Seq(Call) /\ \A x : x \in Range(r \o t) <=> x \in Range(r) \/ x \in Range(t)
    BY <1>4, <2>2, Concatenation
  <2>4. Ordered(rank, r \o t)
    BY <1>4, <2>2, OrderedConcatenation
  <2> QED BY <2>3, <2>4 DEF t
<1>8. ASSUME NEW d, NEW k, NEW q
      PROVE  [do |-> d, node |-> k, with |-> q] \in Range(r \o <<pl>>) <=> StartsCall(n, d, k, q)
  <2> DEFINE g == [do |-> d, node |-> k, with |-> q]
  <2>1. g = pl <=> d = "place" /\ k = n /\ q = NoNode
    BY <1>2, SameCall, Zenon
  <2>2. g \in Range(r) <=> d = "add_parent" /\ valid[n] /\ Child(k, n) /\ q = n
    BY <1>4, Zenon
  <2>3. g \in Range(r \o <<pl>>) <=> g \in Range(r) \/ g = pl
    BY <1>5, <1>7, Zenon
  <2> HIDE DEF g
  <2>4. g \in Range(r \o <<pl>>) <=> StartsCall(n, d, k, q)
    BY <2>1, <2>2, <2>3, Zenon DEF StartsCall
  <2> QED BY <2>4 DEF g
<1> QED BY <1>3, <1>7, <1>8, Zenon

LEMMA NothingAfter ==
  ASSUME NEW S, NEW s \in Seq(S)
  PROVE  s \o <<>> = s
OBVIOUS

\* A node that is not necessary is nobody's parent, while nothing is unlinked.
LEMMA NotLinked ==
  ASSUME Links, NEW c \in Node, ~Necessary(c), \A k \in Node : ~Unlink(k, c)
  PROVE  \A k \in Node : ~IsParent(c, k) /\ ~Link(k, c)
<1>1. \A k \in Node : Linked(k, c)
  BY DEF Links
<1> QED BY <1>1 DEF Linked

\* What add_parent finds and what it does to the links.
LEMMA AddParentFacts ==
  ASSUME NEW rank \in [Node -> Nat], TypeOK, Inv(rank), NEW c, NEW p, Runs("add_parent", c, p),
         AddParentWithoutAdjustingHeights(c, p)
  PROVE  /\ c \in Node /\ p \in Node /\ valid[p] /\ Necessary(p) /\ Child(c, p) /\ ~IsParent(p, c)
         /\ rank[c] < rank[p] /\ c # p /\ ~Marked(p)
         /\ \A q, k \in Node : IsParent(q, k)' <=> IsParent(q, k) \/ (k = c /\ q = p)
         /\ \A k \in Node : Single(parents[k])'
         /\ parents' \in [Node -> Seq(Node)]
         /\ Necessary(c)' /\ \A k \in Node : k # c => (Necessary(k)' <=> Necessary(k))
         /\ Called("propagate_invalidity", NoNode, NoNode)
         /\ Waiting("propagate_invalidity", NoNode, NoNode)
         /\ invalidated' \in Seq(Node)
         /\ \A x : x \in Range(invalidated) => x \in Range(invalidated')
         /\ ~valid[c] => p \in Range(invalidated')
         /\ \A k, q : ~Unlink(k, q) /\ ~Waiting("add_parent", c, p)
<1>0. Scene(rank, "add_parent", c, p)
  BY Context, Zenon
<1>1. /\ c \in Node /\ p \in Node
      /\ \A d, k, q : Called(d, k, q) <=> Waiting(d, k, q) \/ (d = "add_parent" /\ k = c /\ q = p)
      /\ \A d, k, q : Waiting(d, k, q) => Under(rank, "add_parent", c, p, d, k, q)
  BY <1>0 DEF Scene, Paired
<1>2. Linked(c, p) /\ Link(c, p) /\ Single(parents[c])
  BY <1>1 DEF Inv, Links, Link
<1>3. valid[p] /\ Necessary(p) /\ Child(c, p) /\ ~IsParent(p, c)
  BY <1>2 DEF Linked
<1>4. rank[c] < rank[p] /\ c # p
  <2>1. Exists(p) /\ Ranked(rank)
    BY <1>1, <1>3, Children DEF Inv
  <2>2. rank[c] < rank[p]
    BY <1>1, <1>3, <2>1 DEF Ranked, RankedAt, Child
  <2> QED BY <1>1, <2>2
<1>5. ~Marked(p) /\ \A k, q : ~Unlink(k, q) /\ ~Waiting("add_parent", c, p)
  BY <1>1 DEF Under, Linking, Ending, Marked, Unlink
<1>6. /\ parents' = [parents EXCEPT ![c] = Append(@, p)]
      /\ invalidated' = IF valid[c] THEN invalidated ELSE Append(invalidated, p)
      /\ UNCHANGED <<observed, forced>>
  BY DEF AddParentWithoutAdjustingHeights
<1>7. parents[c] \in Seq(Node) /\ invalidated \in Seq(Node)
  BY <1>1 DEF TypeOK
<1>8. /\ Append(parents[c], p) \in Seq(Node) /\ Append(parents[c], p) # <<>>
      /\ \A y : y \in Range(Append(parents[c], p)) <=> y \in Range(parents[c]) \/ y = p
      /\ Single(Append(parents[c], p))
  BY <1>1, <1>2, <1>3, <1>7, AppendFacts DEF IsParent
<1>9. parents'[c] = Append(parents[c], p) /\ \A k \in Node : k # c => parents'[k] = parents[k]
  BY <1>1, <1>6 DEF TypeOK
<1>10. parents' \in [Node -> Seq(Node)]
  BY <1>1, <1>6, <1>8 DEF TypeOK
<1>11. \A q, k \in Node : IsParent(q, k)' <=> IsParent(q, k) \/ (k = c /\ q = p)
  BY <1>8, <1>9 DEF IsParent
<1>12. \A k \in Node : Single(parents[k])'
  <2>1. SUFFICES ASSUME NEW k \in Node PROVE Single(parents'[k])
    BY DEF Single
  <2> QED BY <1>8, <1>9 DEF Inv, Links
<1>13. Necessary(c)' /\ \A k \in Node : k # c => (Necessary(k)' <=> Necessary(k))
  BY <1>6, <1>8, <1>9 DEF Necessary
<1>14. Waiting("propagate_invalidity", NoNode, NoNode) /\ Called("propagate_invalidity", NoNode, NoNode)
  <2>1. "add_parent" \in Adding
    BY DEF Adding
  <2>2. Waiting("propagate_invalidity", NoNode, NoNode)
    BY <1>0, <2>1, PropagationWaits, Zenon
  <2> QED BY <1>1, <2>2
<1>15. /\ invalidated' \in Seq(Node)
       /\ \A x : x \in Range(invalidated) => x \in Range(invalidated')
       /\ ~valid[c] => p \in Range(invalidated')
  <2>1. CASE valid[c]
    BY <1>6, <1>7, <2>1
  <2>2. CASE ~valid[c]
    <3>1. invalidated' = Append(invalidated, p)
      BY <1>6, <2>2
    <3> QED BY <1>1, <1>7, <3>1, AppendFacts
  <2> QED BY <2>1, <2>2
<1> QED BY <1>1, <1>3, <1>4, <1>5, <1>10, <1>11, <1>12, <1>13, <1>14, <1>15

\* The child is necessary already.
LEMMA AddParentToNecessary ==
  ASSUME NEW rank \in [Node -> Nat], TypeOK, Inv(rank), NEW c, NEW p, Runs("add_parent", c, p),
         AddParentWithoutAdjustingHeights(c, p), Necessary(c)
  PROVE  Inv(rank)'
<1>0. Scene(rank, "add_parent", c, p)
  BY Context, Zenon
<1>1. /\ calls \in Seq(Call) /\ calls # <<>> /\ Stack(rank) /\ CallsTyped /\ Covered
      /\ c \in Node /\ p \in Node /\ stabilising /\ direct = {}
      /\ \A d, k, q : Called(d, k, q) <=> Waiting(d, k, q) \/ (d = "add_parent" /\ k = c /\ q = p)
  BY <1>0 DEF Scene, Paired
<1>2. /\ valid[p] /\ Necessary(p) /\ Child(c, p) /\ ~IsParent(p, c) /\ ~Marked(p)
      /\ \A q, k \in Node : IsParent(q, k)' <=> IsParent(q, k) \/ (k = c /\ q = p)
      /\ \A k \in Node : Single(parents[k])'
      /\ Necessary(c)' /\ \A k \in Node : k # c => (Necessary(k)' <=> Necessary(k))
      /\ Waiting("propagate_invalidity", NoNode, NoNode)
      /\ \A x : x \in Range(invalidated) => x \in Range(invalidated')
      /\ ~valid[c] => p \in Range(invalidated')
      /\ \A k, q : ~Unlink(k, q) /\ ~Waiting("add_parent", c, p)
  BY AddParentFacts
<1>3. UNCHANGED <<made, children, created, valid, values, observed, forced, height, heap, turn>>
      /\ Returns
  BY DEF AddParentWithoutAdjustingHeights
<1>4. /\ calls' \in Seq(Call) /\ Stack(rank)' /\ CallsTyped' /\ Covered'
      /\ \A d, k, q : Called(d, k, q)' <=> Waiting(d, k, q)
  BY <1>1, <1>3, Return DEF made
<1>5. /\ \A d, k, q : d # "add_parent" => (Called(d, k, q)' <=> Called(d, k, q))
      /\ \A k, q : Link(k, q)' <=> Link(k, q) /\ ~(k = c /\ q = p)
  BY <1>1, <1>2, <1>4 DEF Link
<1>6. \A k \in Node : Necessary(k)' <=> Necessary(k)
  BY <1>2
<1>7. Graph' /\ Ranked(rank)'
  BY <1>3, GraphKept DEF Inv, made
<1>8. Validity'
  BY <1>3, <1>5, ValidityKept DEF Inv, made, Marked, Dying
<1>9. Observers' /\ Times'
  BY <1>3, <1>5, ObserversKept, TimesKept DEF Inv, made, values, turn, Marked
<1>10. Links'
  <2>1. ASSUME NEW k \in Node, NEW q \in Node PROVE Linked(k, q)'
    <3>1. Linked(k, q)
      BY DEF Inv, Links
    <3>2. valid'[q] = valid[q] /\ (Child(k, q)' <=> Child(k, q)) /\ (Necessary(q)' <=> Necessary(q))
          /\ (Marked(q)' <=> Marked(q)) /\ ~Unlink(k, q) /\ ~Unlink(k, q)'
      BY <1>2, <1>3, <1>5, <1>6 DEF Child, Marked, Unlink
    <3>3. CASE k = c /\ q = p
      BY <1>2, <1>5, <3>2, <3>3 DEF Linked
    <3>4. CASE ~(k = c /\ q = p)
      BY <1>2, <1>5, <3>1, <3>2, <3>4 DEF Linked
    <3> QED BY <3>3, <3>4
  <2>2. \A k \in Node : Placing(k)' => Necessary(k)'
    BY <1>5, <1>6 DEF Inv, Links, Placing
  <2> QED BY <1>2, <2>1, <2>2 DEF Links
<1>11. Told'
  <2>1. ASSUME NEW n \in Node, NEW k \in Node PROVE ToldOf(n, k)'
    <3>1. ToldOf(n, k)
      BY DEF Inv, Told
    <3>2. /\ valid'[n] = valid[n] /\ valid'[k] = valid[k] /\ (Child(k, n)' <=> Child(k, n))
          /\ (Necessary(n)' <=> Necessary(n)) /\ (Dying(n)' <=> Dying(n))
          /\ (IsMain(n)' <=> IsMain(n)) /\ Lhs(n)' = Lhs(n) /\ (Queued(n)' <=> Queued(n))
      BY <1>3, <1>5, <1>6 DEF Child, Dying, Marked, IsMain, Lhs, made, Queued, turn
    <3>3. Link(k, n) => Link(k, n)' \/ (~valid[k] => n \in Range(invalidated'))
      BY <1>2, <1>5
    <3> QED BY <1>2, <3>1, <3>2, <3>3 DEF ToldOf
  <2> QED BY <1>2, <1>4, <2>1 DEF Told
<1>12. Heap'
  <2>1. ASSUME NEW k \in Node PROVE Heaped(k)'
    <3>1. Heaped(k)
      BY DEF Inv, Heap
    <3>2. valid'[k] = valid[k] /\ height'[k] = height[k] /\ (Queued(k)' <=> Queued(k))
      BY <1>3 DEF Queued, turn
    <3>3. (Marked(k)' <=> Marked(k)) /\ (Called("lower", k, NoNode)' <=> Called("lower", k, NoNode))
      BY <1>5 DEF Marked
    <3> QED BY <1>6, <3>1, <3>2, <3>3 DEF Heaped
  <2> QED BY <1>1, <1>3, <2>1 DEF Heap, turn
<1> QED BY <1>4, <1>7, <1>8, <1>9, <1>10, <1>11, <1>12 DEF Inv

\* The child becomes necessary.
LEMMA AddParentToUnnecessary ==
  ASSUME NEW rank \in [Node -> Nat], TypeOK, Inv(rank), NEW c, NEW p, Runs("add_parent", c, p),
         AddParentWithoutAdjustingHeights(c, p), ~Necessary(c)
  PROVE  Inv(rank)'
<1>0. Scene(rank, "add_parent", c, p)
  BY Context, Zenon
<1>1. /\ calls \in Seq(Call) /\ calls # <<>> /\ Stack(rank) /\ CallsTyped /\ Covered
      /\ c \in Node /\ p \in Node /\ stabilising /\ direct = {}
      /\ \A d, k, q : Called(d, k, q) <=> Waiting(d, k, q) \/ (d = "add_parent" /\ k = c /\ q = p)
      /\ \A d, k, q : Waiting(d, k, q) => (d \notin {"propagate_invalidity", "drop", "invalidate"} => k # NoNode)
                                          /\ (d \in Paired <=> q # NoNode)
  BY <1>0 DEF Scene, Paired
<1>2. /\ valid[p] /\ Necessary(p) /\ Child(c, p) /\ ~IsParent(p, c) /\ ~Marked(p)
      /\ rank[c] < rank[p] /\ c # p
      /\ \A q, k \in Node : IsParent(q, k)' <=> IsParent(q, k) \/ (k = c /\ q = p)
      /\ \A k \in Node : Single(parents[k])'
      /\ Necessary(c)' /\ \A k \in Node : k # c => (Necessary(k)' <=> Necessary(k))
      /\ Waiting("propagate_invalidity", NoNode, NoNode)
      /\ \A x : x \in Range(invalidated) => x \in Range(invalidated')
      /\ ~valid[c] => p \in Range(invalidated')
      /\ \A k, q : ~Unlink(k, q) /\ ~Waiting("add_parent", c, p)
  BY AddParentFacts
<1>3. Graph /\ Links
  BY DEF Inv
<1> DEFINE first == Starts(c)
<1>4. /\ first \in Seq(Call) /\ Ordered(rank, first)
      /\ \A d, k, q : [do |-> d, node |-> k, with |-> q] \in Range(first) => StartsCall(c, d, k, q)
      /\ \A d, k, q : StartsCall(c, d, k, q) => [do |-> d, node |-> k, with |-> q] \in Range(first)
  BY <1>1, <1>3, StartsFacts
<1>5. UNCHANGED <<made, children, created, valid, values, observed, forced, heap, turn>>
      /\ \A k \in Node : k # c => height'[k] = height[k]
  BY <1>1 DEF AddParentWithoutAdjustingHeights, BecameNecessary, TypeOK
<1>6. Calls(first)
  <2>1. Calls(first \o <<>>)
    BY DEF AddParentWithoutAdjustingHeights, BecameNecessary, Starts, Calls
  <2>2. first \o <<>> = first
    BY <1>4, NothingAfter
  <2> HIDE DEF first
  <2> QED BY <2>1, <2>2
<1> HIDE DEF first
<1>7. \A g \in Range(first) : CallTyped(g)
  <2>1. SUFFICES ASSUME NEW g \in Range(first) PROVE CallTyped(g)
    OBVIOUS
  <2>2. g \in Call
    BY <1>4, <2>1, ElementInSet
  <2>3. g = [do |-> g.do, node |-> g.node, with |-> g.with]
    BY <2>2, CallFields
  <2>4. StartsCall(c, g.do, g.node, g.with)
    BY <1>4, <2>1, <2>3, Zenon
  <2>5. Child(g.node, c) => g.node \in Node
    BY <1>1, <1>3, Children
  <2> QED BY <1>1, <2>4, <2>5, NodeAssumption DEF StartsCall, CallTyped, Paired, Observing
<1>8. ASSUME NEW e, NEW j, NEW o, NEW d, NEW k, NEW q,
             [do |-> e, node |-> j, with |-> o] \in Range(first),
             d \in Function, k \in Node \union {NoNode}, q \in Node \union {NoNode},
             Waiting(d, k, q), Under(rank, "add_parent", c, p, d, k, q)
      PROVE  Under(rank, e, j, o, d, k, q)
  <2>1. StartsCall(c, e, j, o)
    BY <1>4, <1>8, Zenon
  <2>2. e \in Linking /\ (IF e = "add_parent" THEN o ELSE j) = c
    BY <2>1 DEF StartsCall, Linking
  <2> DEFINE w == IF d = "add_parent" THEN q ELSE k
  <2>3. d \notin {"remove_parent"} /\ d \notin Ending /\ e \notin Observing \union {"release", "change", "drop"}
    BY <1>8, <2>2 DEF Under, Linking, Ending, Observing
  <2>4. d \in Linking => w \in Node /\ rank[p] <= rank[w]
    BY <1>1, <1>8 DEF Under, Linking, Paired
  <2>5. d \in Linking => rank[c] <= rank[w] /\ w # c
    <3>1. rank[c] \in Nat /\ rank[p] \in Nat /\ (w \in Node => rank[w] \in Nat)
      BY <1>1
    <3> HIDE DEF w
    <3> QED BY <1>2, <2>4, <3>1
  <2>6. d \in Linking => ~(e = d /\ j = k /\ o = q)
    BY <2>2, <2>5
  <2> QED BY <2>2, <2>3, <2>5, <2>6 DEF Under, Linking
<1>9. /\ calls' \in Seq(Call) /\ Stack(rank)' /\ CallsTyped' /\ Covered'
      /\ \A d, k, q : Called(d, k, q)' <=>
           Waiting(d, k, q) \/ [do |-> d, node |-> k, with |-> q] \in Range(first)
  <2>1. UNCHANGED kind /\ "add_parent" \in Adding
    BY <1>5 DEF made, Adding
  <2> QED BY <1>1, <1>4, <1>6, <1>7, <1>8, <2>1, Push
<1>10. ASSUME NEW d, NEW k, NEW q PROVE Called(d, k, q)' <=> Waiting(d, k, q) \/ StartsCall(c, d, k, q)
  BY <1>4, <1>9, Zenon
<1>11. /\ \A d, k, q : d \notin Linking => (Called(d, k, q)' <=> Called(d, k, q))
       /\ \A k, q : Link(k, q)' <=> (Link(k, q) /\ ~(k = c /\ q = p)) \/ (valid[c] /\ Child(k, c) /\ q = c)
       /\ \A k : Placing(k)' => Placing(k) \/ k = c
  BY <1>1, <1>2, <1>10 DEF Link, Placing, StartsCall, Linking
<1>12. \A k \in Node : Necessary(k) => Necessary(k)'
  BY <1>2
<1>13. \A k \in Node : ~IsParent(c, k) /\ ~Link(k, c)
  BY <1>1, <1>2, <1>3, NotLinked
<1>14. Graph' /\ Ranked(rank)'
  BY <1>5, GraphKept DEF Inv, made
<1>15. Validity'
  BY <1>5, <1>11, ValidityKept DEF Inv, made, Marked, Dying, Linking
<1>16. Observers' /\ Times'
  BY <1>5, <1>11, ObserversKept, TimesKept DEF Inv, made, values, turn, Marked, Linking
<1>17. Links'
  <2>1. ASSUME NEW k \in Node, NEW q \in Node PROVE Linked(k, q)'
    <3>1. Linked(k, q)
      BY <1>3 DEF Links
    <3>2. valid'[q] = valid[q] /\ (Child(k, q)' <=> Child(k, q))
          /\ (Marked(q)' <=> Marked(q)) /\ ~Unlink(k, q) /\ ~Unlink(k, q)'
      BY <1>2, <1>5, <1>11 DEF Child, Marked, Unlink, Linking
    <3>3. CASE q = c
      BY <1>2, <1>11, <1>13, <3>2, <3>3 DEF Linked
    <3>4. CASE k = c /\ q = p
      BY <1>2, <1>11, <3>2, <3>4 DEF Linked
    <3>5. CASE q # c /\ ~(k = c /\ q = p)
      BY <1>2, <1>11, <3>1, <3>2, <3>5 DEF Linked
    <3> QED BY <3>3, <3>4, <3>5
  <2>2. \A k \in Node : Placing(k)' => Necessary(k)'
    BY <1>2, <1>3, <1>11 DEF Links
  <2> QED BY <1>2, <2>1, <2>2 DEF Links
<1>18. Told'
  <2>1. ASSUME NEW n \in Node, NEW k \in Node PROVE ToldOf(n, k)'
    <3>1. ToldOf(n, k)
      BY DEF Inv, Told
    <3>2. /\ valid'[n] = valid[n] /\ valid'[k] = valid[k] /\ (Child(k, n)' <=> Child(k, n))
          /\ (Dying(n)' <=> Dying(n))
          /\ (IsMain(n)' <=> IsMain(n)) /\ Lhs(n)' = Lhs(n) /\ (Queued(n)' <=> Queued(n))
      BY <1>5, <1>11 DEF Child, Dying, Marked, IsMain, Lhs, made, Queued, turn, Linking
    <3>3. CASE n = c
      BY <1>11, <3>2, <3>3 DEF ToldOf
    <3>4. CASE n # c
      <4>1. Link(k, n) => Link(k, n)' \/ (~valid[k] => n \in Range(invalidated'))
        BY <1>2, <1>11
      <4>2. Necessary(n)' <=> Necessary(n)
        BY <1>2, <3>4
      <4> QED BY <1>2, <3>1, <3>2, <4>1, <4>2 DEF ToldOf
    <3> QED BY <3>3, <3>4
  <2>2. Called("propagate_invalidity", NoNode, NoNode)'
    BY <1>2, <1>10
  <2> QED BY <2>1, <2>2 DEF Told
<1>19. Heap'
  <2>1. ASSUME NEW k \in Node PROVE Heaped(k)'
    <3>1. Heaped(k)
      BY DEF Inv, Heap
    <3>2. valid'[k] = valid[k] /\ (Queued(k)' <=> Queued(k)) /\ (k # c => height'[k] = height[k])
      BY <1>5 DEF Queued, turn
    <3>3. (Marked(k)' <=> Marked(k)) /\ (Called("lower", k, NoNode)' <=> Called("lower", k, NoNode))
      BY <1>11 DEF Marked, Linking
    <3> QED BY <1>2, <3>1, <3>2, <3>3 DEF Heaped
  <2> QED BY <1>1, <1>5, <2>1 DEF Heap, turn
<1> QED BY <1>9, <1>14, <1>15, <1>16, <1>17, <1>18, <1>19 DEF Inv

LEMMA AddParentInv ==
  ASSUME NEW rank \in [Node -> Nat], TypeOK, Inv(rank), NEW c, NEW p, Runs("add_parent", c, p),
         AddParentWithoutAdjustingHeights(c, p)
  PROVE  Inv(rank)'
BY AddParentToNecessary, AddParentToUnnecessary, Zenon

\* No node's necessity changes, nor what waits to change it.
LEMMA LinksSame ==
  ASSUME UNCHANGED <<children, valid, parents>>, Links,
         \A n \in Node : Necessary(n)' <=> Necessary(n),
         \A c, p \in Node : Link(c, p)' <=> Link(c, p),
         \A c, p \in Node : Unlink(c, p)' <=> Unlink(c, p),
         \A n \in Node : Marked(n)' <=> Marked(n),
         \A n \in Node : Placing(n)' => Placing(n)
  PROVE  Links'
<1>1. ASSUME NEW c \in Node, NEW p \in Node PROVE Linked(c, p)'
  <2>1. Linked(c, p)
    BY DEF Links
  <2>2. (IsParent(p, c)' <=> IsParent(p, c)) /\ (Child(c, p)' <=> Child(c, p)) /\ valid'[p] = valid[p]
    BY DEF IsParent, Child
  <2> QED BY <2>1, <2>2 DEF Linked
<1>2. \A c \in Node : Single(parents[c])'
  BY DEF Links, Single
<1> QED BY <1>1, <1>2 DEF Links

LEMMA ToldSame ==
  ASSUME UNCHANGED <<kind, children, valid, invalidated, heap, direct>>, Told,
         \A n \in Node : Necessary(n)' <=> Necessary(n),
         \A n, c \in Node : Link(c, n) => Link(c, n)',
         \A n \in Node : Dying(n) => Dying(n)',
         Called("propagate_invalidity", NoNode, NoNode) => Called("propagate_invalidity", NoNode, NoNode)'
  PROVE  Told'
<1>1. ASSUME NEW n \in Node, NEW c \in Node PROVE ToldOf(n, c)'
  <2>1. ToldOf(n, c)
    BY DEF Told
  <2>2. (Child(c, n)' <=> Child(c, n)) /\ (IsMain(n)' <=> IsMain(n)) /\ Lhs(n)' = Lhs(n)
        /\ (Queued(n)' <=> Queued(n)) /\ valid' = valid
    BY DEF Child, IsMain, Lhs, Queued
  <2> QED BY <2>1, <2>2 DEF ToldOf
<1> QED BY <1>1 DEF Told

LEMMA HeapSame ==
  ASSUME UNCHANGED <<valid, heap, direct, height, stabilising>>, Heap, stabilising, direct = {},
         \A n \in Node : Necessary(n)' <=> Necessary(n),
         \A n \in Node : Marked(n)' <=> Marked(n),
         \A n \in Node : Called("lower", n, NoNode)' => Called("lower", n, NoNode)
  PROVE  Heap'
<1>1. ASSUME NEW k \in Node PROVE Heaped(k)'
  <2>1. Heaped(k)
    BY DEF Heap
  <2>2. valid' = valid /\ height' = height /\ (Queued(k)' <=> Queued(k))
    BY DEF Queued
  <2> QED BY <2>1, <2>2 DEF Heaped
<1> QED BY <1>1 DEF Heap

LEMMA ObservableFacts ==
  ASSUME NEW n \in Range(Observable)
  PROVE  n \in Node /\ n \in Top \ LhsNode
<1>1. n \in Top \ LhsNode
  BY NodeAssumption, ElementInSet
<1> QED BY <1>1 DEF Node

\* A node that has no new observer, or is necessary already.
LEMMA AddObserverToNecessary ==
  ASSUME NEW rank \in [Node -> Nat], TypeOK, Inv(rank), NEW n, NEW p, Runs("add_observer", n, p),
         AddObserver(n), n \notin wanted \/ Necessary(n)
  PROVE  Inv(rank)'
<1>0. Scene(rank, "add_observer", n, p)
  BY Context, Zenon
<1>1. /\ calls \in Seq(Call) /\ calls # <<>> /\ Stack(rank) /\ CallsTyped /\ Covered
      /\ n \in Range(Observable) /\ p = NoNode /\ stabilising /\ direct = {}
      /\ \A d, k, q : Called(d, k, q) <=> Waiting(d, k, q) \/ (d = "add_observer" /\ k = n /\ q = p)
  BY <1>0 DEF Scene, Paired, Observing
<1>2. n \in Node /\ n \in Top \ LhsNode
  BY <1>1, ObservableFacts
<1>3. /\ UNCHANGED <<made, children, created, valid, values, parents, forced, heap, invalidated, turn, height>>
      /\ Returns
      /\ observed' = observed \/ (Necessary(n) /\ observed' = observed \union {n})
  BY DEF AddObserver
<1>4. /\ calls' \in Seq(Call) /\ Stack(rank)' /\ CallsTyped' /\ Covered'
      /\ \A d, k, q : Called(d, k, q)' <=> Waiting(d, k, q)
  BY <1>1, <1>3, Return DEF made
<1>5. \A d, k, q : d # "add_observer" => (Called(d, k, q)' <=> Called(d, k, q))
  BY <1>1, <1>4
<1>6. \A k \in Node : Necessary(k)' <=> Necessary(k)
  BY <1>3 DEF Necessary
<1>7. Graph' /\ Ranked(rank)'
  BY <1>3, GraphKept DEF Inv, made
<1>8. Validity'
  BY <1>3, <1>5, ValidityKept DEF Inv, made, Marked, Dying
<1>9. Observers'
  <2>1. observed' \subseteq Top \ LhsNode
    BY <1>2, <1>3 DEF Inv, Observers
  <2> QED BY <1>3, <1>5, <2>1 DEF Inv, Observers, made
<1>10. Times'
  BY <1>3, <1>5, TimesKept DEF Inv, values, turn, Marked
<1>11. Links'
  BY <1>3, <1>5, <1>6, LinksSame DEF Inv, Link, Unlink, Marked, Placing
<1>12. Told'
  BY <1>3, <1>5, <1>6, ToldSame DEF Inv, made, turn, Link, Dying, Marked
<1>13. Heap'
  BY <1>1, <1>3, <1>5, <1>6, HeapSame DEF Inv, turn, Marked
<1> QED BY <1>4, <1>7, <1>8, <1>9, <1>10, <1>11, <1>12, <1>13 DEF Inv

\* The calls of a node that its first observer makes necessary.
LEMMA ObserverStarts ==
  ASSUME NEW rank \in [Node -> Nat], TypeOK, Graph, NEW n \in Node,
         NEW first, first = Starts(n) \o <<Do("propagate_invalidity", NoNode)>>
  PROVE  /\ first \in Seq(Call) /\ Ordered(rank, first) /\ Heard(first)
         /\ \A d, k, q : [do |-> d, node |-> k, with |-> q] \in Range(first) <=>
              StartsCall(n, d, k, q) \/ (d = "propagate_invalidity" /\ k = NoNode /\ q = NoNode)
<1> DEFINE s == Starts(n)
           f == Do("propagate_invalidity", NoNode)
           t == <<f>>
<1>1. f \in Call /\ f = [do |-> "propagate_invalidity", node |-> NoNode, with |-> NoNode]
  BY CallMade DEF Do, Function
<1>2. /\ s \in Seq(Call) /\ Ordered(rank, s)
      /\ \A d, k, q : [do |-> d, node |-> k, with |-> q] \in Range(s) => StartsCall(n, d, k, q)
      /\ \A d, k, q : StartsCall(n, d, k, q) => [do |-> d, node |-> k, with |-> q] \in Range(s)
  BY StartsFacts
<1>3. f.do = "propagate_invalidity"
  BY <1>1
<1> HIDE DEF s, f
<1>4. t \in Seq(Call) /\ Ordered(rank, t) /\ \A x : x \in Range(t) <=> x = f
  BY <1>1, OneOrdered
<1>5. Heard(t)
  BY <1>3 DEF Heard, Adding
<1>6. first = s \o t
  BY DEF s, f
<1> HIDE DEF t
<1>7. /\ first \in Seq(Call)
      /\ \A x : x \in Range(first) <=> x \in Range(s) \/ x = f
  <2>1. s \o t \in Seq(Call) /\ \A x : x \in Range(s \o t) <=> x \in Range(s) \/ x \in Range(t)
    BY <1>2, <1>4, Concatenation
  <2> QED BY <1>4, <1>6, <2>1
<1>8. Ordered(rank, first)
  <2>1. SUFFICES ASSUME NEW g \in Range(s) PROVE Before(rank, g, f)
    BY <1>2, <1>4, <1>6, OrderedConcatenation
  <2>2. g \in Call
    BY <1>2, <2>1, ElementInSet
  <2>3. g = [do |-> g.do, node |-> g.node, with |-> g.with]
    BY <2>2, CallFields
  <2>4. StartsCall(n, g.do, g.node, g.with)
    BY <1>2, <2>1, <2>3, Zenon
  <2>5. Under(rank, g.do, g.node, g.with, "propagate_invalidity", NoNode, NoNode)
    BY <2>4 DEF StartsCall, Under, Linking, Ending, Observing
  <2> QED BY <1>1, <2>3, <2>5, BeforeUnder, Zenon
<1>9. Heard(first)
  <2>1. \E g \in Range(t) : g.do = "propagate_invalidity"
    BY <1>3, <1>4
  <2> QED BY <1>2, <1>4, <1>5, <1>6, <2>1, HeardConcatenation
<1>10. ASSUME NEW d, NEW k, NEW q
       PROVE  [do |-> d, node |-> k, with |-> q] \in Range(first) <=>
                StartsCall(n, d, k, q) \/ (d = "propagate_invalidity" /\ k = NoNode /\ q = NoNode)
  <2>1. [do |-> d, node |-> k, with |-> q] = f <=> d = "propagate_invalidity" /\ k = NoNode /\ q = NoNode
    BY <1>1, SameCall, Zenon
  <2>2. [do |-> d, node |-> k, with |-> q] \in Range(s) <=> StartsCall(n, d, k, q)
    BY <1>2, Zenon
  <2> QED BY <1>7, <2>1, <2>2, Zenon
<1> QED BY <1>7, <1>8, <1>9, <1>10

LEMMA AddObserverToUnnecessary ==
  ASSUME NEW rank \in [Node -> Nat], TypeOK, Inv(rank), NEW c, NEW p, Runs("add_observer", c, p),
         AddObserver(c), c \in wanted, ~Necessary(c)
  PROVE  Inv(rank)'
<1>0. Scene(rank, "add_observer", c, p)
  BY Context, Zenon
<1>1. /\ calls \in Seq(Call) /\ calls # <<>> /\ Stack(rank) /\ CallsTyped /\ Covered
      /\ c \in Range(Observable) /\ p = NoNode /\ stabilising /\ direct = {}
      /\ \A d, k, q : Called(d, k, q) <=> Waiting(d, k, q) \/ (d = "add_observer" /\ k = c /\ q = p)
      /\ \A d, k, q : Waiting(d, k, q) => Under(rank, "add_observer", c, p, d, k, q)
  BY <1>0 DEF Scene, Paired, Observing
<1>2. /\ c \in Node /\ c \in Top \ LhsNode /\ Graph /\ Links
      /\ \A d, k, q : Waiting(d, k, q) => d \in Observing
  BY <1>1, ObservableFacts DEF Inv, Under, Observing
<1>3. PICK first : first = Starts(c) \o <<Do("propagate_invalidity", NoNode)>>
  OBVIOUS
<1>4. /\ first \in Seq(Call) /\ Ordered(rank, first) /\ Heard(first)
      /\ \A d, k, q : [do |-> d, node |-> k, with |-> q] \in Range(first) <=>
           StartsCall(c, d, k, q) \/ (d = "propagate_invalidity" /\ k = NoNode /\ q = NoNode)
  BY <1>2, <1>3, ObserverStarts
<1>5. /\ UNCHANGED <<made, children, created, valid, values, parents, forced, heap, invalidated, turn>>
      /\ observed' = observed \union {c}
      /\ \A k \in Node : k # c => height'[k] = height[k]
  BY <1>2 DEF AddObserver, BecameNecessary, TypeOK
<1>6. Calls(first)
  BY <1>3 DEF AddObserver, BecameNecessary, Starts, Calls
<1>7. \A g \in Range(first) : CallTyped(g)
  <2>1. SUFFICES ASSUME NEW g \in Range(first) PROVE CallTyped(g)
    OBVIOUS
  <2>2. g \in Call
    BY <1>4, <2>1, ElementInSet
  <2>3. g = [do |-> g.do, node |-> g.node, with |-> g.with]
    BY <2>2, CallFields
  <2>4. StartsCall(c, g.do, g.node, g.with)
        \/ (g.do = "propagate_invalidity" /\ g.node = NoNode /\ g.with = NoNode)
    BY <1>4, <2>1, <2>3, Zenon
  <2>5. Child(g.node, c) => g.node \in Node
    BY <1>2, Children
  <2> QED BY <1>2, <2>4, <2>5, NodeAssumption DEF StartsCall, CallTyped, Paired, Observing
<1>8. ASSUME NEW e, NEW j, NEW o, NEW d, NEW k, NEW q,
             [do |-> e, node |-> j, with |-> o] \in Range(first),
             d \in Function, k \in Node \union {NoNode}, q \in Node \union {NoNode},
             Waiting(d, k, q), Under(rank, "add_observer", c, p, d, k, q)
      PROVE  Under(rank, e, j, o, d, k, q)
  <2>1. StartsCall(c, e, j, o) \/ e = "propagate_invalidity"
    BY <1>4, <1>8, Zenon
  <2>2. d \in Observing
    BY <1>2, <1>8
  <2> QED BY <2>1, <2>2 DEF StartsCall, Under, Linking, Ending, Observing
<1>9. /\ calls' \in Seq(Call) /\ Stack(rank)' /\ CallsTyped' /\ Covered'
      /\ \A d, k, q : Called(d, k, q)' <=>
           Waiting(d, k, q) \/ [do |-> d, node |-> k, with |-> q] \in Range(first)
  <2>1. UNCHANGED kind /\ Runs("add_observer", c, p)
    BY <1>5 DEF made
  <2> QED BY <1>1, <1>4, <1>6, <1>7, <1>8, <2>1, Push
<1>10. ASSUME NEW d, NEW k, NEW q
       PROVE  Called(d, k, q)' <=> Waiting(d, k, q) \/ StartsCall(c, d, k, q)
                \/ (d = "propagate_invalidity" /\ k = NoNode /\ q = NoNode)
  BY <1>4, <1>9, Zenon
<1>11. /\ \A d, k, q : d \notin Linking \union {"propagate_invalidity", "add_observer"} =>
                         (Called(d, k, q)' <=> Called(d, k, q))
       /\ \A k, q : Link(k, q)' <=> valid[c] /\ Child(k, c) /\ q = c
       /\ \A k, q : ~Link(k, q) /\ ~Unlink(k, q) /\ ~Unlink(k, q)'
       /\ \A k : ~Placing(k) /\ (Placing(k)' => k = c)
       /\ \A k : ~Marked(k) /\ ~Marked(k)'
  BY <1>1, <1>2, <1>10 DEF Link, Unlink, Placing, Marked, StartsCall, Linking, Observing
<1>12. Necessary(c)' /\ \A k \in Node : k # c => (Necessary(k)' <=> Necessary(k))
  BY <1>5 DEF Necessary
<1>13. \A k \in Node : ~IsParent(c, k)
  BY <1>2, <1>11, NotLinked
<1>14. Graph' /\ Ranked(rank)'
  BY <1>5, GraphKept DEF Inv, made
<1>15. Validity'
  BY <1>5, <1>11, ValidityKept DEF Inv, made, Marked, Dying, Linking
<1>16. Times'
  BY <1>5, <1>11, TimesKept DEF Inv, made, values, turn, Linking
<1>17. Observers'
  <2>1. observed' \subseteq Top \ LhsNode
    BY <1>2, <1>5 DEF Inv, Observers
  <2> QED BY <1>5, <1>11, <2>1 DEF Inv, Observers, made, Linking
<1>18. Links'
  <2>1. ASSUME NEW k \in Node, NEW q \in Node PROVE Linked(k, q)'
    <3>1. Linked(k, q)
      BY <1>2 DEF Links
    <3>2. valid'[q] = valid[q] /\ (Child(k, q)' <=> Child(k, q)) /\ (IsParent(q, k)' <=> IsParent(q, k))
      BY <1>5 DEF Child, IsParent
    <3>3. CASE q = c
      BY <1>11, <1>12, <1>13, <3>2, <3>3 DEF Linked
    <3>4. CASE q # c
      BY <1>11, <1>12, <3>1, <3>2, <3>4 DEF Linked
    <3> QED BY <3>3, <3>4
  <2>2. \A k \in Node : Single(parents[k])'
    BY <1>2, <1>5 DEF Links, Single
  <2> QED BY <1>11, <1>12, <2>1, <2>2 DEF Links
<1>19. Told'
  <2>1. ASSUME NEW n \in Node, NEW k \in Node PROVE ToldOf(n, k)'
    <3>1. ToldOf(n, k)
      BY DEF Inv, Told
    <3>2. /\ valid'[n] = valid[n] /\ valid'[k] = valid[k] /\ (Child(k, n)' <=> Child(k, n))
          /\ (Dying(n)' <=> Dying(n))
          /\ (IsMain(n)' <=> IsMain(n)) /\ Lhs(n)' = Lhs(n) /\ (Queued(n)' <=> Queued(n))
          /\ invalidated' = invalidated
      BY <1>5, <1>11 DEF Child, Dying, IsMain, Lhs, made, Queued, turn, Linking
    <3>3. CASE n = c
      BY <1>11, <3>2, <3>3 DEF ToldOf
    <3>4. CASE n # c
      BY <1>11, <1>12, <3>1, <3>2, <3>4 DEF ToldOf
    <3> QED BY <3>3, <3>4
  <2>2. Called("propagate_invalidity", NoNode, NoNode)'
    BY <1>10
  <2> QED BY <2>1, <2>2 DEF Told
<1>20. Heap'
  <2>1. ASSUME NEW k \in Node PROVE Heaped(k)'
    <3>1. Heaped(k)
      BY DEF Inv, Heap
    <3>2. valid'[k] = valid[k] /\ (Queued(k)' <=> Queued(k)) /\ (k # c => height'[k] = height[k])
      BY <1>5 DEF Queued, turn
    <3>3. (Marked(k)' <=> Marked(k)) /\ (Called("lower", k, NoNode)' <=> Called("lower", k, NoNode))
      BY <1>11 DEF Linking
    <3> QED BY <1>12, <3>1, <3>2, <3>3 DEF Heaped
  <2> QED BY <1>1, <1>5, <2>1 DEF Heap, turn
<1> QED BY <1>9, <1>14, <1>15, <1>16, <1>17, <1>18, <1>19, <1>20 DEF Inv

LEMMA AddObserverInv ==
  ASSUME NEW rank \in [Node -> Nat], TypeOK, Inv(rank), NEW n, NEW p, Runs("add_observer", n, p),
         AddObserver(n)
  PROVE  Inv(rank)'
BY AddObserverToNecessary, AddObserverToUnnecessary, Zenon

-----------------------------------------------------------------------------
(***************************************************************************)
(* Unlinking.                                                              *)
(***************************************************************************)
Removing == {"remove_parent", "release", "remove_observer"}

\* became_unnecessary, of a node that has lost its last parent or observer.
LEMMA BecameUnnecessaryInv ==
  ASSUME NEW rank \in [Node -> Nat], TypeOK, Inv(rank),
         NEW f \in Removing, NEW c \in Node, NEW p, Runs(f, c, p), BecameUnnecessary(c),
         Necessary(c), ~Necessary(c)', \A k \in Node : k # c => (Necessary(k)' <=> Necessary(k)),
         \A q, k \in Node : IsParent(q, k)' <=> IsParent(q, k) /\ ~(f = "remove_parent" /\ k = c /\ q = p),
         \A k \in Node : Single(parents[k])',
         f = "remove_parent" => rank[c] < rank[p],
         UNCHANGED <<made, children, created, valid, values, invalidated, turn>>
  PROVE  /\ calls' \in Seq(Call) /\ Stack(rank)' /\ CallsTyped' /\ Covered'
         /\ Graph' /\ Ranked(rank)' /\ Validity' /\ Links' /\ Times' /\ Heap' /\ Told'
         /\ \A d, k, q : d # "remove_parent" => (Called(d, k, q)' <=> Waiting(d, k, q))
<1>0. Scene(rank, f, c, p)
  BY Context, Zenon
<1>1. /\ calls \in Seq(Call) /\ calls # <<>> /\ Stack(rank) /\ CallsTyped /\ Covered
      /\ stabilising /\ direct = {} /\ (f = "remove_parent" => p \in Node)
      /\ \A d, k, q : Called(d, k, q) <=> Waiting(d, k, q) \/ (d = f /\ k = c /\ q = p)
      /\ \A d, k, q : Waiting(d, k, q) => Under(rank, f, c, p, d, k, q)
      /\ \A d, k, q : Waiting(d, k, q) /\ d \in Ending => k \in Node
  BY <1>0 DEF Scene, Paired, Removing, Ending
<1>2. Graph /\ Links /\ c # NoNode
  BY NodeAssumption DEF Inv
<1>3. /\ \A d, k, q : d \in Linking \/ d = "adjust_heights" => ~Called(d, k, q)
      /\ \A d, k, q : d \in Ending => (Called(d, k, q) <=> Waiting(d, k, q))
      /\ f # "remove_parent" => \A d, k, q : ~Waiting("remove_parent", k, q) /\ (d \in Ending => ~Waiting(d, k, q))
      /\ f = "remove_parent" => \A d, k, q : d \in Ending /\ Waiting(d, k, q) => rank[p] <= rank[k]
  BY <1>1, <1>2 DEF Under, Linking, Ending, Removing
<1>4. \A d, q : d \in Ending => ~Called(d, c, q)
  <2>1. CASE f # "remove_parent"
    BY <1>3, <2>1
  <2>2. CASE f = "remove_parent"
    <3>1. rank[c] \in Nat /\ rank[p] \in Nat /\ rank[c] < rank[p]
      BY <1>1, <2>2
    <3>2. ~(rank[p] <= rank[c])
      BY <3>1
    <3> QED BY <1>3, <2>2, <3>2
  <2> QED BY <2>1, <2>2
<1>5. ~Marked(c) /\ ~Called("lower", c, NoNode) /\ ~Called("drain", c, NoNode)
  BY <1>4 DEF Marked, Ending
<1>6. \A k \in Node : ~Unlink(k, c)
  <2>1. \A k \in Node : Linked(k, c)
    BY <1>2 DEF Links
  <2> QED BY <1>5, <2>1 DEF Linked
<1> DEFINE first == ForChildren("remove_parent", c)
<1>7. height' = [height EXCEPT ![c] = -1] /\ heap' = heap \ {c} /\ Calls(first)
  BY DEF BecameUnnecessary
<1>8. /\ first \in Seq(Call) /\ Ordered(rank, first)
      /\ \A d, k, q : [do |-> d, node |-> k, with |-> q] \in Range(first)
           <=> d = "remove_parent" /\ valid[c] /\ Child(k, c) /\ q = c
  <2>1. "remove_parent" \in Function /\ children \in [Node -> Seq(Node)]
    BY DEF Function, TypeOK
  <2> QED BY <1>2, <2>1, ForChildrenFacts, ForChildrenOrdered
<1> HIDE DEF first
<1>9. \A g \in Range(first) : CallTyped(g) /\ g.do = "remove_parent"
  <2>1. SUFFICES ASSUME NEW g \in Range(first) PROVE CallTyped(g) /\ g.do = "remove_parent"
    OBVIOUS
  <2>2. g \in Call
    BY <1>8, <2>1, ElementInSet
  <2>3. g = [do |-> g.do, node |-> g.node, with |-> g.with]
    BY <2>2, CallFields
  <2>4. g.do = "remove_parent" /\ Child(g.node, c) /\ g.with = c
    BY <1>8, <2>1, <2>3, Zenon
  <2>5. g.node \in Node
    BY <1>2, <2>4, Children
  <2> QED BY <1>2, <2>4, <2>5, NodeAssumption DEF CallTyped, Paired, Observing
<1>10. ASSUME NEW e, NEW j, NEW o, NEW d, NEW k, NEW q,
             [do |-> e, node |-> j, with |-> o] \in Range(first),
             d \in Function, k \in Node \union {NoNode}, q \in Node \union {NoNode},
             Waiting(d, k, q), Under(rank, f, c, p, d, k, q)
      PROVE  Under(rank, e, j, o, d, k, q)
  <2>1. e = "remove_parent" /\ Child(j, c) /\ o = c
    BY <1>8, <1>10, Zenon
  <2>2. d \notin Linking /\ d # "adjust_heights"
    BY <1>1, <1>3, <1>10
  <2>3. d = "remove_parent" => ~(j = k /\ o = q)
    <3>1. j \in Node
      BY <1>2, <2>1, Children
    <3>2. ~Waiting("remove_parent", j, c)
      BY <1>1, <1>6, <3>1 DEF Unlink
    <3> QED BY <1>10, <2>1, <3>2
  <2>4. d \in Ending => rank[c] <= rank[k]
    <3>1. SUFFICES ASSUME d \in Ending PROVE rank[c] <= rank[k]
      OBVIOUS
    <3>2. f = "remove_parent" /\ rank[p] <= rank[k] /\ k \in Node
      BY <1>1, <1>3, <1>10, <3>1
    <3>3. rank[c] \in Nat /\ rank[p] \in Nat /\ rank[k] \in Nat /\ rank[c] < rank[p]
      BY <1>1, <3>2
    <3> QED BY <3>2, <3>3
  <2> QED BY <2>1, <2>2, <2>3, <2>4 DEF Under, Linking, Ending, Observing
<1>11. /\ calls' \in Seq(Call) /\ Stack(rank)' /\ CallsTyped' /\ Covered'
       /\ \A d, k, q : Called(d, k, q)' <=>
            Waiting(d, k, q) \/ [do |-> d, node |-> k, with |-> q] \in Range(first)
  <2>1. UNCHANGED kind /\ \A g \in Range(first) : g.do \notin Adding
    BY <1>9 DEF made, Adding
  <2> QED BY <1>1, <1>7, <1>8, <1>9, <1>10, <2>1, Push
<1>12. ASSUME NEW d, NEW k, NEW q
       PROVE  Called(d, k, q)' <=> Waiting(d, k, q) \/ (d = "remove_parent" /\ valid[c] /\ Child(k, c) /\ q = c)
  <2>1. [do |-> d, node |-> k, with |-> q] \in Range(first)
           <=> d = "remove_parent" /\ valid[c] /\ Child(k, c) /\ q = c
    BY <1>8, Zenon
  <2>2. Called(d, k, q)' <=> Waiting(d, k, q) \/ [do |-> d, node |-> k, with |-> q] \in Range(first)
    BY <1>11, Zenon
  <2> QED BY <2>1, <2>2
<1>13. /\ \A d, k, q : d # "remove_parent" => (Called(d, k, q)' <=> Waiting(d, k, q))
       /\ \A d, k, q : d \notin Removing => (Called(d, k, q)' <=> Called(d, k, q))
       /\ \A k, q : Unlink(k, q)' <=> (Unlink(k, q) /\ ~(f = "remove_parent" /\ k = c /\ q = p))
                                      \/ (valid[c] /\ Child(k, c) /\ q = c)
  <2>1. \A k, q : Unlink(k, q) <=> Waiting("remove_parent", k, q) \/ (f = "remove_parent" /\ k = c /\ q = p)
    BY <1>1 DEF Unlink
  <2>2. f = "remove_parent" => ~Waiting("remove_parent", c, p)
    BY <1>1 DEF Under
  <2> QED BY <1>1, <1>12, <2>1, <2>2 DEF Unlink, Removing
<1>14. /\ \A k, q : ~Link(k, q) /\ ~Link(k, q)'
       /\ \A k : ~Placing(k)'
       /\ \A k : Marked(k)' <=> Marked(k)
  BY <1>3, <1>13 DEF Link, Placing, Marked, Linking, Removing
<1>15. Graph' /\ Ranked(rank)'
  BY GraphKept DEF Inv, made
<1>16. Validity'
  <2>1. \A n \in Node : Called("drain", n, NoNode)' <=> Called("drain", n, NoNode)
    BY <1>13 DEF Removing
  <2>2. \A n \in Node : Called("invalidate", n, NoNode) /\ valid[n] => Dying(n)'
    BY <1>13 DEF Removing, Dying
  <2> QED BY <1>14, <2>1, <2>2, ValidityKept DEF Inv, made
<1>17. Times'
  BY <1>13, <1>14, TimesKept DEF Inv, values, turn, Removing
<1>18. Links'
  <2>1. ASSUME NEW k \in Node, NEW q \in Node PROVE Linked(k, q)'
    <3>1. Linked(k, q)
      BY <1>2 DEF Links
    <3>2. valid'[q] = valid[q] /\ (Child(k, q)' <=> Child(k, q))
      BY DEF Child
    <3>3. CASE q = c
      <4>1. f = "remove_parent" => c # p
        <5>1. ~(rank[c] < rank[c])
          OBVIOUS
        <5> QED BY <5>1
      <4> QED BY <1>5, <1>6, <1>13, <1>14, <3>1, <3>2, <3>3, <4>1 DEF Linked
    <3>4. CASE q # c /\ f = "remove_parent" /\ k = c /\ q = p
      <4>1. Unlink(c, p)
        BY <1>1, <3>4 DEF Unlink
      <4> QED BY <1>13, <1>14, <3>1, <3>2, <3>4, <4>1 DEF Linked
    <3>5. CASE q # c /\ ~(f = "remove_parent" /\ k = c /\ q = p)
      BY <1>13, <1>14, <3>1, <3>2, <3>5 DEF Linked
    <3> QED BY <3>3, <3>4, <3>5
  <2> QED BY <1>14, <2>1 DEF Links
<1>19. Told'
  <2>1. ASSUME NEW n \in Node, NEW k \in Node PROVE ToldOf(n, k)'
    <3>1. ToldOf(n, k)
      BY DEF Inv, Told
    <3>2. /\ valid'[n] = valid[n] /\ valid'[k] = valid[k] /\ (Child(k, n)' <=> Child(k, n))
          /\ (Dying(n) => Dying(n)') /\ invalidated' = invalidated
          /\ (IsMain(n)' <=> IsMain(n)) /\ Lhs(n)' = Lhs(n) /\ (n # c => (Queued(n)' <=> Queued(n)))
      BY <1>7, <1>13, <1>14 DEF Child, Dying, IsMain, Lhs, made, Queued, turn, Removing
    <3>3. CASE n = c
      BY <3>3 DEF ToldOf
    <3>4. CASE n # c
      BY <1>14, <3>1, <3>2, <3>4 DEF ToldOf
    <3> QED BY <3>3, <3>4
  <2>2. invalidated' = invalidated
        /\ (Called("propagate_invalidity", NoNode, NoNode)' <=> Called("propagate_invalidity", NoNode, NoNode))
    BY <1>13 DEF Removing
  <2> QED BY <2>1, <2>2 DEF Inv, Told
<1>20. Heap'
  <2>1. ASSUME NEW k \in Node PROVE Heaped(k)'
    <3>1. Heaped(k)
      BY DEF Inv, Heap
    <3>2. valid'[k] = valid[k] /\ (Marked(k)' <=> Marked(k))
          /\ (Called("lower", k, NoNode)' <=> Called("lower", k, NoNode))
      BY <1>13, <1>14 DEF Removing
    <3>3. CASE k = c
      <4>1. ~Queued(c)' /\ height'[c] = -1
        BY <1>1, <1>7 DEF Queued, turn, TypeOK
      <4> QED BY <1>5, <3>2, <3>3, <4>1 DEF Heaped
    <3>4. CASE k # c
      <4>1. (Queued(k)' <=> Queued(k)) /\ height'[k] = height[k]
        BY <1>7, <3>4 DEF Queued, turn, TypeOK
      <4> QED BY <3>1, <3>2, <3>4, <4>1 DEF Heaped
    <3> QED BY <3>3, <3>4
  <2> QED BY <1>1, <2>1 DEF Heap, turn
<1> QED BY <1>11, <1>13, <1>15, <1>16, <1>17, <1>18, <1>19, <1>20

LEMMA RemoveParentFacts ==
  ASSUME NEW rank \in [Node -> Nat], TypeOK, Inv(rank), NEW c, NEW p, Runs("remove_parent", c, p),
         RemoveParent(c, p)
  PROVE  /\ c \in Node /\ p \in Node /\ Unlink(c, p) /\ IsParent(p, c) /\ (~Necessary(p) \/ Marked(p))
         /\ rank[c] < rank[p] /\ c # p
         /\ parents' \in [Node -> Seq(Node)]
         /\ \A q, k \in Node : IsParent(q, k)' <=> IsParent(q, k) /\ ~(k = c /\ q = p)
         /\ \A k \in Node : Single(parents[k])'
         /\ Necessary(c) /\ \A k \in Node : k # c => (Necessary(k)' <=> Necessary(k))
<1>1. c \in Node /\ p \in Node /\ Called("remove_parent", c, p)
  <2>1. Scene(rank, "remove_parent", c, p)
    BY Context, Zenon
  <2> QED BY <2>1 DEF Scene, Paired
<1>2. Linked(c, p) /\ Unlink(c, p) /\ Single(parents[c]) /\ parents[c] \in Seq(Node)
  BY <1>1 DEF Inv, Links, Unlink, TypeOK
<1>3. IsParent(p, c) /\ (~Necessary(p) \/ Marked(p)) /\ Child(c, p)
  BY <1>2 DEF Linked
<1>4. rank[c] < rank[p] /\ c # p
  <2>1. Exists(p) /\ Ranked(rank)
    BY <1>1, <1>3, Children DEF Inv
  <2>2. rank[c] < rank[p]
    BY <1>1, <1>3, <2>1 DEF Ranked, RankedAt, Child
  <2> QED BY <1>1, <2>2
<1>5. parents' = [parents EXCEPT ![c] = Without(@, p)] /\ UNCHANGED <<observed, forced>>
  BY DEF RemoveParent
<1>6. /\ Without(parents[c], p) \in Seq(Node) /\ Single(Without(parents[c], p))
      /\ \A x : x \in Range(Without(parents[c], p)) <=> x \in Range(parents[c]) /\ x # p
  BY <1>2, <1>3, WithoutFacts DEF IsParent
<1>7. parents'[c] = Without(parents[c], p) /\ \A k \in Node : k # c => parents'[k] = parents[k]
  BY <1>1, <1>5 DEF TypeOK
<1>8. parents' \in [Node -> Seq(Node)]
  BY <1>1, <1>5, <1>6 DEF TypeOK
<1>9. \A q, k \in Node : IsParent(q, k)' <=> IsParent(q, k) /\ ~(k = c /\ q = p)
  BY <1>6, <1>7 DEF IsParent
<1>10. \A k \in Node : Single(parents[k])'
  <2>1. SUFFICES ASSUME NEW k \in Node PROVE Single(parents'[k])
    BY DEF Single
  <2> QED BY <1>6, <1>7 DEF Inv, Links
<1>11. Necessary(c)
  BY <1>2, <1>3, EmptyRange DEF Necessary, IsParent
<1>12. \A k \in Node : k # c => (Necessary(k)' <=> Necessary(k))
  BY <1>5, <1>7 DEF Necessary
<1> QED BY <1>1, <1>2, <1>3, <1>4, <1>8, <1>9, <1>10, <1>11, <1>12

LEMMA RemoveParentInv ==
  ASSUME NEW rank \in [Node -> Nat], TypeOK, Inv(rank), NEW c, NEW p, Runs("remove_parent", c, p),
         RemoveParent(c, p)
  PROVE  Inv(rank)'
<1>0. Scene(rank, "remove_parent", c, p)
  BY Context, Zenon
<1>1. /\ calls \in Seq(Call) /\ calls # <<>> /\ Stack(rank) /\ CallsTyped /\ Covered
      /\ stabilising /\ direct = {}
      /\ \A d, k, q : Called(d, k, q) <=> Waiting(d, k, q) \/ (d = "remove_parent" /\ k = c /\ q = p)
      /\ \A d, k, q : Waiting(d, k, q) => Under(rank, "remove_parent", c, p, d, k, q)
  BY <1>0 DEF Scene, Paired
<1>2. /\ c \in Node /\ p \in Node /\ Unlink(c, p) /\ IsParent(p, c) /\ (~Necessary(p) \/ Marked(p))
      /\ rank[c] < rank[p] /\ c # p
      /\ \A q, k \in Node : IsParent(q, k)' <=> IsParent(q, k) /\ ~(k = c /\ q = p)
      /\ \A k \in Node : Single(parents[k])'
      /\ Necessary(c) /\ \A k \in Node : k # c => (Necessary(k)' <=> Necessary(k))
  BY RemoveParentFacts
<1>3. /\ UNCHANGED <<made, children, created, valid, values, observed, forced, invalidated, turn>>
      /\ CheckIfUnnecessary(c)
  BY DEF RemoveParent
<1>4. CASE ~Necessary(c)'
  <2>1. BecameUnnecessary(c)
    BY <1>3, <1>4 DEF CheckIfUnnecessary, Necessary
  <2>2. "remove_parent" \in Removing
    BY DEF Removing
  <2>3. /\ calls' \in Seq(Call) /\ Stack(rank)' /\ CallsTyped' /\ Covered'
        /\ Graph' /\ Ranked(rank)' /\ Validity' /\ Links' /\ Times' /\ Heap' /\ Told'
        /\ \A d, k, q : d # "remove_parent" => (Called(d, k, q)' <=> Waiting(d, k, q))
    BY <1>2, <1>3, <1>4, <2>1, <2>2, BecameUnnecessaryInv
  <2>4. \A o : Called("release", o, NoNode)' <=> Called("release", o, NoNode)
    BY <1>1, <2>3
  <2>5. Observers'
    BY <1>3, <2>4, ObserversKept DEF Inv, made
  <2> QED BY <2>3, <2>5 DEF Inv
<1>5. CASE Necessary(c)'
  <2>1. Returns /\ UNCHANGED <<height, heap>>
    BY <1>3, <1>5 DEF CheckIfUnnecessary, Necessary
  <2>2. /\ calls' \in Seq(Call) /\ Stack(rank)' /\ CallsTyped' /\ Covered'
        /\ \A d, k, q : Called(d, k, q)' <=> Waiting(d, k, q)
    BY <1>1, <1>3, <2>1, Return DEF made
  <2>3. /\ \A d, k, q : d # "remove_parent" => (Called(d, k, q)' <=> Called(d, k, q))
        /\ \A k, q : Unlink(k, q)' <=> Unlink(k, q) /\ ~(k = c /\ q = p)
        /\ \A k, q : ~Link(k, q) /\ ~Link(k, q)'
        /\ \A k : ~Placing(k) /\ ~Placing(k)'
    <3>1. ~Waiting("remove_parent", c, p)
      BY <1>1 DEF Under
    <3>2. \A k, q : ~Waiting("add_parent", k, q) /\ ~Waiting("place", k, q)
      BY <1>0, NoLinkUnder DEF Linking
    <3> QED BY <1>1, <2>2, <3>1, <3>2 DEF Unlink, Link, Placing
  <2>4. \A k \in Node : Necessary(k)' <=> Necessary(k)
    BY <1>2, <1>5
  <2>5. Graph' /\ Ranked(rank)'
    BY <1>3, GraphKept DEF Inv, made
  <2>6. Validity'
    BY <1>3, <2>3, ValidityKept DEF Inv, made, Marked, Dying
  <2>7. Observers' /\ Times'
    BY <1>3, <2>3, ObserversKept, TimesKept DEF Inv, made, values, turn, Marked
  <2>8. Links'
    <3>1. ASSUME NEW k \in Node, NEW q \in Node PROVE Linked(k, q)'
      <4>1. Linked(k, q)
        BY DEF Inv, Links
      <4>2. valid'[q] = valid[q] /\ (Child(k, q)' <=> Child(k, q)) /\ (Marked(q)' <=> Marked(q))
        BY <1>3, <2>3 DEF Child, Marked
      <4>3. CASE k = c /\ q = p
        BY <1>2, <2>3, <2>4, <4>1, <4>2, <4>3 DEF Linked
      <4>4. CASE ~(k = c /\ q = p)
        BY <1>2, <2>3, <2>4, <4>1, <4>2, <4>4 DEF Linked
      <4> QED BY <4>3, <4>4
    <3> QED BY <1>2, <2>3, <3>1 DEF Links
  <2>9. Told'
    BY <1>3, <2>1, <2>3, <2>4, ToldSame DEF Inv, made, turn, Dying, Marked
  <2>10. Heap'
    BY <1>1, <1>3, <2>1, <2>3, <2>4, HeapSame DEF Inv, turn, Marked
  <2> QED BY <2>2, <2>5, <2>6, <2>7, <2>8, <2>9, <2>10 DEF Inv
<1> QED BY <1>4, <1>5

LEMMA ReleaseInv ==
  ASSUME NEW rank \in [Node -> Nat], TypeOK, Inv(rank), NEW o, NEW p, Runs("release", o, p),
         Release(o)
  PROVE  Inv(rank)'
<1>0. Scene(rank, "release", o, p)
  BY Context, Zenon
<1>1. /\ calls \in Seq(Call) /\ calls # <<>> /\ Stack(rank) /\ CallsTyped /\ Covered
      /\ stabilising /\ direct = {} /\ o \in Node /\ p = NoNode
      /\ \A d, k, q : Called(d, k, q) <=> Waiting(d, k, q) \/ (d = "release" /\ k = o /\ q = p)
      /\ \A d, k, q : Waiting(d, k, q) => Under(rank, "release", o, p, d, k, q)
  BY <1>0 DEF Scene, Paired
<1>2. /\ UNCHANGED <<made, children, created, valid, values, parents, observed, invalidated, turn>>
      /\ forced' = {} /\ CheckIfUnnecessary(o)
  BY DEF Release
<1>3. forced = {o} /\ \A k : ~Waiting("release", k, NoNode)
  BY <1>1 DEF Inv, Observers, Under
<1>4. Necessary(o) /\ \A k \in Node : k # o => (Necessary(k)' <=> Necessary(k))
  BY <1>2, <1>3 DEF Necessary
<1>5. ASSUME \A k : ~Called("release", k, NoNode)' PROVE Observers'
  BY <1>2, <1>5 DEF Inv, Observers
<1>6. /\ \A q, k \in Node : IsParent(q, k)' <=> IsParent(q, k)
      /\ \A k \in Node : Single(parents[k])'
  BY <1>2 DEF IsParent, Inv, Links, Single
<1>7. CASE ~Necessary(o)'
  <2>1. BecameUnnecessary(o)
    BY <1>2, <1>7 DEF CheckIfUnnecessary, Necessary
  <2>2. "release" \in Removing
    BY DEF Removing
  <2>3. /\ calls' \in Seq(Call) /\ Stack(rank)' /\ CallsTyped' /\ Covered'
        /\ Graph' /\ Ranked(rank)' /\ Validity' /\ Links' /\ Times' /\ Heap' /\ Told'
        /\ \A d, k, q : d # "remove_parent" => (Called(d, k, q)' <=> Waiting(d, k, q))
    BY <1>1, <1>2, <1>4, <1>6, <1>7, <2>1, <2>2, BecameUnnecessaryInv
  <2>4. Observers'
    BY <1>3, <1>5, <2>3
  <2> QED BY <2>3, <2>4 DEF Inv
<1>8. CASE Necessary(o)'
  <2>1. Returns /\ UNCHANGED <<height, heap>>
    BY <1>2, <1>8 DEF CheckIfUnnecessary, Necessary
  <2>2. /\ calls' \in Seq(Call) /\ Stack(rank)' /\ CallsTyped' /\ Covered'
        /\ \A d, k, q : Called(d, k, q)' <=> Waiting(d, k, q)
    BY <1>1, <1>2, <2>1, Return DEF made
  <2>3. \A d, k, q : d # "release" => (Called(d, k, q)' <=> Called(d, k, q))
    BY <1>1, <2>2
  <2>4. \A k \in Node : Necessary(k)' <=> Necessary(k)
    BY <1>4, <1>8
  <2>5. Graph' /\ Ranked(rank)'
    BY <1>2, GraphKept DEF Inv, made
  <2>6. Validity'
    BY <1>2, <2>3, ValidityKept DEF Inv, made, Marked, Dying
  <2>7. Observers' /\ Times'
    BY <1>2, <1>3, <1>5, <2>2, <2>3, TimesKept DEF Inv, made, values, turn, Marked
  <2>8. Links'
    BY <1>2, <2>3, <2>4, LinksSame DEF Inv, Link, Unlink, Marked, Placing
  <2>9. Told'
    BY <1>2, <2>1, <2>3, <2>4, ToldSame DEF Inv, made, turn, Link, Dying, Marked
  <2>10. Heap'
    BY <1>1, <1>2, <2>1, <2>3, <2>4, HeapSame DEF Inv, turn, Marked
  <2> QED BY <2>2, <2>5, <2>6, <2>7, <2>8, <2>9, <2>10 DEF Inv
<1> QED BY <1>7, <1>8

LEMMA RemoveObserverInv ==
  ASSUME NEW rank \in [Node -> Nat], TypeOK, Inv(rank), NEW n, NEW p, Runs("remove_observer", n, p),
         RemoveObserver(n)
  PROVE  Inv(rank)'
<1>0. Scene(rank, "remove_observer", n, p)
  BY Context, Zenon
<1>1. /\ calls \in Seq(Call) /\ calls # <<>> /\ Stack(rank) /\ CallsTyped /\ Covered
      /\ stabilising /\ direct = {} /\ n \in Node /\ p = NoNode
      /\ \A d, k, q : Called(d, k, q) <=> Waiting(d, k, q) \/ (d = "remove_observer" /\ k = n /\ q = p)
  BY <1>0 DEF Scene, Paired
<1>2. /\ UNCHANGED <<made, children, created, valid, values, parents, forced, invalidated, turn>>
      /\ observed' \subseteq observed
      /\ \A k \in Node : k # n => (k \in observed' <=> k \in observed)
  BY DEF RemoveObserver
<1>3. \A k \in Node : k # n => (Necessary(k)' <=> Necessary(k))
  BY <1>2 DEF Necessary
<1>4. ASSUME \A k : Called("release", k, NoNode)' <=> Waiting("release", k, NoNode) PROVE Observers'
  BY <1>1, <1>2, <1>4 DEF Inv, Observers, made
<1>5. /\ \A q, k \in Node : IsParent(q, k)' <=> IsParent(q, k)
      /\ \A k \in Node : Single(parents[k])'
  BY <1>2 DEF IsParent, Inv, Links, Single
<1>6. CASE Necessary(n) /\ ~Necessary(n)'
  <2>1. BecameUnnecessary(n)
    BY <1>2, <1>6 DEF RemoveObserver, CheckIfUnnecessary, Necessary
  <2>2. "remove_observer" \in Removing
    BY DEF Removing
  <2>3. /\ calls' \in Seq(Call) /\ Stack(rank)' /\ CallsTyped' /\ Covered'
        /\ Graph' /\ Ranked(rank)' /\ Validity' /\ Links' /\ Times' /\ Heap' /\ Told'
        /\ \A d, k, q : d # "remove_parent" => (Called(d, k, q)' <=> Waiting(d, k, q))
    BY <1>1, <1>2, <1>3, <1>5, <1>6, <2>1, <2>2, BecameUnnecessaryInv
  <2>4. Observers'
    BY <1>4, <2>3
  <2> QED BY <2>3, <2>4 DEF Inv
<1>7. CASE ~(Necessary(n) /\ ~Necessary(n)')
  <2>1. Returns /\ UNCHANGED <<height, heap>> /\ (Necessary(n)' <=> Necessary(n))
    BY <1>2, <1>7 DEF RemoveObserver, CheckIfUnnecessary, Necessary
  <2>2. /\ calls' \in Seq(Call) /\ Stack(rank)' /\ CallsTyped' /\ Covered'
        /\ \A d, k, q : Called(d, k, q)' <=> Waiting(d, k, q)
    BY <1>1, <1>2, <2>1, Return DEF made
  <2>3. \A d, k, q : d # "remove_observer" => (Called(d, k, q)' <=> Called(d, k, q))
    BY <1>1, <2>2
  <2>4. \A k \in Node : Necessary(k)' <=> Necessary(k)
    BY <1>3, <2>1
  <2>5. Graph' /\ Ranked(rank)'
    BY <1>2, GraphKept DEF Inv, made
  <2>6. Validity'
    BY <1>2, <2>3, ValidityKept DEF Inv, made, Marked, Dying
  <2>7. Observers' /\ Times'
    BY <1>2, <1>4, <2>2, <2>3, TimesKept DEF Inv, made, values, turn, Marked
  <2>8. Links'
    BY <1>2, <2>3, <2>4, LinksSame DEF Inv, Link, Unlink, Marked, Placing
  <2>9. Told'
    BY <1>2, <2>1, <2>3, <2>4, ToldSame DEF Inv, made, turn, Link, Dying, Marked
  <2>10. Heap'
    BY <1>1, <1>2, <2>1, <2>3, <2>4, HeapSame DEF Inv, turn, Marked
  <2> QED BY <2>2, <2>5, <2>6, <2>7, <2>8, <2>9, <2>10 DEF Inv
<1> QED BY <1>6, <1>7

-----------------------------------------------------------------------------
(***************************************************************************)
(* The run of a closure: what it makes.                                    *)
(***************************************************************************)
LEMMA ReachFacts ==
  /\ Reach \in [DOMAIN Program -> DOMAIN TopNode]
  /\ Reaches(Reach)
<1>1. \E reach \in [DOMAIN Program -> DOMAIN TopNode] : Reaches(reach)
  BY ProgramAssumption DEF Reaches
<1> QED BY <1>1 DEF Reach

\* The bind that is about to run its closure.
LEMMA LhsFacts ==
  ASSUME NEW rank \in [Node -> Nat], TypeOK, Inv(rank), NEW b \in Node, IsNext(b), kind[b] = "Lhs"
  PROVE  \E m \in Node :
           /\ MainOf(b) = {m} /\ IsMain(m) /\ Lhs(m) = b /\ valid[m] /\ Necessary(m) /\ m # b
           /\ valid[b] /\ Necessary(b) /\ rank[b] < rank[m]
           /\ \A d, n, p : ~Called(d, n, p)
           /\ forced = {} /\ invalidated = <<>> /\ direct \subseteq {b}
<1>1. /\ \A d, n, p : ~Called(d, n, p)
      /\ forced = {} /\ invalidated = <<>>
  BY BetweenTurns DEF IsNext
<1>2. Queued(b) /\ Heap /\ Graph /\ Links /\ Observers /\ Ranked(rank)
  BY DEF IsNext, Queued, Inv
<1>3. valid[b] /\ Necessary(b) /\ direct \subseteq {b}
  <2>1. Heaped(b)
    BY <1>2 DEF Heap
  <2>2. direct \subseteq {b}
    BY <1>2 DEF IsNext, Heap
  <2> QED BY <1>2, <2>1, <2>2 DEF Heaped
<1>4. b \notin observed
  <2>1. b \in Top => b \in LhsNode
    BY <1>2 DEF Graph, TopNodes, LhsNode
  <2> QED BY <1>2, <2>1 DEF Observers
<1>5. parents[b] # <<>> /\ parents[b] \in Seq(Node)
  BY <1>1, <1>3, <1>4 DEF Necessary, TypeOK
<1>6. PICK m \in Node : IsParent(m, b)
  BY <1>5, EmptyRange DEF IsParent
<1>7. Linked(b, m)
  BY <1>2 DEF Links
<1>8. valid[m] /\ Child(b, m) /\ Necessary(m)
  BY <1>1, <1>6, <1>7 DEF Linked, Unlink
<1>9. IsMain(m) /\ b = Lhs(m) /\ Exists(m)
  BY <1>2, <1>8, Children
<1>10. MainOf(b) = {m}
  BY <1>2, <1>9 DEF MainOf, Graph, OneMain, IsMain, Lhs
<1>11. rank[b] < rank[m]
  BY <1>2, <1>8, <1>9 DEF Ranked, RankedAt, Child
<1>12. m # b
  BY <1>9 DEF IsMain
<1> QED BY <1>1, <1>3, <1>8, <1>9, <1>10, <1>11, <1>12

\* What the closure of b makes, M, and returns, new: a Map, a bind with the lhs-change l, or
\* a node that exists and is below b, at the top or made by the bind that is b's input.  The
\* new nodes are above those that the closure uses.
Building(rank, b, m, M, new, l, of) ==
  /\ M \subseteq Fresh /\ \A n \in M : ~Exists(n)
  /\ new \in Node /\ of \in Top /\ TopKind[of] # "Lhs" /\ rank[of] < rank[b]
  /\ \A n \in Node \ M : kind'[n] = kind[n] /\ code'[n] = code[n] /\ scope'[n] = scope[n]
                         /\ (n # m => children'[n] = children[n])
  /\ \A n \in M : scope'[n] = b
  /\ children'[m] = <<b, new>>
  /\ \A n \in Node \ {b} : created'[n] = created[n]
  /\ \A n \in Node : n \in Range(created'[b]) <=> n \in M
  /\ \/ /\ M = {} /\ Exists(new) /\ kind[new] # "Lhs" /\ rank[new] < rank[b]
        /\ new \in Top \/ (IsMain(Lhs(b)) /\ scope[new] = Lhs(Lhs(b)))
     \/ M = {new} /\ kind'[new] = "Map" /\ children'[new] = <<of>>
     \/ /\ M = {l, new} /\ l # new
        /\ kind'[l] = "Lhs" /\ children'[l] = <<of>>
        /\ code'[l] \in DOMAIN Program /\ Reach[code'[l]] <= Reach[code[b]]
        /\ kind'[new] = "Main" /\ children'[new] = <<l>>

LEMMA Builds ==
  ASSUME NEW rank \in [Node -> Nat], TypeOK, Graph, Ranked(rank), NEW b \in Node, NEW m \in Node,
         kind[b] = "Lhs", IsMain(m), value[Lhs(b)] # NoValue, NEW do,
         do = Program[code[b]][value[Lhs(b)]],
         Cardinality(Unused) >= NumberMade(do), Build(b, do, m)
  PROVE  /\ kind' \in [Node -> {"None", "Var", "Map", "Lhs", "Main"}]
         /\ children' \in [Node -> Seq(Node)]
         /\ scope' \in [Node -> Node \union {NoNode}]
         /\ code' \in [Node -> DOMAIN Program \union {NoValue}]
         /\ created' \in [Node -> Seq(Node \union {NoNode})]
         /\ Result(b, do) \in Node
         /\ \E l \in Node, of \in Top : Building(rank, b, m, Range(Made(do)), Result(b, do), l, of)
<1>1. /\ Lhs(b) \in Node /\ Child(Lhs(b), b) /\ code[b] \in DOMAIN Program
      /\ value[Lhs(b)] \in Bit
  <2>1. Shape(b) /\ children[b] \in Seq(Node)
    BY DEF Graph, Shapes, TypeOK
  <2>2. Len(children[b]) = 1 /\ code[b] \in DOMAIN Program
    BY <2>1 DEF Shape
  <2>3. Lhs(b) \in Node /\ Child(Lhs(b), b)
    <3>1. 1 \in 1 .. Len(children[b]) /\ children[b][1] \in Node
      BY <2>1, <2>2
    <3> QED BY <2>1, <3>1, IndexInRange DEF Lhs, Child
  <2> QED BY <2>2, <2>3 DEF TypeOK
<1>2. /\ do.op \in {"node", "map", "bind", "rhs", "drop"}
      /\ do.of \in Top \ LhsNode
      /\ do.op = "bind" => do.code \in DOMAIN Program /\ Reach[do.code] <= Reach[code[b]]
      /\ \E i \in 1 .. Reach[code[b]] - 1 : do.of = TopNode[i]
  BY <1>1, ReachFacts, ProgramAssumption DEF Reaches
<1> DEFINE of == do.of
<1>3. /\ of \in Top /\ of \in Node /\ TopKind[of] # "Lhs" /\ rank[of] < rank[b] /\ Exists(of) /\ kind[of] # "Lhs"
  <2>1. of \in Top /\ of \in Node /\ TopKind[of] # "Lhs"
    BY <1>2 DEF LhsNode, Node
  <2>2. kind[of] = TopKind[of] /\ TopKind[of] # "None"
    BY <2>1, TopAssumption DEF Graph, TopNodes
  <2>3. PICK i \in 1 .. Reach[code[b]] - 1 : of = TopNode[i]
    BY <1>2
  <2>4. Reach[code[b]] \in DOMAIN TopNode /\ DOMAIN TopNode = 1 .. Len(TopNode) /\ Len(TopNode) \in Nat
    BY <1>1, ReachFacts, NodeAssumption
  <2>5. i \in DOMAIN TopNode /\ i < Reach[code[b]]
    BY <2>4
  <2>6. RankedAt(rank, b)
    BY DEF Ranked, Exists
  <2>7. rank[TopNode[i]] < rank[b]
    BY <2>5, <2>6 DEF RankedAt
  <2> QED BY <2>1, <2>2, <2>3, <2>7 DEF Exists
<1>4. IsFiniteSet(Unused) /\ Unused \subseteq Fresh /\ Unused \subseteq Node /\ \A n \in Unused : ~Exists(n)
  <2>1. Unused \subseteq Fresh /\ IsFiniteSet(Fresh)
    BY NodeAssumption DEF Unused
  <2> QED BY <2>1, FS_Subset DEF Unused, Exists, Node
<1>5. b \notin Unused /\ m \notin Unused /\ Lhs(b) \notin Unused
  <2>1. Exists(Lhs(b))
    BY <1>1, Children
  <2> QED BY <1>4, <2>1 DEF IsMain, Exists
<1> DEFINE new == Result(b, do)
           M == Range(Made(do))
<1>6. /\ kind' = [n \in Node |-> IF n \notin M THEN kind[n]
                                 ELSE IF do.op = "map" THEN "Map"
                                 ELSE IF n = New1 THEN "Lhs" ELSE "Main"]
      /\ children' = [n \in Node |-> IF n = m THEN <<b, new>>
                                     ELSE IF n \notin M THEN children[n]
                                     ELSE IF n = New1 THEN <<of>> ELSE <<New1>>]
      /\ scope' = [n \in Node |-> IF n \in M THEN b ELSE scope[n]]
      /\ code' = [n \in Node |-> IF do.op = "bind" /\ n = New1 THEN do.code ELSE code[n]]
      /\ created' = [created EXCEPT ![b] = IF do.op = "drop" THEN <<NoNode>> ELSE Made(do)]
  BY DEF Build
<1>7. CASE do.op = "map"
  <2>1. Cardinality(Unused) >= 1
    BY <1>7 DEF NumberMade
  <2>2. Unused # {}
    BY <2>1, FS_EmptySet
  <2>3. New1 \in Unused
    BY <2>2 DEF New1
  <2>4. PICK x \in Unused : x = New1
    BY <2>3
  <2>5. new = x /\ Made(do) = <<x>>
    BY <1>7, <2>4 DEF Result, Made
  <2>6. <<x>> \in Seq(Node) /\ <<x>> \in Seq(Node \union {NoNode})
    BY <1>4
  <2>7. \A y : y \in Range(<<x>>) <=> y = x
    BY DEF Range
  <2>8. M = {x} /\ <<b, x>> \in Seq(Node) /\ <<of>> \in Seq(Node)
    BY <1>3, <1>4, <2>5, <2>7
  <2>9. created' = [created EXCEPT ![b] = <<x>>]
    BY <1>6, <1>7, <2>5
  <2> HIDE DEF new, M, of
  <2>10. kind' \in [Node -> {"None", "Var", "Map", "Lhs", "Main"}]
    BY <1>6, <1>7 DEF TypeOK
  <2>11. children' \in [Node -> Seq(Node)]
    <3>1. \A n \in Node : children'[n] \in {<<b, x>>, children[n], <<of>>}
      BY <1>6, <2>4, <2>5, <2>8
    <3>2. \A n \in Node : children[n] \in Seq(Node)
      BY DEF TypeOK
    <3>3. \A n \in Node : children'[n] \in Seq(Node)
      BY <2>8, <3>1, <3>2
    <3> QED BY <1>6, <3>3
  <2>12. scope' \in [Node -> Node \union {NoNode}] /\ code' = code
    BY <1>6, <1>7 DEF TypeOK
  <2>13. created' \in [Node -> Seq(Node \union {NoNode})]
    BY <2>6, <2>9 DEF TypeOK
  <2>14. Building(rank, b, m, M, new, x, of)
    <3>1. M \subseteq Fresh /\ \A n \in M : ~Exists(n)
      BY <1>4, <2>8
    <3>2. new \in Node /\ of \in Top /\ TopKind[of] # "Lhs" /\ rank[of] < rank[b]
      BY <1>3, <1>4, <2>5
    <3>3. \A n \in Node \ M : kind'[n] = kind[n] /\ code'[n] = code[n] /\ scope'[n] = scope[n]
                         /\ (n # m => children'[n] = children[n])
      BY <1>6, <2>12
    <3>4. (\A n \in M : scope'[n] = b) /\ children'[m] = <<b, new>>
      BY <1>4, <1>6, <2>8
    <3>5. /\ \A n \in Node \ {b} : created'[n] = created[n]
          /\ \A n \in Node : n \in Range(created'[b]) <=> n \in M
      BY <2>7, <2>8, <2>9 DEF TypeOK
    <3>6. M = {new} /\ kind'[new] = "Map" /\ children'[new] = <<of>>
      BY <1>4, <1>5, <1>6, <1>7, <2>4, <2>5, <2>8
    <3> QED BY <3>1, <3>2, <3>3, <3>4, <3>5, <3>6 DEF Building
  <2>15. x \in Node /\ new \in Node /\ of \in Top
    BY <1>3, <1>4, <2>5
  <2> QED BY <2>10, <2>11, <2>12, <2>13, <2>14, <2>15 DEF new, M, of, TypeOK
<1>8. CASE do.op = "bind"
  <2>1. Cardinality(Unused) >= 2
    BY <1>8 DEF NumberMade
  <2>2. Unused # {}
    BY <2>1, FS_EmptySet
  <2>3. New1 \in Unused
    BY <2>2 DEF New1
  <2>4. PICK x \in Unused : x = New1
    BY <2>3
  <2>5. Unused \ {x} # {}
    <3>1. IsFiniteSet(Unused \ {x}) /\ Cardinality(Unused \ {x}) = Cardinality(Unused) - 1
      BY <1>4, FS_RemoveElement
    <3>2. Cardinality(Unused) \in Nat
      BY <1>4, FS_CardinalityType
    <3> QED BY <2>1, <3>1, <3>2, FS_EmptySet
  <2>6. New2 \in Unused \ {x}
    BY <2>4, <2>5 DEF New2
  <2>7. PICK y \in Unused \ {x} : y = New2
    BY <2>6
  <2>8. new = y /\ Made(do) = <<x, y>>
    BY <1>8, <2>4, <2>7 DEF Result, Made
  <2>9. x \in Node /\ y \in Node /\ x # y
    BY <1>4
  <2>10. <<x, y>> \in Seq(Node \union {NoNode}) /\ <<b, y>> \in Seq(Node) /\ <<of>> \in Seq(Node) /\ <<x>> \in Seq(Node)
    BY <1>3, <2>9
  <2>11. \A z : z \in Range(<<x, y>>) <=> z = x \/ z = y
    <3> DEFINE t == <<x, y>>
    <3>1. DOMAIN t = 1 .. 2 /\ t[1] = x /\ t[2] = y
      OBVIOUS
    <3> HIDE DEF t
    <3>2. \A z : z \in Range(t) <=> z = x \/ z = y
      BY <3>1 DEF Range
    <3> QED BY <3>2 DEF t
  <2>12. M = {x, y}
    BY <2>8, <2>11
  <2>13. created' = [created EXCEPT ![b] = <<x, y>>]
    BY <1>6, <1>8, <2>8
  <2> HIDE DEF new, M, of
  <2>14. kind' \in [Node -> {"None", "Var", "Map", "Lhs", "Main"}]
    BY <1>6, <1>8 DEF TypeOK
  <2>15. children' \in [Node -> Seq(Node)]
    <3>1. \A n \in Node : children'[n] \in {<<b, y>>, children[n], <<of>>, <<x>>}
      BY <1>6, <2>4, <2>8
    <3>2. \A n \in Node : children[n] \in Seq(Node)
      BY DEF TypeOK
    <3>3. \A n \in Node : children'[n] \in Seq(Node)
      BY <2>10, <3>1, <3>2
    <3> QED BY <1>6, <3>3
  <2>16. scope' \in [Node -> Node \union {NoNode}] /\ code' \in [Node -> DOMAIN Program \union {NoValue}]
    BY <1>2, <1>6, <1>8 DEF TypeOK
  <2>17. created' \in [Node -> Seq(Node \union {NoNode})]
    BY <2>10, <2>13 DEF TypeOK
  <2>18. Building(rank, b, m, M, new, x, of)
    <3>1. M \subseteq Fresh /\ \A n \in M : ~Exists(n)
      BY <1>4, <2>12
    <3>2. new \in Node /\ of \in Top /\ TopKind[of] # "Lhs" /\ rank[of] < rank[b]
      BY <1>3, <2>8, <2>9
    <3>3. \A n \in Node \ M : kind'[n] = kind[n] /\ code'[n] = code[n] /\ scope'[n] = scope[n]
                         /\ (n # m => children'[n] = children[n])
      BY <1>6, <2>4, <2>12
    <3>4. (\A n \in M : scope'[n] = b) /\ children'[m] = <<b, new>>
      BY <1>6, <2>9, <2>12
    <3>5. /\ \A n \in Node \ {b} : created'[n] = created[n]
          /\ \A n \in Node : n \in Range(created'[b]) <=> n \in M
      BY <2>11, <2>12, <2>13 DEF TypeOK
    <3>6. M = {x, new} /\ x # new
      BY <2>8, <2>9, <2>12
    <3>7. kind'[x] = "Lhs" /\ kind'[new] = "Main"
      BY <1>6, <1>8, <2>4, <2>8, <2>9, <2>12
    <3>8. children'[x] = <<of>> /\ children'[new] = <<x>>
      BY <1>5, <1>6, <2>4, <2>8, <2>9, <2>12
    <3>9. code'[x] \in DOMAIN Program /\ Reach[code'[x]] <= Reach[code[b]]
      BY <1>2, <1>6, <1>8, <2>4, <2>9
    <3> QED BY <3>1, <3>2, <3>3, <3>4, <3>5, <3>6, <3>7, <3>8, <3>9 DEF Building
  <2>19. x \in Node /\ new \in Node /\ of \in Top
    BY <1>3, <2>8, <2>9
  <2> QED BY <2>14, <2>15, <2>16, <2>17, <2>18, <2>19 DEF new, M, of
<1>9. CASE do.op \notin {"map", "bind"}
  <2>1. Made(do) = <<>>
    BY <1>9 DEF Made
  <2>2. M = {} /\ <<>> \in Seq(Node \union {NoNode})
    BY <2>1, NothingOrdered
  <2>3. /\ new \in Node /\ Exists(new) /\ kind[new] # "Lhs" /\ rank[new] < rank[b]
        /\ new \in Top \/ (IsMain(Lhs(b)) /\ scope[new] = Lhs(Lhs(b)))
    <3> DEFINE x == Lhs(b)
    <3>1. new = IF do.op = "rhs" /\ OwnRhs(x) THEN children[x][2] ELSE of
      BY <1>9 DEF Result, Lhs
    <3>2. CASE do.op = "rhs" /\ OwnRhs(x)
      <4>1. IsMain(x) /\ HasRhs(x) /\ new = Rhs(x) /\ x \in Node
        BY <1>1, <3>1, <3>2 DEF OwnRhs, IsMain, HasRhs, Rhs
      <4>2. Child(Rhs(x), x) /\ Rhs(x) \in Node /\ kind[Rhs(x)] \notin {"None", "Lhs"}
        BY <4>1, MainChildren
      <4>3. rank[Rhs(x)] < rank[x] /\ rank[x] < rank[b]
        BY <1>1, <4>1, <4>2 DEF Ranked, RankedAt, Child, IsMain, Exists
      <4>4. rank[Rhs(x)] \in Nat /\ rank[x] \in Nat /\ rank[b] \in Nat
        BY <4>1, <4>2
      <4>5. rank[Rhs(x)] < rank[b]
        BY <4>3, <4>4
      <4>6. scope[new] = Lhs(x)
        BY <3>1, <3>2 DEF OwnRhs, Lhs
      <4> QED BY <4>1, <4>2, <4>5, <4>6 DEF Exists
    <3>3. CASE ~(do.op = "rhs" /\ OwnRhs(x))
      BY <1>3, <3>1, <3>3
    <3> QED BY <3>2, <3>3
  <2> HIDE DEF new, M, of
  <2>4. \A y \in Node : y \notin Range(<<NoNode>>) /\ y \notin Range(<<>>)
    BY NodeAssumption, NothingOrdered DEF Range
  <2>5. created' = [created EXCEPT ![b] = <<NoNode>>] \/ created' = [created EXCEPT ![b] = <<>>]
    BY <1>6, <2>1
  <2>6. <<NoNode>> \in Seq(Node \union {NoNode}) /\ <<b, new>> \in Seq(Node)
    BY <2>3
  <2>7. kind' = kind /\ scope' = scope /\ code' = code
    BY <1>6, <1>9, <2>2 DEF TypeOK
  <2>8. children' \in [Node -> Seq(Node)]
    <3>1. \A n \in Node : children'[n] \in {<<b, new>>, children[n]}
      BY <1>6, <2>2
    <3>2. \A n \in Node : children[n] \in Seq(Node)
      BY DEF TypeOK
    <3>3. \A n \in Node : children'[n] \in Seq(Node)
      BY <2>6, <3>1, <3>2
    <3> QED BY <1>6, <3>3
  <2>9. created' \in [Node -> Seq(Node \union {NoNode})]
    BY <2>2, <2>5, <2>6 DEF TypeOK
  <2>10. Building(rank, b, m, M, new, b, of)
    <3>1. M \subseteq Fresh /\ \A n \in M : ~Exists(n)
      BY <2>2
    <3>2. new \in Node /\ of \in Top /\ TopKind[of] # "Lhs" /\ rank[of] < rank[b]
      BY <1>3, <2>3
    <3>3. \A n \in Node \ M : kind'[n] = kind[n] /\ code'[n] = code[n] /\ scope'[n] = scope[n]
                         /\ (n # m => children'[n] = children[n])
      BY <1>6, <2>7
    <3>4. (\A n \in M : scope'[n] = b) /\ children'[m] = <<b, new>>
      BY <1>6, <2>2
    <3>5. /\ \A n \in Node \ {b} : created'[n] = created[n]
          /\ \A n \in Node : n \in Range(created'[b]) <=> n \in M
      BY <2>2, <2>4, <2>5 DEF TypeOK
    <3> QED BY <2>2, <2>3, <3>1, <3>2, <3>3, <3>4, <3>5 DEF Building
  <2> QED BY <1>3, <2>3, <2>7, <2>8, <2>9, <2>10 DEF new, M, of, TypeOK
<1> QED BY <1>2, <1>7, <1>8, <1>9

-----------------------------------------------------------------------------
(***************************************************************************)
(* The run of a closure: the calls that follow it.                         *)
(***************************************************************************)
\* The calls of the BindLhsChange branch, after the closure of b has returned new.
RunCalls(b, m, old, new, previous) ==
  ChangeChildCalls(m, old, new) \o PurgeCalls(old, previous) \o <<Do("change", b), Do("drop", NoNode)>>

RunCall(b, m, old, new, previous, d, k, q) ==
  \/ d \in {"add_parent", "adjust_heights", "queue_if_older"} /\ k = new /\ q = m /\ old # <<new>>
  \/ d = "propagate_invalidity" /\ k = NoNode /\ q = NoNode
  \/ d = "release" /\ k \in Range(old) /\ q = NoNode /\ old # <<new>>
  \/ d = "invalidate" /\ k \in Range(previous) /\ q = NoNode /\ old # <<>>
  \/ d = "change" /\ k = b /\ q = NoNode
  \/ d = "drop" /\ k = NoNode /\ q = NoNode

LEMMA StateAddParentFacts ==
  ASSUME NEW rank \in [Node -> Nat], NEW c \in Node, NEW p \in Node
  PROVE  /\ StateAddParent(c, p) \in Seq(Call) /\ Ordered(rank, StateAddParent(c, p))
         /\ Heard(StateAddParent(c, p))
         /\ \A d, k, q : [do |-> d, node |-> k, with |-> q] \in Range(StateAddParent(c, p)) <=>
              \/ d \in {"add_parent", "adjust_heights", "queue_if_older"} /\ k = c /\ q = p
              \/ d = "propagate_invalidity" /\ k = NoNode /\ q = NoNode
<1> DEFINE f1 == [do |-> "add_parent", node |-> c, with |-> p]
           f2 == [do |-> "adjust_heights", node |-> c, with |-> p]
           f3 == [do |-> "propagate_invalidity", node |-> NoNode, with |-> NoNode]
           f4 == [do |-> "queue_if_older", node |-> c, with |-> p]
           s == <<f1, f2, f3, f4>>
<1>1. f1 \in Call /\ f2 \in Call /\ f3 \in Call /\ f4 \in Call
  BY DEF Call, Function
<1>2. StateAddParent(c, p) = s
  BY DEF StateAddParent, Do, DoWith
<1>3. f1.do = "add_parent" /\ f2.do = "adjust_heights" /\ f3.do = "propagate_invalidity"
      /\ f4.do = "queue_if_older"
  OBVIOUS
<1>4. \A d, k, q : LET g == [do |-> d, node |-> k, with |-> q] IN
        /\ g = f1 <=> d = "add_parent" /\ k = c /\ q = p
        /\ g = f2 <=> d = "adjust_heights" /\ k = c /\ q = p
        /\ g = f3 <=> d = "propagate_invalidity" /\ k = NoNode /\ q = NoNode
        /\ g = f4 <=> d = "queue_if_older" /\ k = c /\ q = p
  BY SameCall, Zenon
<1>5. /\ Before(rank, f1, f2) /\ Before(rank, f1, f3) /\ Before(rank, f1, f4)
      /\ Before(rank, f2, f3) /\ Before(rank, f2, f4) /\ Before(rank, f3, f4)
  <2> HIDE DEF f1, f2, f3, f4
  <2> QED BY <1>3 DEF Before, Linking, Ending, Observing
<1> HIDE DEF f1, f2, f3, f4
<1>6. s \in Seq(Call) /\ DOMAIN s = 1 .. 4 /\ s[1] = f1 /\ s[2] = f2 /\ s[3] = f3 /\ s[4] = f4
  BY <1>1
<1> HIDE DEF s
<1>7. \A i \in DOMAIN s : i \in {1, 2, 3, 4}
  BY <1>6
<1>8. Ordered(rank, s)
  <2>1. SUFFICES ASSUME NEW i \in {1, 2, 3, 4}, NEW j \in {1, 2, 3, 4}, i < j
                 PROVE  Before(rank, s[i], s[j])
    BY <1>7 DEF Ordered
  <2>2. \/ i = 1 /\ j \in {2, 3, 4}
        \/ i = 2 /\ j \in {3, 4}
        \/ i = 3 /\ j = 4
    BY <2>1
  <2> QED BY <1>5, <1>6, <2>2, Zenon
<1>9. Heard(s)
  <2>1. SUFFICES ASSUME NEW i \in {1, 2, 3, 4}, s[i].do \in Adding
                 PROVE  \E j \in DOMAIN s : i < j /\ s[j].do = "propagate_invalidity"
    BY <1>7 DEF Heard
  <2>2. i = 1
    BY <1>3, <1>6, <2>1 DEF Adding
  <2>3. 3 \in DOMAIN s /\ 1 < 3
    BY <1>6
  <2> QED BY <1>3, <1>6, <2>2, <2>3
<1>10. \A x : x \in Range(s) <=> x = f1 \/ x = f2 \/ x = f3 \/ x = f4
  <2>1. 1 \in DOMAIN s /\ 2 \in DOMAIN s /\ 3 \in DOMAIN s /\ 4 \in DOMAIN s
    BY <1>6
  <2> QED BY <1>6, <1>7, <2>1 DEF Range
<1>11. ASSUME NEW d, NEW k, NEW q
       PROVE  [do |-> d, node |-> k, with |-> q] \in Range(s) <=>
                \/ d \in {"add_parent", "adjust_heights", "queue_if_older"} /\ k = c /\ q = p
                \/ d = "propagate_invalidity" /\ k = NoNode /\ q = NoNode
  <2> DEFINE g == [do |-> d, node |-> k, with |-> q]
  <2>1. /\ g = f1 <=> d = "add_parent" /\ k = c /\ q = p
        /\ g = f2 <=> d = "adjust_heights" /\ k = c /\ q = p
        /\ g = f3 <=> d = "propagate_invalidity" /\ k = NoNode /\ q = NoNode
        /\ g = f4 <=> d = "queue_if_older" /\ k = c /\ q = p
    BY <1>4, Zenon
  <2>2. g \in Range(s) <=> g = f1 \/ g = f2 \/ g = f3 \/ g = f4
    BY <1>10, Zenon
  <2> HIDE DEF g
  <2>3. g \in Range(s) <=>
                \/ d \in {"add_parent", "adjust_heights", "queue_if_older"} /\ k = c /\ q = p
                \/ d = "propagate_invalidity" /\ k = NoNode /\ q = NoNode
    BY <2>1, <2>2
  <2> QED BY <2>3 DEF g
<1> QED BY <1>2, <1>6, <1>8, <1>9, <1>11, Zenon

LEMMA ChangeChildCallsFacts ==
  ASSUME NEW rank \in [Node -> Nat], NEW m \in Node, NEW new \in Node, valid[m],
         NEW old \in Seq(Node), Len(old) <= 1
  PROVE  LET s == ChangeChildCalls(m, old, new) IN
         /\ s \in Seq(Call) /\ Ordered(rank, s) /\ Heard(s)
         /\ \A d, k, q : [do |-> d, node |-> k, with |-> q] \in Range(s) <=>
              /\ old # <<new>>
              /\ \/ d \in {"add_parent", "adjust_heights", "queue_if_older"} /\ k = new /\ q = m
                 \/ d = "propagate_invalidity" /\ k = NoNode /\ q = NoNode
                 \/ d = "release" /\ k \in Range(old) /\ q = NoNode
<1> DEFINE s == ChangeChildCalls(m, old, new)
           t == StateAddParent(new, m)
           r == DoEach("release", old)
<1>1. CASE old = <<new>>
  <2>1. s = <<>>
    BY <1>1 DEF ChangeChildCalls, SameRhs
  <2> HIDE DEF s
  <2>2. s \in Seq(Call) /\ Ordered(rank, s) /\ Heard(s) /\ \A x : x \notin Range(s)
    BY <2>1, NothingOrdered, Zenon
  <2>3. ASSUME NEW d, NEW k, NEW q PROVE [do |-> d, node |-> k, with |-> q] \notin Range(s)
    BY <2>2, Zenon
  <2> QED BY <1>1, <2>2, <2>3 DEF s
<1>2. CASE old # <<new>>
  <2>1. s = t \o r
    BY <1>2 DEF ChangeChildCalls, SameRhs
  <2>2. /\ t \in Seq(Call) /\ Ordered(rank, t) /\ Heard(t)
        /\ \A d, k, q : [do |-> d, node |-> k, with |-> q] \in Range(t) <=>
              \/ d \in {"add_parent", "adjust_heights", "queue_if_older"} /\ k = new /\ q = m
              \/ d = "propagate_invalidity" /\ k = NoNode /\ q = NoNode
    BY StateAddParentFacts
  <2>3. /\ r \in Seq(Call)
        /\ \A d, k, q : [do |-> d, node |-> k, with |-> q] \in Range(r)
              <=> d = "release" /\ k \in Range(old) /\ q = NoNode
    <3>1. "release" \in Function /\ old \in Seq(Node \union {NoNode})
      BY DEF Function
    <3> QED BY <3>1, DoEachFacts, Zenon
  <2>4. DOMAIN r = DOMAIN old /\ DOMAIN old = 1 .. Len(old) /\ Len(old) \in Nat
    BY DEF DoEach
  <2> HIDE DEF s, t, r
  <2>5. Ordered(rank, r)
    <3>1. \A i, j \in DOMAIN r : ~(i < j)
      BY <2>4
    <3> QED BY <3>1 DEF Ordered
  <2>6. \A f \in Range(r) : f.do = "release"
    <3>1. SUFFICES ASSUME NEW f \in Range(r) PROVE f.do = "release"
      OBVIOUS
    <3>2. f \in Call
      BY <2>3, ElementInSet
    <3>3. f = [do |-> f.do, node |-> f.node, with |-> f.with]
      BY <3>2, CallFields
    <3> QED BY <2>3, <3>1, <3>3, Zenon
  <2>7. \A f \in Range(t) : f.do \in {"add_parent", "adjust_heights", "queue_if_older", "propagate_invalidity"}
    <3>1. SUFFICES ASSUME NEW f \in Range(t) PROVE f.do \in {"add_parent", "adjust_heights", "queue_if_older", "propagate_invalidity"}
      OBVIOUS
    <3>2. f \in Call
      BY <2>2, ElementInSet
    <3>3. f = [do |-> f.do, node |-> f.node, with |-> f.with]
      BY <3>2, CallFields
    <3>4. \/ f.do \in {"add_parent", "adjust_heights", "queue_if_older"}
          \/ f.do = "propagate_invalidity"
      BY <2>2, <3>1, <3>3, Zenon
    <3> QED BY <3>4
  <2>8. \A f \in Range(t), g \in Range(r) : Before(rank, f, g)
    <3>1. SUFFICES ASSUME NEW f \in Range(t), NEW g \in Range(r) PROVE Before(rank, f, g)
      OBVIOUS
    <3>2. g.do = "release" /\ f.do \in {"add_parent", "adjust_heights", "queue_if_older", "propagate_invalidity"}
      BY <2>6, <2>7
    <3> QED BY <3>2 DEF Before, Linking, Ending, Observing
  <2>9. Heard(r)
    <3>1. \A i \in DOMAIN r : r[i].do \notin Adding
      <4>1. SUFFICES ASSUME NEW i \in DOMAIN r PROVE r[i].do \notin Adding
        OBVIOUS
      <4>2. r[i] \in Range(r)
        BY Zenon DEF Range
      <4> QED BY <2>6, <4>2 DEF Adding
    <3> QED BY <3>1 DEF Heard
  <2>10. /\ t \o r \in Seq(Call) /\ Ordered(rank, t \o r) /\ Heard(t \o r)
         /\ \A x : x \in Range(t \o r) <=> x \in Range(t) \/ x \in Range(r)
    BY <2>2, <2>3, <2>5, <2>8, <2>9, Concatenation, OrderedConcatenation, HeardConcatenation
  <2>11. ASSUME NEW d, NEW k, NEW q
         PROVE  [do |-> d, node |-> k, with |-> q] \in Range(s) <=>
                  /\ old # <<new>>
                  /\ \/ d \in {"add_parent", "adjust_heights", "queue_if_older"} /\ k = new /\ q = m
                     \/ d = "propagate_invalidity" /\ k = NoNode /\ q = NoNode
                     \/ d = "release" /\ k \in Range(old) /\ q = NoNode
    <3> DEFINE g == [do |-> d, node |-> k, with |-> q]
    <3>1. g \in Range(t) <=>
              \/ d \in {"add_parent", "adjust_heights", "queue_if_older"} /\ k = new /\ q = m
              \/ d = "propagate_invalidity" /\ k = NoNode /\ q = NoNode
      BY <2>2, Zenon
    <3>2. g \in Range(r) <=> d = "release" /\ k \in Range(old) /\ q = NoNode
      BY <2>3, Zenon
    <3>3. g \in Range(s) <=> g \in Range(t) \/ g \in Range(r)
      BY <2>1, <2>10, Zenon
    <3> HIDE DEF g
    <3>4. g \in Range(s) <=>
                  /\ old # <<new>>
                  /\ \/ d \in {"add_parent", "adjust_heights", "queue_if_older"} /\ k = new /\ q = m
                     \/ d = "propagate_invalidity" /\ k = NoNode /\ q = NoNode
                     \/ d = "release" /\ k \in Range(old) /\ q = NoNode
      BY <1>2, <3>1, <3>2, <3>3, Zenon
    <3> QED BY <3>4 DEF g
  <2> QED BY <1>2, <2>1, <2>10, <2>11, Zenon DEF s
<1> QED BY <1>1, <1>2, Zenon

LEMMA PurgeCallsFacts ==
  ASSUME NEW rank \in [Node -> Nat], NEW old, NEW previous \in Seq(Node \union {NoNode})
  PROVE  LET s == PurgeCalls(old, previous) IN
         /\ s \in Seq(Call) /\ Ordered(rank, s) /\ Heard(s)
         /\ \A d, k, q : [do |-> d, node |-> k, with |-> q] \in Range(s) <=>
              /\ old # <<>>
              /\ \/ d = "invalidate" /\ k \in Range(previous) /\ q = NoNode
                 \/ d = "propagate_invalidity" /\ k = NoNode /\ q = NoNode
<1> DEFINE s == PurgeCalls(old, previous)
           t == DoEach("invalidate", previous)
           f == Do("propagate_invalidity", NoNode)
           u == <<f>>
<1>1. CASE old = <<>>
  <2>1. s = <<>>
    BY <1>1 DEF PurgeCalls
  <2> HIDE DEF s
  <2>2. s \in Seq(Call) /\ Ordered(rank, s) /\ Heard(s) /\ \A x : x \notin Range(s)
    BY <2>1, NothingOrdered, Zenon
  <2>3. ASSUME NEW d, NEW k, NEW q PROVE [do |-> d, node |-> k, with |-> q] \notin Range(s)
    BY <2>2, Zenon
  <2> QED BY <1>1, <2>2, <2>3, Zenon DEF s
<1>2. CASE old # <<>>
  <2>1. f \in Call /\ f = [do |-> "propagate_invalidity", node |-> NoNode, with |-> NoNode]
        /\ f.do = "propagate_invalidity"
    BY CallMade DEF Do, Function
  <2>2. /\ t \in Seq(Call)
        /\ \A d, k, q : [do |-> d, node |-> k, with |-> q] \in Range(t)
              <=> d = "invalidate" /\ k \in Range(previous) /\ q = NoNode
    <3>1. "invalidate" \in Function
      BY DEF Function
    <3> QED BY <3>1, DoEachFacts, Zenon
  <2>3. s = t \o u
    <3>1. s = Append(t, f)
      BY <1>2 DEF PurgeCalls
    <3> HIDE DEF t, f
    <3> QED BY <2>1, <2>2, <3>1
  <2> HIDE DEF s, t, f
  <2>4. u \in Seq(Call) /\ Ordered(rank, u) /\ \A x : x \in Range(u) <=> x = f
    BY <2>1, OneOrdered
  <2>5. Heard(u) /\ \E g \in Range(u) : g.do = "propagate_invalidity"
    <3>1. DOMAIN u = {1} /\ u[1] = f
      OBVIOUS
    <3> HIDE DEF u
    <3> QED BY <2>1, <2>4, <3>1 DEF Heard, Adding
  <2> HIDE DEF u
  <2>6. \A g \in Range(t) : g.do = "invalidate"
    <3>1. SUFFICES ASSUME NEW g \in Range(t) PROVE g.do = "invalidate"
      OBVIOUS
    <3>2. g \in Call
      BY <2>2, ElementInSet
    <3>3. g = [do |-> g.do, node |-> g.node, with |-> g.with]
      BY <3>2, CallFields
    <3> QED BY <2>2, <3>1, <3>3, Zenon
  <2>7. Ordered(rank, t)
    <3>1. SUFFICES ASSUME NEW i \in DOMAIN t, NEW j \in DOMAIN t PROVE Before(rank, t[i], t[j])
      BY DEF Ordered
    <3>2. t[i] \in Range(t) /\ t[j] \in Range(t)
      BY Zenon DEF Range
    <3>3. t[i].do = "invalidate" /\ t[j].do = "invalidate"
      BY <2>6, <3>2
    <3> QED BY <3>3 DEF Before, Linking, Ending, Observing
  <2>8. \A g \in Range(t), h \in Range(u) : Before(rank, g, h)
    <3>1. SUFFICES ASSUME NEW g \in Range(t), NEW h \in Range(u) PROVE Before(rank, g, h)
      OBVIOUS
    <3>2. g.do = "invalidate" /\ h.do = "propagate_invalidity"
      BY <2>1, <2>4, <2>6
    <3> QED BY <3>2 DEF Before, Linking, Ending, Observing
  <2>9. /\ t \o u \in Seq(Call) /\ Ordered(rank, t \o u) /\ Heard(t \o u)
        /\ \A x : x \in Range(t \o u) <=> x \in Range(t) \/ x \in Range(u)
    BY <2>2, <2>4, <2>5, <2>7, <2>8, Concatenation, OrderedConcatenation, HeardConcatenation
  <2>10. ASSUME NEW d, NEW k, NEW q
         PROVE  [do |-> d, node |-> k, with |-> q] \in Range(s) <=>
                  /\ old # <<>>
                  /\ \/ d = "invalidate" /\ k \in Range(previous) /\ q = NoNode
                     \/ d = "propagate_invalidity" /\ k = NoNode /\ q = NoNode
    <3> DEFINE g == [do |-> d, node |-> k, with |-> q]
    <3>1. g = f <=> d = "propagate_invalidity" /\ k = NoNode /\ q = NoNode
      BY <2>1, SameCall, Zenon
    <3>2. g \in Range(t) <=> d = "invalidate" /\ k \in Range(previous) /\ q = NoNode
      BY <2>2, Zenon
    <3>3. g \in Range(s) <=> g \in Range(t) \/ g = f
      BY <2>3, <2>4, <2>9, Zenon
    <3> HIDE DEF g
    <3>4. g \in Range(s) <=>
                  /\ old # <<>>
                  /\ \/ d = "invalidate" /\ k \in Range(previous) /\ q = NoNode
                     \/ d = "propagate_invalidity" /\ k = NoNode /\ q = NoNode
      BY <1>2, <3>1, <3>2, <3>3, Zenon
    <3> QED BY <3>4 DEF g
  <2> QED BY <1>2, <2>3, <2>9, <2>10, Zenon DEF s
<1> QED BY <1>1, <1>2, Zenon

LEMMA RunCallsFacts ==
  ASSUME NEW rank \in [Node -> Nat], NEW b \in Node, NEW m \in Node, NEW new \in Node, valid[m],
         NEW old \in Seq(Node), Len(old) <= 1, NEW previous \in Seq(Node \union {NoNode})
  PROVE  LET s == RunCalls(b, m, old, new, previous) IN
         /\ s \in Seq(Call) /\ Ordered(rank, s) /\ Heard(s)
         /\ \A d, k, q : [do |-> d, node |-> k, with |-> q] \in Range(s) <=>
              RunCall(b, m, old, new, previous, d, k, q)
<1> DEFINE A == ChangeChildCalls(m, old, new)
           P == PurgeCalls(old, previous)
           ch == Do("change", b)
           dr == Do("drop", NoNode)
           E == <<ch, dr>>
<1>1. RunCalls(b, m, old, new, previous) = A \o P \o E
  BY DEF RunCalls
<1>2. /\ A \in Seq(Call) /\ Ordered(rank, A) /\ Heard(A)
      /\ \A d, k, q : [do |-> d, node |-> k, with |-> q] \in Range(A) <=>
              /\ old # <<new>>
              /\ \/ d \in {"add_parent", "adjust_heights", "queue_if_older"} /\ k = new /\ q = m
                 \/ d = "propagate_invalidity" /\ k = NoNode /\ q = NoNode
                 \/ d = "release" /\ k \in Range(old) /\ q = NoNode
  BY ChangeChildCallsFacts
<1>3. /\ P \in Seq(Call) /\ Ordered(rank, P) /\ Heard(P)
      /\ \A d, k, q : [do |-> d, node |-> k, with |-> q] \in Range(P) <=>
              /\ old # <<>>
              /\ \/ d = "invalidate" /\ k \in Range(previous) /\ q = NoNode
                 \/ d = "propagate_invalidity" /\ k = NoNode /\ q = NoNode
  BY PurgeCallsFacts
<1>4. /\ ch \in Call /\ dr \in Call
      /\ ch = [do |-> "change", node |-> b, with |-> NoNode]
      /\ dr = [do |-> "drop", node |-> NoNode, with |-> NoNode]
      /\ ch.do = "change" /\ dr.do = "drop"
  BY CallMade DEF Do, Function
<1> HIDE DEF A, P, ch, dr
<1>5. Before(rank, ch, dr)
  BY <1>4 DEF Before, Linking, Ending, Observing
<1>6. E \in Seq(Call) /\ Ordered(rank, E) /\ \A x : x \in Range(E) <=> x = ch \/ x = dr
  <2>1. /\ <<ch, dr>> \in Seq(Call) /\ Ordered(rank, <<ch, dr>>)
        /\ \A x : x \in Range(<<ch, dr>>) <=> x = ch \/ x = dr
    <3>1. ch \in Call /\ dr \in Call
      BY <1>4
    <3> QED BY <3>1, <1>5, PairOrdered
  <2>2. E = <<ch, dr>>
    OBVIOUS
  <2> HIDE DEF E
  <2> QED BY <2>1, <2>2, Zenon
<1>7. Heard(E)
  <2>1. DOMAIN E = {1, 2} /\ E[1] = ch /\ E[2] = dr
    OBVIOUS
  <2> HIDE DEF E
  <2>2. \A i \in DOMAIN E : E[i].do \notin Adding
    BY <1>4, <2>1 DEF Adding
  <2> QED BY <2>2 DEF Heard
<1> HIDE DEF E
<1>8. \A f \in Range(A) : f.do \in {"add_parent", "adjust_heights", "queue_if_older", "propagate_invalidity", "release"}
  <2>1. SUFFICES ASSUME NEW f \in Range(A)
                 PROVE f.do \in {"add_parent", "adjust_heights", "queue_if_older", "propagate_invalidity", "release"}
    OBVIOUS
  <2>2. f \in Call
    BY <1>2, ElementInSet
  <2>3. f = [do |-> f.do, node |-> f.node, with |-> f.with]
    BY <2>2, CallFields
  <2>4. \/ f.do \in {"add_parent", "adjust_heights", "queue_if_older"}
        \/ f.do = "propagate_invalidity" \/ f.do = "release"
    BY <1>2, <2>1, <2>3, Zenon
  <2> QED BY <2>4
<1>9. \A f \in Range(P) : f.do = "invalidate" \/ f.do = "propagate_invalidity"
  <2>1. SUFFICES ASSUME NEW f \in Range(P) PROVE f.do = "invalidate" \/ f.do = "propagate_invalidity"
    OBVIOUS
  <2>2. f \in Call
    BY <1>3, ElementInSet
  <2>3. f = [do |-> f.do, node |-> f.node, with |-> f.with]
    BY <2>2, CallFields
  <2> QED BY <1>3, <2>1, <2>3, Zenon
<1>10. /\ A \o P \in Seq(Call) /\ Ordered(rank, A \o P) /\ Heard(A \o P)
       /\ \A x : x \in Range(A \o P) <=> x \in Range(A) \/ x \in Range(P)
  <2>1. \A f \in Range(A), g \in Range(P) : Before(rank, f, g)
    <3>1. SUFFICES ASSUME NEW f \in Range(A), NEW g \in Range(P) PROVE Before(rank, f, g)
      OBVIOUS
    <3>2. /\ f.do \in {"add_parent", "adjust_heights", "queue_if_older", "propagate_invalidity", "release"}
          /\ g.do = "invalidate" \/ g.do = "propagate_invalidity"
      BY <1>8, <1>9
    <3> QED BY <3>2 DEF Before, Linking, Ending, Observing
  <2> QED BY <1>2, <1>3, <2>1, Concatenation, OrderedConcatenation, HeardConcatenation
<1> DEFINE AP == A \o P
<1>11. /\ AP \o E \in Seq(Call) /\ Ordered(rank, AP \o E) /\ Heard(AP \o E)
       /\ \A x : x \in Range(AP \o E) <=> x \in Range(AP) \/ x \in Range(E)
  <2> HIDE DEF AP
  <2>0. AP \in Seq(Call) /\ Ordered(rank, AP) /\ Heard(AP)
        /\ \A x : x \in Range(AP) <=> x \in Range(A) \/ x \in Range(P)
    BY <1>10 DEF AP
  <2>1. \A f \in Range(AP), g \in Range(E) : Before(rank, f, g)
    <3>1. SUFFICES ASSUME NEW f \in Range(AP), NEW g \in Range(E) PROVE Before(rank, f, g)
      OBVIOUS
    <3>2. /\ f.do \in {"add_parent", "adjust_heights", "queue_if_older", "propagate_invalidity", "release", "invalidate"}
          /\ g.do = "change" \/ g.do = "drop"
      BY <1>4, <1>6, <1>8, <1>9, <2>0
    <3> QED BY <3>2 DEF Before, Linking, Ending, Observing
  <2> QED BY <1>6, <1>7, <2>0, <2>1, Concatenation, OrderedConcatenation, HeardConcatenation
<1>12. ASSUME NEW d, NEW k, NEW q
       PROVE  [do |-> d, node |-> k, with |-> q] \in Range(AP \o E) <=>
                RunCall(b, m, old, new, previous, d, k, q)
  <2> DEFINE g == [do |-> d, node |-> k, with |-> q]
  <2>1. g = ch <=> d = "change" /\ k = b /\ q = NoNode
    BY <1>4, SameCall, Zenon
  <2>2. g = dr <=> d = "drop" /\ k = NoNode /\ q = NoNode
    BY <1>4, SameCall, Zenon
  <2>3. g \in Range(A) <=>
              /\ old # <<new>>
              /\ \/ d \in {"add_parent", "adjust_heights", "queue_if_older"} /\ k = new /\ q = m
                 \/ d = "propagate_invalidity" /\ k = NoNode /\ q = NoNode
                 \/ d = "release" /\ k \in Range(old) /\ q = NoNode
    BY <1>2, Zenon
  <2>4. g \in Range(P) <=>
              /\ old # <<>>
              /\ \/ d = "invalidate" /\ k \in Range(previous) /\ q = NoNode
                 \/ d = "propagate_invalidity" /\ k = NoNode /\ q = NoNode
    BY <1>3
  <2>5. g \in Range(AP \o E) <=> g \in Range(A) \/ g \in Range(P) \/ g = ch \/ g = dr
    BY <1>6, <1>10, <1>11, Zenon
  <2>6. old # <<new>> \/ old # <<>>
    <3>1. SUFFICES ASSUME old = <<new>>, old = <<>> PROVE FALSE
      OBVIOUS
    <3>2. Len(old) = 1
      BY ONLY <3>1
    <3>3. Len(old) = 0
      BY ONLY <3>1
    <3>4. 0 # 1
      OBVIOUS
    <3> QED BY ONLY <3>2, <3>3, <3>4
  <2> HIDE DEF g, AP
  <2>7. g \in Range(AP \o E) <=> RunCall(b, m, old, new, previous, d, k, q)
    <3> DEFINE some == old # <<>>
               other == old # <<new>>
               linking == d \in {"add_parent", "adjust_heights", "queue_if_older"} /\ k = new /\ q = m
    <3>1. RunCall(b, m, old, new, previous, d, k, q) <=>
            \/ linking /\ other
            \/ d = "propagate_invalidity" /\ k = NoNode /\ q = NoNode
            \/ d = "release" /\ k \in Range(old) /\ q = NoNode /\ other
            \/ d = "invalidate" /\ k \in Range(previous) /\ q = NoNode /\ some
            \/ d = "change" /\ k = b /\ q = NoNode
            \/ d = "drop" /\ k = NoNode /\ q = NoNode
      BY DEF RunCall
    <3>2. g \in Range(A) <=>
            /\ other
            /\ \/ linking
               \/ d = "propagate_invalidity" /\ k = NoNode /\ q = NoNode
               \/ d = "release" /\ k \in Range(old) /\ q = NoNode
      BY <2>3
    <3>3. g \in Range(P) <=>
            /\ some
            /\ \/ d = "invalidate" /\ k \in Range(previous) /\ q = NoNode
               \/ d = "propagate_invalidity" /\ k = NoNode /\ q = NoNode
      BY <2>4
    <3>4. some \/ other
      BY <2>6
    <3> HIDE DEF some, other, linking
    <3> QED BY <2>1, <2>2, <2>5, <3>1, <3>2, <3>3, <3>4, Zenon
  <2> QED BY <2>7 DEF g
<1> QED BY <1>1, <1>11, <1>12, Zenon

-----------------------------------------------------------------------------
(***************************************************************************)
(* The run of a closure: the links of its main node, and the graph after it. *)
(***************************************************************************)
\* What the run of a closure does to the links: m leaves its old right-hand side, which is
\* forced to stay necessary.
Relinked(m, old, new) ==
  /\ parents' \in [Node -> Seq(Node)] /\ \A k \in Node : Single(parents[k])'
  /\ \A q, k \in Node : IsParent(q, k)' <=> IsParent(q, k) /\ ~(k \in Range(old) /\ q = m /\ old # <<new>>)
  /\ \A k : k \in forced' <=> k \in Range(old) /\ old # <<new>>
  /\ \A k \in Node : Necessary(k)' <=> Necessary(k)

\* The run of the closure of b.
Ran(rank, b, m, M, new, l, of, old) ==
  /\ kind[b] = "Lhs" /\ IsMain(m) /\ Lhs(m) = b /\ valid[m] /\ Necessary(m) /\ m # b
  /\ valid[b] /\ Necessary(b) /\ rank[b] < rank[m]
  /\ (\A d, n, p : ~Called(d, n, p)) /\ forced = {} /\ invalidated = <<>> /\ stabilising
  /\ Building(rank, b, m, M, new, l, of)
  /\ old \in Seq(Node) /\ Len(old) <= 1
  /\ \A x : x \in Range(old) <=> HasRhs(m) /\ x = Rhs(m)
  /\ old = <<new>> <=> HasRhs(m) /\ Rhs(m) = new
  /\ old = <<>> <=> ~HasRhs(m)
  /\ calls' \in Seq(Call) /\ Covered' /\ \A r \in [Node -> Nat] : Ordered(r, calls')
  /\ \A d, k, q : Called(d, k, q)' <=> RunCall(b, m, old, new, created[b], d, k, q)
  /\ Relinked(m, old, new)
  /\ heap' = heap \ {b} /\ direct' = {} /\ Queued(b) /\ direct \subseteq {b}
  /\ recomputedAt' = [recomputedAt EXCEPT ![b] = now]
  /\ changedAt' = [changedAt EXCEPT ![b] = now]
  /\ UNCHANGED <<valid, value, height, observed, invalidated, now, stabilising, panicked, user>>

TypedBuild ==
  /\ kind' \in [Node -> {"None", "Var", "Map", "Lhs", "Main"}]
  /\ children' \in [Node -> Seq(Node)]
  /\ scope' \in [Node -> Node \union {NoNode}]
  /\ code' \in [Node -> DOMAIN Program \union {NoValue}]
  /\ created' \in [Node -> Seq(Node \union {NoNode})]

LEMMA ShortSequences ==
  ASSUME NEW S, NEW s \in Seq(S)
  PROVE  /\ Len(s) = 1 => s # <<>> /\ s = <<s[1]>> /\ \A x : s = <<x>> <=> s[1] = x
         /\ Len(s) = 0 => s = <<>> /\ \A x : s # <<x>>
         /\ Len(s) \in {1, 2} => /\ Tail(s) \in Seq(S) /\ Len(Tail(s)) = Len(s) - 1
                                  /\ Len(s) = 2 => Tail(s)[1] = s[2]
<1>1. ASSUME Len(s) = 1 PROVE s # <<>> /\ s = <<s[1]>> /\ \A x : s = <<x>> <=> s[1] = x
  <2>1. s # <<>> /\ s = <<s[1]>>
    BY <1>1
  <2>2. \A x : <<x>>[1] = x
    OBVIOUS
  <2> QED BY <2>1, <2>2
<1>2. ASSUME Len(s) = 0 PROVE s = <<>> /\ \A x : s # <<x>>
  <2>1. \A x : Len(<<x>>) = 1
    OBVIOUS
  <2> QED BY <1>2, <2>1
<1>3. ASSUME Len(s) \in {1, 2}
      PROVE  /\ Tail(s) \in Seq(S) /\ Len(Tail(s)) = Len(s) - 1
             /\ Len(s) = 2 => Tail(s)[1] = s[2]
  <2>1. s # <<>> /\ Len(s) \in Nat
    BY <1>3
  <2>2. Tail(s) \in Seq(S) /\ Len(Tail(s)) = Len(s) - 1
    BY <2>1
  <2>3. ASSUME Len(s) = 2 PROVE Tail(s)[1] = s[2]
    BY <2>1, <2>3
  <2> QED BY <2>2, <2>3
<1> QED BY <1>1, <1>2, <1>3

\* The right-hand side of a main node, as a sequence.
LEMMA OldFacts ==
  ASSUME TypeOK, Graph, NEW m \in Node, IsMain(m), NEW old, old = Tail(children[m]), NEW new
  PROVE  /\ old \in Seq(Node) /\ Len(old) <= 1
         /\ \A x : x \in Range(old) <=> HasRhs(m) /\ x = Rhs(m)
         /\ old = <<new>> <=> HasRhs(m) /\ Rhs(m) = new
         /\ old = <<>> <=> ~HasRhs(m)
<1>1. children[m] \in Seq(Node) /\ Len(children[m]) \in {1, 2}
  BY DEF TypeOK, Graph, Shapes, Shape, IsMain
<1>2. /\ old \in Seq(Node) /\ Len(old) = Len(children[m]) - 1
      /\ Len(children[m]) = 2 => old[1] = children[m][2]
  BY <1>1, ShortSequences
<1>3. Len(old) <= 1
  BY <1>1, <1>2
<1>4. CASE HasRhs(m)
  <2>1. Len(old) = 1 /\ old[1] = Rhs(m)
    BY <1>2, <1>4 DEF HasRhs, Rhs
  <2>2. old # <<>> /\ old = <<Rhs(m)>> /\ (old = <<new>> <=> Rhs(m) = new)
    <3>1. old # <<>> /\ old = <<old[1]>> /\ \A x : old = <<x>> <=> old[1] = x
      BY <1>2, <2>1, ShortSequences
    <3> HIDE DEF Rhs
    <3> QED BY <2>1, <3>1, Zenon
  <2>3. \A x : x \in Range(old) <=> x = Rhs(m)
    <3>1. DOMAIN old = {1}
      BY <1>2, <2>1
    <3> QED BY <2>1, <3>1 DEF Range
  <2> QED BY <1>2, <1>3, <1>4, <2>2, <2>3
<1>5. CASE ~HasRhs(m)
  <2>1. Len(old) = 0
    BY <1>1, <1>2, <1>5 DEF HasRhs
  <2>2. old = <<>> /\ old # <<new>>
    BY <1>2, <2>1, ShortSequences
  <2>3. \A x : x \notin Range(old)
    BY <1>2, <2>2, EmptyRange
  <2> QED BY <1>2, <1>3, <1>5, <2>2, <2>3
<1> QED BY <1>4, <1>5

LEMMA RelinkedFacts ==
  ASSUME NEW rank, TypeOK, Inv(rank), NEW m \in Node, IsMain(m), valid[m], Necessary(m),
         \A d, n, p : ~Called(d, n, p), forced = {}, observed' = observed,
         NEW new, NEW old, old = Tail(children[m]), ChangeChildBindRhs(m, old, new)
  PROVE  Relinked(m, old, new)
<1>0. Graph /\ Links
  BY DEF Inv
<1>1. /\ old \in Seq(Node) /\ Len(old) <= 1
      /\ \A x : x \in Range(old) <=> HasRhs(m) /\ x = Rhs(m)
      /\ old = <<new>> <=> HasRhs(m) /\ Rhs(m) = new
      /\ old = <<>> <=> ~HasRhs(m)
  BY <1>0, OldFacts
<1>2. parents \in [Node -> Seq(Node)] /\ \A k \in Node : Single(parents[k])
  BY <1>0 DEF TypeOK, Links
<1>3. CASE old = <<new>> \/ old = <<>>
  <2>1. parents' = parents /\ forced' = forced
    BY <1>3 DEF ChangeChildBindRhs, SameRhs
  <2>2. \A k : ~(k \in Range(old) /\ old # <<new>>)
    BY <1>1, <1>3
  <2>3. \A k \in Node : Necessary(k)' <=> Necessary(k)
    BY <2>1 DEF Necessary
  <2>4. \A k \in Node : Single(parents'[k])
    BY <1>2, <2>1
  <2> QED BY <1>2, <2>1, <2>2, <2>3, <2>4 DEF Relinked, IsParent
<1>4. CASE ~(old = <<new>> \/ old = <<>>)
  <2>0. HasRhs(m) /\ Rhs(m) \in Node
    BY <1>0, <1>1, <1>4, MainChildren
  <2>1. PICK o \in Node : o = old[1] /\ \A x : x \in Range(old) <=> x = o
    <3>1. old[1] = Rhs(m)
      <4>1. children[m] \in Seq(Node) /\ Len(children[m]) = 2
        BY <2>0 DEF TypeOK, HasRhs
      <4> QED BY <4>1, ShortSequences DEF Rhs
    <3> QED BY <1>1, <2>0, <3>1
  <2>2. parents' = [parents EXCEPT ![o] = Without(@, m)] /\ forced' = {o}
    BY <1>4, <2>1 DEF ChangeChildBindRhs, SameRhs
  <2>3. m \in Range(parents[o])
    <3>1. Child(o, m)
      BY <1>0, <1>1, <2>1, MainChildren
    <3>2. Linked(o, m)
      BY <1>0 DEF Links
    <3> QED BY <3>1, <3>2 DEF Linked, Link, Marked, IsParent
  <2>4. /\ Without(parents[o], m) \in Seq(Node) /\ Single(Without(parents[o], m))
        /\ \A x : x \in Range(Without(parents[o], m)) <=> x \in Range(parents[o]) /\ x # m
    BY <1>2, <2>3, WithoutFacts
  <2>5. parents' \in [Node -> Seq(Node)] /\ \A k \in Node : Single(parents'[k])
    BY <1>2, <2>2, <2>4
  <2>6. \A q, k \in Node : IsParent(q, k)' <=> IsParent(q, k) /\ ~(k = o /\ q = m)
    BY <1>2, <2>2, <2>4 DEF IsParent
  <2>7. ASSUME NEW k \in Node PROVE Necessary(k)' <=> Necessary(k)
    <3>1. CASE k = o
      <4>1. parents[o] # <<>>
        BY <1>2, <2>3, EmptyRange
      <4> QED BY <2>2, <3>1, <4>1 DEF Necessary
    <3>2. CASE k # o
      BY <1>2, <2>2, <3>2 DEF Necessary
    <3> QED BY <3>1, <3>2
  <2>8. \A k : k \in forced' <=> k \in Range(old) /\ old # <<new>>
    BY <1>4, <2>1, <2>2
  <2>9. \A q, k \in Node : IsParent(q, k)' <=> IsParent(q, k) /\ ~(k \in Range(old) /\ q = m /\ old # <<new>>)
    BY <1>4, <2>1, <2>6
  <2> QED BY <2>5, <2>7, <2>8, <2>9 DEF Relinked
<1> QED BY <1>3, <1>4

LEMMA RunFacts ==
  ASSUME NEW rank \in [Node -> Nat], TypeOK, Inv(rank), NEW b, IsNext(b), ~RecomputePanics(b),
         RecomputeLhs(b)
  PROVE  /\ b \in Node /\ TypedBuild
         /\ \E m, new, l \in Node, of \in Top : \E M, old : Ran(rank, b, m, M, new, l, of, old)
<1>1. b \in Node /\ Queued(b) /\ calls = <<>> /\ stabilising /\ kind[b] = "Lhs"
  BY NextIsQueued DEF RecomputeLhs
<1>2. PICK m \in Node :
           /\ MainOf(b) = {m} /\ IsMain(m) /\ Lhs(m) = b /\ valid[m] /\ Necessary(m) /\ m # b
           /\ valid[b] /\ Necessary(b) /\ rank[b] < rank[m]
           /\ \A d, n, p : ~Called(d, n, p)
           /\ forced = {} /\ invalidated = <<>> /\ direct \subseteq {b}
  BY <1>1, LhsFacts
<1> DEFINE old == Tail(children[m])
           do == Program[code[b]][value[children[b][1]]]
           new == Result(b, do)
           M == Range(Made(do))
<1>3. (CHOOSE n \in MainOf(b) : TRUE) = m
  BY <1>2
<1>4. /\ Cardinality(Unused) >= NumberMade(do)
      /\ Build(b, do, m)
      /\ recomputedAt' = [recomputedAt EXCEPT ![b] = now]
      /\ changedAt' = [changedAt EXCEPT ![b] = now]
      /\ ChangeChildBindRhs(m, old, new)
      /\ calls' = RunCalls(b, m, old, new, created[b])
      /\ heap' = heap \ {b} /\ direct' = {}
      /\ UNCHANGED <<valid, value, height, observed, invalidated, now, stabilising, panicked, user>>
  BY <1>3 DEF RecomputeLhs, RunCalls
<1>5. value[Lhs(b)] # NoValue /\ do = Program[code[b]][value[Lhs(b)]]
  BY <1>1 DEF RecomputePanics, Lhs
<1>6. Graph /\ Ranked(rank)
  BY DEF Inv
<1> HIDE DEF do
<1>7. /\ TypedBuild /\ new \in Node
      /\ \E l \in Node, of \in Top : Building(rank, b, m, M, new, l, of)
  BY <1>1, <1>2, <1>4, <1>5, <1>6, Builds DEF TypedBuild
<1>8. PICK l \in Node, of \in Top : Building(rank, b, m, M, new, l, of)
  BY <1>7
<1> HIDE DEF new, M, old
<1>9. /\ old \in Seq(Node) /\ Len(old) <= 1
      /\ \A x : x \in Range(old) <=> HasRhs(m) /\ x = Rhs(m)
      /\ old = <<new>> <=> HasRhs(m) /\ Rhs(m) = new
      /\ old = <<>> <=> ~HasRhs(m)
  BY <1>2, <1>6, OldFacts DEF old
<1>10. Relinked(m, old, new)
  <2>1. old = Tail(children[m]) /\ observed' = observed
    BY <1>4 DEF old
  <2> QED BY <1>2, <1>4, <2>1, RelinkedFacts
<1>11. /\ calls' \in Seq(Call) /\ Covered' /\ \A r \in [Node -> Nat] : Ordered(r, calls')
       /\ \A d, k, q : Called(d, k, q)' <=> RunCall(b, m, old, new, created[b], d, k, q)
  <2> DEFINE s == RunCalls(b, m, old, new, created[b])
  <2>1. created[b] \in Seq(Node \union {NoNode})
    BY <1>1 DEF TypeOK
  <2>2. \A r \in [Node -> Nat] :
        /\ s \in Seq(Call) /\ Ordered(r, s) /\ Heard(s)
        /\ \A d, k, q : [do |-> d, node |-> k, with |-> q] \in Range(s) <=>
              RunCall(b, m, old, new, created[b], d, k, q)
    BY <1>1, <1>2, <1>7, <1>9, <2>1, RunCallsFacts
  <2>3. calls' = s
    BY <1>4
  <2> HIDE DEF s
  <2>4. \A r \in [Node -> Nat] : Ordered(r, calls')
    BY <2>2, <2>3
  <2>5. s \in Seq(Call) /\ Heard(s) /\ \A d, k, q : [do |-> d, node |-> k, with |-> q] \in Range(s) <=>
              RunCall(b, m, old, new, created[b], d, k, q)
    BY <2>2
  <2>6. Covered'
    BY <2>5, <2>3 DEF Covered, Heard
  <2>7. ASSUME NEW d, NEW k, NEW q PROVE Called(d, k, q)' <=> RunCall(b, m, old, new, created[b], d, k, q)
    <3>1. Called(d, k, q)' <=> [do |-> d, node |-> k, with |-> q] \in Range(s)
      BY <2>3 DEF Called
    <3> QED BY <2>5, <3>1, Zenon
  <2> QED BY <2>3, <2>4, <2>5, <2>6, <2>7
<1>12. Ran(rank, b, m, M, new, l, of, old)
  BY <1>1, <1>2, <1>4, <1>8, <1>9, <1>10, <1>11, Zenon DEF Ran
<1> QED BY <1>1, <1>7, <1>8, <1>12

\* New nodes go between their bind and everything that is above it.
Rerank(rank, b, M, new) ==
  [n \in Node |-> IF n \notin M THEN 4 * rank[n] ELSE IF n = new THEN 4 * rank[b] + 2 ELSE 4 * rank[b] + 1]

LEMMA RerankFacts ==
  ASSUME NEW rank \in [Node -> Nat], NEW b \in Node, NEW M, NEW new,
         NEW r, r = Rerank(rank, b, M, new)
  PROVE  /\ r \in [Node -> Nat]
         /\ \A n, k \in Node :
              /\ n \notin M /\ k \notin M /\ rank[n] < rank[k] => r[n] < r[k]
              /\ n \notin M /\ k \in M /\ rank[n] <= rank[b] => r[n] < r[k]
              /\ n \in M /\ k \notin M /\ rank[b] < rank[k] => r[n] < r[k]
              /\ n \in M /\ k \in M /\ k = new /\ n # new => r[n] < r[k]
<1>1. \A n \in Node : rank[n] \in Nat
  OBVIOUS
<1>2. \A n \in Node : r[n] = IF n \notin M THEN 4 * rank[n]
                             ELSE IF n = new THEN 4 * rank[b] + 2 ELSE 4 * rank[b] + 1
  BY DEF Rerank
<1>3. r \in [Node -> Nat]
  BY <1>1 DEF Rerank
<1> QED BY <1>1, <1>2, <1>3

LEMMA TupleRange ==
  /\ \A x, c : c \in Range(<<x>>) <=> c = x
  /\ \A x, y, c : c \in Range(<<x, y>>) <=> c = x \/ c = y
<1>1. ASSUME NEW x PROVE \A c : c \in Range(<<x>>) <=> c = x
  <2> DEFINE s == <<x>>
  <2>1. DOMAIN s = {1} /\ s[1] = x
    OBVIOUS
  <2> HIDE DEF s
  <2>2. \A c : c \in Range(s) <=> c = x
    BY <2>1 DEF Range
  <2> QED BY <2>2 DEF s
<1>2. ASSUME NEW x, NEW y PROVE \A c : c \in Range(<<x, y>>) <=> c = x \/ c = y
  <2> DEFINE s == <<x, y>>
  <2>1. DOMAIN s = {1, 2} /\ s[1] = x /\ s[2] = y
    OBVIOUS
  <2> HIDE DEF s
  <2>2. \A c : c \in Range(s) <=> c = x \/ c = y
    BY <2>1 DEF Range
  <2> QED BY <2>2 DEF s
<1> QED BY <1>1, <1>2

\* The graph that a run makes, node by node.
Built(b, m, M, new, l, of) ==
  /\ M \subseteq Fresh /\ b \notin M /\ m \notin M /\ of \notin M /\ of \in Node
  /\ \A n \in M : /\ ~Exists(n) /\ Exists(n)' /\ kind'[n] \in {"Map", "Lhs", "Main"} /\ scope'[n] = b
                  /\ n \in Node /\ n \notin Top /\ created'[n] = <<>> /\ children[n] = <<>>
  /\ \A n \in Node \ M : /\ kind'[n] = kind[n] /\ code'[n] = code[n] /\ scope'[n] = scope[n]
                         /\ Exists(n)' <=> Exists(n)
                         /\ IsMain(n)' <=> IsMain(n)
                         /\ n # b => created'[n] = created[n]
                         /\ n # m => children'[n] = children[n]
                         /\ IsMain(n) => Lhs(n)' = Lhs(n)
  /\ \A n, k \in Node : InRun(k, n)' <=> IF n = b THEN k \in M ELSE n \notin M /\ InRun(k, n)
  /\ children'[m] = <<b, new>> /\ HasRhs(m)' /\ Rhs(m)' = new
  /\ new \in Node /\ new # m /\ new # b /\ kind'[new] \notin {"None", "Lhs"} /\ Exists(new)'
  /\ \A c, n \in Node : Child(c, n) => c \notin M /\ n \notin M
  /\ \A c, n \in Node : Child(c, n)' <=>
       \/ n \notin M /\ n # m /\ Child(c, n)
       \/ n = m /\ (c = b \/ c = new)
       \/ n \in M /\ ~IsMain(n)' /\ c = of
       \/ n \in M /\ IsMain(n)' /\ n = new /\ c = l
  /\ \A n \in M : ~IsMain(n)' => Lhs(n)' = of /\ Len(children'[n]) = 1
  /\ \A n \in M : IsMain(n)' => n = new /\ l \in M /\ l # new /\ Lhs(n)' = l /\ kind'[l] = "Lhs" /\ Len(children'[n]) = 1
  /\ \A n \in M : kind'[n] = "Lhs" => code'[n] \in DOMAIN Program /\ Reach[code'[n]] <= Reach[code[b]]
  /\ \A n \in M : n = new \/ (new \in M /\ IsMain(new)' /\ Lhs(new)' = n)
  /\ kind'[of] \notin {"None", "Lhs"} /\ Exists(of)

LEMMA BuiltFacts ==
  ASSUME NEW rank \in [Node -> Nat], TypeOK, Graph, NEW b \in Node, NEW m, NEW new, NEW l, NEW of,
         NEW M, m \in Node, l \in Node, of \in Top,
         kind[b] = "Lhs", IsMain(m), Lhs(m) = b, m # b, rank[b] < rank[m],
         Building(rank, b, m, M, new, l, of)
  PROVE  Built(b, m, M, new, l, of)
<1>1. /\ M \subseteq Fresh /\ \A n \in M : ~Exists(n)
      /\ new \in Node /\ of \in Top /\ TopKind[of] # "Lhs" /\ rank[of] < rank[b]
      /\ \A n \in Node \ M : kind'[n] = kind[n] /\ code'[n] = code[n] /\ scope'[n] = scope[n]
                         /\ (n # m => children'[n] = children[n])
      /\ \A n \in M : scope'[n] = b
      /\ children'[m] = <<b, new>>
      /\ \A n \in Node \ {b} : created'[n] = created[n]
      /\ \A n \in Node : n \in Range(created'[b]) <=> n \in M
      /\ \/ M = {} /\ Exists(new) /\ kind[new] # "Lhs" /\ rank[new] < rank[b]
         \/ M = {new} /\ kind'[new] = "Map" /\ children'[new] = <<of>>
         \/ /\ M = {l, new} /\ l # new
            /\ kind'[l] = "Lhs" /\ children'[l] = <<of>>
            /\ code'[l] \in DOMAIN Program /\ Reach[code'[l]] <= Reach[code[b]]
            /\ kind'[new] = "Main" /\ children'[new] = <<l>>
  BY Zenon DEF Building
<1>2. b \notin M /\ m \notin M
  BY <1>1 DEF IsMain, Exists
<1>3. of \notin M /\ of \in Node /\ kind[of] = TopKind[of] /\ kind[of] \notin {"None", "Lhs"} /\ kind'[of] = kind[of]
  <2>1. of \in Node /\ of \notin Fresh
    BY <1>1, NodeAssumption DEF Node
  <2>2. kind[of] = TopKind[of] /\ TopKind[of] \in {"Var", "Map", "Lhs", "Main"}
    BY <1>1, TopAssumption DEF Graph, TopNodes
  <2> QED BY <1>1, <2>1, <2>2
<1>4. \A n \in M : /\ n \in Node /\ n \notin Top /\ created[n] = <<>> /\ children[n] = <<>> /\ n # b /\ n # m
  <2>1. \A n \in M : n \in Node /\ n \notin Top /\ n # b /\ n # m
    BY <1>1, <1>2, NodeAssumption DEF Node
  <2> QED BY <1>1, <2>1 DEF Graph, NoNodes
<1>5. /\ \A n \in M : kind'[n] \in {"Map", "Lhs", "Main"}
      /\ \A n \in M : IsMain(n)' => n = new /\ l \in M /\ l # new /\ children'[n] = <<l>> /\ kind'[l] = "Lhs"
      /\ \A n \in M : ~IsMain(n)' => children'[n] = <<of>>
      /\ \A n \in M : kind'[n] = "Lhs" => code'[n] \in DOMAIN Program /\ Reach[code'[n]] <= Reach[code[b]]
  BY <1>1 DEF IsMain
<1>6. new # m /\ new # b /\ kind'[new] \notin {"None", "Lhs"}
  <2>1. CASE M = {} /\ Exists(new) /\ kind[new] # "Lhs" /\ rank[new] < rank[b]
    <3>1. rank[new] \in Nat /\ rank[b] \in Nat /\ rank[m] \in Nat
      BY <1>1
    <3>2. kind'[new] = kind[new]
      BY <1>1, <2>1
    <3> QED BY <2>1, <3>1, <3>2 DEF Exists
  <2>2. CASE new \in M /\ kind'[new] \in {"Map", "Main"}
    BY <1>2, <2>2
  <2> QED BY <1>1, <2>1, <2>2
<1>7. \A c, n \in Node : Child(c, n) => c \notin M /\ n \notin M
  BY <1>1, Children
<1>8. /\ \A x, c : c \in Range(<<x>>) <=> c = x
      /\ \A x, y, c : c \in Range(<<x, y>>) <=> c = x \/ c = y
      /\ \A x : <<x>>[1] = x /\ Len(<<x>>) = 1
      /\ \A x, y : <<x, y>>[1] = x /\ <<x, y>>[2] = y /\ Len(<<x, y>>) = 2
  <2>1. \A x : <<x>>[1] = x /\ Len(<<x>>) = 1
    OBVIOUS
  <2>2. \A x, y : <<x, y>>[1] = x /\ <<x, y>>[2] = y /\ Len(<<x, y>>) = 2
    OBVIOUS
  <2> QED BY <2>1, <2>2, TupleRange
<1>9. ASSUME NEW c \in Node, NEW n \in Node
      PROVE  Child(c, n)' <=>
               \/ n \notin M /\ n # m /\ Child(c, n)
               \/ n = m /\ (c = b \/ c = new)
               \/ n \in M /\ ~IsMain(n)' /\ c = of
               \/ n \in M /\ IsMain(n)' /\ n = new /\ c = l
  <2>0. Child(c, n)' <=> c \in Range(children'[n])
    BY DEF Child
  <2>1. CASE n \notin M /\ n # m
    BY <1>1, <2>0, <2>1 DEF Child
  <2>2. CASE n = m
    <3>1. c \in Range(<<b, new>>) <=> c = b \/ c = new
      BY TupleRange, Zenon
    <3>2. Child(c, n)' <=> c \in Range(<<b, new>>)
      BY <1>1, <2>0, <2>2
    <3> QED BY <1>2, <2>2, <3>1, <3>2
  <2>3. CASE n \in M /\ ~IsMain(n)'
    BY <1>2, <1>5, <1>8, <2>0, <2>3
  <2>4. CASE n \in M /\ IsMain(n)'
    BY <1>2, <1>5, <1>8, <2>0, <2>4
  <2> QED BY <2>1, <2>2, <2>3, <2>4
<1>10. HasRhs(m)' /\ Rhs(m)' = new /\ Lhs(m)' = b
  BY <1>1, <1>8 DEF HasRhs, Rhs, Lhs
<1>11. /\ \A n \in M : ~IsMain(n)' => Lhs(n)' = of /\ Len(children'[n]) = 1
       /\ \A n \in M : IsMain(n)' => Lhs(n)' = l /\ Len(children'[n]) = 1
  BY <1>5, <1>8 DEF Lhs
<1>12. ASSUME NEW n \in Node \ M
       PROVE  /\ Exists(n)' <=> Exists(n)
              /\ IsMain(n)' <=> IsMain(n)
              /\ IsMain(n) => Lhs(n)' = Lhs(n)
  <2>1. (Exists(n)' <=> Exists(n)) /\ (IsMain(n)' <=> IsMain(n))
    BY <1>1 DEF Exists, IsMain
  <2>2. CASE n = m
    BY <1>10, <2>1, <2>2
  <2>3. CASE n # m
    BY <1>1, <2>1, <2>3 DEF Lhs
  <2> QED BY <2>1, <2>2, <2>3
<1>13. ASSUME NEW n \in Node, NEW k \in Node
       PROVE  InRun(k, n)' <=> IF n = b THEN k \in M ELSE n \notin M /\ InRun(k, n)
  <2>1. CASE n = b
    BY <1>1, <2>1 DEF InRun
  <2>2. CASE n # b
    <3>1. InRun(k, n)' <=> InRun(k, n)
      BY <1>1, <2>2 DEF InRun
    <3>2. n \in M => ~InRun(k, n)
      BY <1>4, NothingOrdered DEF InRun
    <3> QED BY <2>2, <3>1, <3>2
  <2> QED BY <2>1, <2>2
<1>14. \A n \in M : Exists(n)' /\ created'[n] = <<>>
  BY <1>1, <1>4, <1>5 DEF Exists
<1>15. Exists(new)' /\ Exists(of)
  BY <1>3, <1>6 DEF Exists
<1>16. \A n \in M : n = new \/ (new \in M /\ IsMain(new)' /\ Lhs(new)' = n)
  <2>1. SUFFICES ASSUME NEW n \in M, n # new PROVE new \in M /\ IsMain(new)' /\ Lhs(new)' = n
    OBVIOUS
  <2>2. n = l /\ new \in M /\ kind'[new] = "Main"
    BY <1>1, <2>1
  <2>3. IsMain(new)'
    BY <2>2 DEF IsMain
  <2> QED BY <1>11, <2>2, <2>3
<1> QED BY <1>1, <1>2, <1>3, <1>4, <1>5, <1>6, <1>7, <1>9, <1>10, <1>11, <1>12, <1>13, <1>14, <1>15, <1>16 DEF Built

-----------------------------------------------------------------------------
(***************************************************************************)
(* The run of a closure: each part of the invariant.                       *)
(***************************************************************************)
LEMMA RunGraph ==
  ASSUME NEW rank \in [Node -> Nat], TypeOK, Graph, NEW b \in Node, NEW m \in Node, NEW new, NEW l,
         NEW of, NEW M, kind[b] = "Lhs", IsMain(m), Lhs(m) = b, m # b, TypedBuild,
         Built(b, m, M, new, l, of)
  PROVE  Graph'
<1>1. Built(b, m, M, new, l, of)
  OBVIOUS
<1>2. TopNodes /\ FreshNodes /\ NoNodes /\ Shapes /\ OneMain /\ Created
  BY DEF Graph
<1>3. \A n \in Node : n \in Top \/ n \in Fresh
  BY DEF Node
<1>4. TopNodes'
  <2>1. ASSUME NEW n \in Top
        PROVE  kind'[n] = TopKind[n] /\ scope'[n] = NoNode /\ (n \notin VarNode => Lhs(n)' = TopChildren[n][1])
    <3>1. n \in Node \ M
      BY <1>1 DEF Built, Node
    <3>2. kind'[n] = kind[n] /\ scope'[n] = scope[n]
      BY <1>1, <3>1 DEF Built
    <3>3. Lhs(n)' = Lhs(n)
      <4>1. CASE n = m
        BY <1>1, <3>1, <4>1 DEF Built
      <4>2. CASE n # m
        <5>1. children'[n] = children[n]
          BY <1>1, <3>1, <4>2 DEF Built
        <5> QED BY <5>1 DEF Lhs
      <4> QED BY <4>1, <4>2
    <3> QED BY <1>2, <3>2, <3>3 DEF TopNodes
  <2> QED BY <2>1 DEF TopNodes
<1>5. FreshNodes'
  <2>1. ASSUME NEW n \in Fresh PROVE kind'[n] # "Var" /\ (Exists(n)' => scope'[n] \in Node)
    <3>1. CASE n \in M
      BY <1>1, <3>1 DEF Built
    <3>2. CASE n \notin M
      <4>1. n \in Node \ M
        BY <3>2 DEF Node
      <4> QED BY <1>1, <1>2, <4>1 DEF Built, FreshNodes
    <3> QED BY <3>1, <3>2
  <2> QED BY <2>1 DEF FreshNodes
<1>6. NoNodes'
  <2>1. ASSUME NEW n \in Node, ~Exists(n)'
        PROVE  children'[n] = <<>> /\ created'[n] = <<>> /\ scope'[n] = NoNode
    <3>1. n \in Node \ M
      BY <1>1, <2>1 DEF Built
    <3>2. ~Exists(n) /\ n # m /\ n # b
      BY <1>1, <2>1, <3>1 DEF Built, IsMain, Exists
    <3> QED BY <1>1, <1>2, <3>1, <3>2 DEF Built, NoNodes
  <2> QED BY <2>1 DEF NoNodes
<1>7. Shapes'
  <2>1. ASSUME NEW n \in Node PROVE Shape(n)'
    <3>1. CASE n \in M
      <4>1. CASE IsMain(n)'
        <5>1. kind'[n] = "Main" /\ Len(children'[n]) = 1 /\ kind'[Lhs(n)'] = "Lhs"
          BY <1>1, <3>1, <4>1 DEF Built, IsMain
        <5> QED BY <5>1 DEF Shape
      <4>2. CASE ~IsMain(n)'
        <5>1. kind'[n] \in {"Map", "Lhs"} /\ Len(children'[n]) = 1 /\ kind'[Lhs(n)'] \notin {"None", "Lhs"}
              /\ (kind'[n] = "Lhs" => code'[n] \in DOMAIN Program)
          BY <1>1, <3>1, <4>2 DEF Built, IsMain
        <5> QED BY <5>1 DEF Shape
      <4> QED BY <4>1, <4>2
    <3>2. CASE n = m
      <4>1. kind'[m] = "Main" /\ Len(children'[m]) = 2 /\ kind'[Lhs(m)'] = "Lhs"
            /\ kind'[Rhs(m)'] \notin {"None", "Lhs"}
        BY <1>1 DEF Built, IsMain, HasRhs
      <4> QED BY <3>2, <4>1 DEF Shape
    <3>3. CASE n \notin M /\ n # m
      <4>1. kind'[n] = kind[n] /\ code'[n] = code[n] /\ children'[n] = children[n] /\ Lhs(n)' = Lhs(n) /\ Rhs(n)' = Rhs(n)
        BY <1>1, <3>3 DEF Built, Lhs, Rhs
      <4>2. \A c \in Node : Child(c, n) => kind'[c] = kind[c]
        BY <1>1, <3>3 DEF Built
      <4>3. Shape(n) /\ children[n] \in Seq(Node)
        BY <1>2 DEF Shapes, TypeOK
      <4>4. kind[n] \in {"Map", "Lhs", "Main"} => Lhs(n) \in Node /\ Child(Lhs(n), n)
        <5>1. SUFFICES ASSUME kind[n] \in {"Map", "Lhs", "Main"} PROVE Lhs(n) \in Node /\ Child(Lhs(n), n)
          OBVIOUS
        <5>2. 1 \in 1 .. Len(children[n])
          <6>1. Len(children[n]) \in {1, 2}
            BY <4>3, <5>1 DEF Shape
          <6>2. children[n] \in Seq(Node)
            BY <4>3
          <6>3. \A len \in {1, 2} : 1 \in 1 .. len
            OBVIOUS
          <6> QED BY <6>1, <6>3
        <5> QED BY <4>3, <5>2, IndexInRange DEF Lhs, Child
      <4>5. kind[n] = "Main" /\ Len(children[n]) = 2 => Rhs(n) \in Node /\ Child(Rhs(n), n)
        <5>1. SUFFICES ASSUME Len(children[n]) = 2 PROVE Rhs(n) \in Node /\ Child(Rhs(n), n)
          OBVIOUS
        <5>2. 2 \in 1 .. Len(children[n])
          BY <4>3, <5>1
        <5> QED BY <4>3, <5>2, IndexInRange DEF Rhs, Child
      <4>6. kind[n] \in {"Map", "Lhs", "Main"} => kind'[Lhs(n)] = kind[Lhs(n)]
        BY <4>2, <4>4
      <4>7. kind[n] = "Main" /\ Len(children[n]) = 2 => kind'[Rhs(n)] = kind[Rhs(n)]
        BY <4>2, <4>5
      <4> QED BY <4>1, <4>3, <4>6, <4>7 DEF Shape, Lhs, Rhs
    <3> QED BY <3>1, <3>2, <3>3
  <2> QED BY <2>1 DEF Shapes
<1>8. OneMain'
  <2>1. ASSUME NEW k \in Node, NEW n \in Node, IsMain(k)', IsMain(n)', Lhs(k)' = Lhs(n)' PROVE k = n
    <3>1. \A x \in Node : IsMain(x)' /\ x \in M => x = new /\ Lhs(x)' \in M
      BY <1>1 DEF Built
    <3>2. \A x \in Node : IsMain(x)' /\ x \notin M => IsMain(x) /\ Lhs(x)' = Lhs(x) /\ Lhs(x)' \notin M
      <4>1. SUFFICES ASSUME NEW x \in Node, IsMain(x)', x \notin M PROVE IsMain(x) /\ Lhs(x)' = Lhs(x) /\ Lhs(x)' \notin M
        OBVIOUS
      <4>2. IsMain(x) /\ Lhs(x)' = Lhs(x)
        BY <1>1, <4>1 DEF Built
      <4>3. Child(Lhs(x), x) /\ Lhs(x) \in Node
        BY <4>2, MainChildren
      <4> QED BY <1>1, <4>2, <4>3 DEF Built
    <3> QED BY <1>2, <2>1, <3>1, <3>2 DEF OneMain
  <2> QED BY <2>1 DEF OneMain
<1>9. Created'
  <2>1. ASSUME NEW k \in Node, NEW n \in Node, InRun(n, k)'
        PROVE  kind'[k] = "Lhs" /\ Exists(n)' /\ scope'[n] = k
    <3>1. CASE k = b
      <4>1. n \in M /\ b \in Node \ M
        BY <1>1, <2>1, <3>1 DEF Built
      <4> QED BY <1>1, <3>1, <4>1 DEF Built
    <3>2. CASE k # b
      <4>1. k \in Node \ M /\ InRun(n, k)
        BY <1>1, <2>1, <3>2 DEF Built
      <4>2. kind[k] = "Lhs" /\ Exists(n) /\ scope[n] = k
        BY <1>2, <4>1 DEF Created
      <4>3. n \in Node \ M
        BY <1>1, <4>2 DEF Built
      <4> QED BY <1>1, <4>1, <4>2, <4>3 DEF Built
    <3> QED BY <3>1, <3>2
  <2> QED BY <2>1 DEF Created
<1> QED BY <1>4, <1>5, <1>6, <1>7, <1>8, <1>9 DEF Graph

LEMMA RunRanked ==
  ASSUME NEW rank \in [Node -> Nat], TypeOK, Graph, Ranked(rank), NEW b \in Node, NEW m \in Node,
         NEW new, NEW l, NEW of, NEW M, kind[b] = "Lhs", IsMain(m), Lhs(m) = b, m # b, rank[b] < rank[m],
         Building(rank, b, m, M, new, l, of), Built(b, m, M, new, l, of), TypedBuild,
         NEW r, r = Rerank(rank, b, M, new)
  PROVE  Ranked(r)'
<1>1. Built(b, m, M, new, l, of)
  OBVIOUS
<1>2. /\ r \in [Node -> Nat]
      /\ \A n, k \in Node :
           /\ n \notin M /\ k \notin M /\ rank[n] < rank[k] => r[n] < r[k]
           /\ n \notin M /\ k \in M /\ rank[n] <= rank[b] => r[n] < r[k]
           /\ n \in M /\ k \notin M /\ rank[b] < rank[k] => r[n] < r[k]
           /\ n \in M /\ k \in M /\ k = new /\ n # new => r[n] < r[k]
  BY RerankFacts
<1>3. rank[of] < rank[b] /\ (new \in M \/ rank[new] < rank[b])
  BY DEF Building
<1>4. \A n \in Node : rank[n] \in Nat
  OBVIOUS
<1>5. \A n \in Node : Exists(n) => RankedAt(rank, n)
  BY DEF Ranked
<1>6. Exists(b) /\ Exists(m)
  BY DEF Exists, IsMain
<1>7. ASSUME NEW n \in Node, Exists(n)'
      PROVE  RankedAt(r, n)'
  <2>1. \A c \in Range(children'[n]) : r[c] < r[n]
    <3>1. SUFFICES ASSUME NEW c, c \in Range(children'[n]) PROVE r[c] < r[n]
      OBVIOUS
    <3>2. c \in Node /\ Child(c, n)'
      <4>1. children'[n] \in Seq(Node)
        BY DEF TypedBuild
      <4> QED BY <3>1, <4>1, ElementInSet DEF Child
    <3>3. \/ n \notin M /\ n # m /\ Child(c, n)
          \/ n = m /\ (c = b \/ c = new)
          \/ n \in M /\ ~IsMain(n)' /\ c = of
          \/ n \in M /\ IsMain(n)' /\ n = new /\ c = l
      BY <1>1, <3>2 DEF Built
    <3>4. CASE n \notin M /\ n # m /\ Child(c, n)
      <4>1. Exists(n) /\ c \notin M
        BY <1>1, <1>7, <3>2, <3>4 DEF Built
      <4>2. rank[c] < rank[n]
        BY <1>5, <3>4, <4>1 DEF RankedAt, Child
      <4> QED BY <1>2, <3>2, <3>4, <4>1, <4>2
    <3>5. CASE n = m /\ c = b
      <4>1. b \notin M /\ m \notin M
        BY <1>1 DEF Built
      <4> QED BY <1>2, <3>5, <4>1
    <3>6. CASE n = m /\ c = new
      <4>1. m \notin M /\ new \in Node
        BY <1>1 DEF Built
      <4>2. new \notin M => rank[new] < rank[m]
        BY <1>3, <1>4, <4>1
      <4> QED BY <1>2, <3>6, <4>1, <4>2
    <3>7. CASE n \in M /\ c = of
      <4>1. of \in Node /\ of \notin M
        BY <1>1 DEF Built
      <4>2. rank[of] <= rank[b]
        BY <1>3, <1>4, <4>1
      <4> QED BY <1>2, <3>7, <4>1, <4>2
    <3>8. CASE n \in M /\ IsMain(n)' /\ n = new /\ c = l
      <4>1. l \in M /\ l # new
        BY <1>1, <3>8 DEF Built
      <4> QED BY <1>2, <3>2, <3>8, <4>1
    <3> QED BY <3>3, <3>4, <3>5, <3>6, <3>7, <3>8
  <2>2. ASSUME NEW k \in Node, InRun(k, n)' PROVE r[n] < r[k]
    <3>1. IF n = b THEN k \in M ELSE n \notin M /\ InRun(k, n)
      BY <1>1, <2>2 DEF Built
    <3>2. CASE n = b
      <4>1. b \notin M
        BY <1>1 DEF Built
      <4> QED BY <1>2, <1>4, <3>1, <3>2, <4>1
    <3>3. CASE n # b
      <4>1. Exists(k) /\ kind[n] = "Lhs"
        BY <3>1, <3>3 DEF Graph, Created
      <4>2. k \notin M /\ n \notin M /\ Exists(n)
        BY <1>1, <3>1, <3>3, <4>1 DEF Built, Exists
      <4>3. rank[n] < rank[k]
        BY <1>5, <3>1, <3>3, <4>2 DEF RankedAt
      <4> QED BY <1>2, <4>2, <4>3
    <3> QED BY <3>2, <3>3
  <2>3. ASSUME IsMain(n)', NEW k \in Node, k \in Range(created'[children'[n][1]]) PROVE r[k] < r[n]
    <3>1. CASE n \in M
      <4>1. Lhs(n)' = l /\ l \in M /\ l \in Node /\ l # b /\ created'[l] = <<>>
        BY <1>1, <2>3, <3>1 DEF Built
      <4>2. k \in Range(<<>>)
        BY <2>3, <4>1 DEF Lhs
      <4> QED BY <4>2, NothingOrdered, Zenon
    <3>2. CASE n \notin M
      <4>1. IsMain(n) /\ Exists(n) /\ Lhs(n)' = Lhs(n)
        BY <1>1, <2>3, <3>2 DEF Built, IsMain, Exists
      <4>2. PICK q \in Node : q = Lhs(n)
        BY <4>1, MainChildren
      <4>3. InRun(k, q)'
        BY <2>3, <4>1, <4>2 DEF InRun, Lhs
      <4>4. IF q = b THEN k \in M ELSE q \notin M /\ InRun(k, q)
        BY <1>1, <4>3 DEF Built
      <4>5. CASE q = b
        <5>1. n = m
          BY <4>1, <4>2, <4>5 DEF Graph, OneMain
        <5> QED BY <1>2, <3>2, <4>4, <4>5, <5>1
      <4>6. CASE q # b
        <5>1. Exists(k)
          BY <4>4, <4>6 DEF Graph, Created
        <5>2. k \notin M
          BY <1>1, <5>1 DEF Built
        <5>3. rank[k] < rank[n]
          BY <1>5, <4>1, <4>2, <4>4, <4>6 DEF RankedAt
        <5> QED BY <1>2, <3>2, <5>2, <5>3
      <4> QED BY <4>5, <4>6
    <3> QED BY <3>1, <3>2
  <2>4. ASSUME kind'[n] = "Lhs", NEW i \in DOMAIN TopNode, i < Reach[code'[n]]
        PROVE  r[TopNode[i]] < r[n]
    <3>1. TopNode[i] \in Node /\ TopNode[i] \notin M
      <4>1. TopNode[i] \in Top
        BY NodeAssumption
      <4> QED BY <1>1, <4>1 DEF Built, Node
    <3>2. CASE n \in M
      <4>1. code'[n] \in DOMAIN Program /\ Reach[code'[n]] <= Reach[code[b]]
        BY <1>1, <2>4, <3>2 DEF Built
      <4>2. code[b] \in DOMAIN Program
        BY DEF Graph, Shapes, Shape
      <4>3. Reach[code'[n]] \in Int /\ Reach[code[b]] \in Int /\ i \in Int
        BY <4>1, <4>2, ReachFacts, NodeAssumption
      <4>4. i < Reach[code[b]]
        BY <2>4, <4>1, <4>3
      <4>5. rank[TopNode[i]] < rank[b]
        BY <1>5, <1>6, <4>4 DEF RankedAt
      <4>6. rank[TopNode[i]] <= rank[b]
        BY <1>4, <3>1, <4>5
      <4> QED BY <1>2, <3>1, <3>2, <4>6
    <3>3. CASE n \notin M
      <4>1. kind[n] = "Lhs" /\ code'[n] = code[n] /\ Exists(n)
        BY <1>1, <2>4, <3>3 DEF Built, Exists
      <4>2. rank[TopNode[i]] < rank[n]
        BY <1>5, <2>4, <4>1 DEF RankedAt
      <4> QED BY <1>2, <3>1, <3>3, <4>2
    <3> QED BY <3>2, <3>3
  <2> QED BY <2>1, <2>2, <2>3, <2>4 DEF RankedAt, InRun, Lhs
<1> QED BY <1>7 DEF Ranked

LEMMA RunCalled ==
  ASSUME NEW rank, NEW b \in Node, NEW m \in Node, NEW new \in Node, NEW l, NEW of, NEW M, NEW old,
         TypeOK, Ran(rank, b, m, M, new, l, of, old)
  PROVE  /\ \A c, p : Link(c, p)' <=> c = new /\ p = m /\ old # <<new>>
         /\ \A c, p : ~Unlink(c, p)'
         /\ \A n : ~Marked(n)' /\ ~Placing(n)' /\ ~Called("drain", n, NoNode)' /\ ~Called("lower", n, NoNode)'
         /\ \A n : Dying(n)' <=> InRun(n, b) /\ old # <<>>
         /\ \A o : Called("release", o, NoNode)' <=> o \in Range(old) /\ old # <<new>>
         /\ \A c, p : Called("queue_if_older", c, p)' => p = m
         /\ Called("propagate_invalidity", NoNode, NoNode)'
<1>1. \A d, k, q : Called(d, k, q)' <=> RunCall(b, m, old, new, created[b], d, k, q)
  BY DEF Ran
<1>2. ASSUME NEW c, NEW p PROVE Link(c, p)' <=> c = new /\ p = m /\ old # <<new>>
  <2>1. Called("add_parent", c, p)' <=> RunCall(b, m, old, new, created[b], "add_parent", c, p)
    BY <1>1, Zenon
  <2> QED BY <2>1 DEF Link, RunCall
<1>3. ASSUME NEW c, NEW p PROVE ~Unlink(c, p)'
  <2>1. Called("remove_parent", c, p)' <=> RunCall(b, m, old, new, created[b], "remove_parent", c, p)
    BY <1>1, Zenon
  <2> QED BY <2>1 DEF Unlink, RunCall
<1>4. ASSUME NEW n PROVE ~Marked(n)' /\ ~Placing(n)' /\ ~Called("drain", n, NoNode)' /\ ~Called("lower", n, NoNode)'
  <2>1. /\ Called("mark", n, NoNode)' <=> RunCall(b, m, old, new, created[b], "mark", n, NoNode)
        /\ Called("place", n, NoNode)' <=> RunCall(b, m, old, new, created[b], "place", n, NoNode)
        /\ Called("drain", n, NoNode)' <=> RunCall(b, m, old, new, created[b], "drain", n, NoNode)
        /\ Called("lower", n, NoNode)' <=> RunCall(b, m, old, new, created[b], "lower", n, NoNode)
    BY <1>1, Zenon
  <2> QED BY <2>1 DEF Marked, Placing, RunCall
<1>5. ASSUME NEW n PROVE Dying(n)' <=> InRun(n, b) /\ old # <<>>
  <2>1. Called("invalidate", n, NoNode)' <=> RunCall(b, m, old, new, created[b], "invalidate", n, NoNode)
    BY <1>1, Zenon
  <2>2. Called("invalidate", n, NoNode)' <=> n \in Range(created[b]) /\ old # <<>>
    BY <2>1 DEF RunCall
  <2> QED BY <1>4, <2>2 DEF Dying, InRun
<1>6. ASSUME NEW o PROVE Called("release", o, NoNode)' <=> o \in Range(old) /\ old # <<new>>
  <2>1. Called("release", o, NoNode)' <=> RunCall(b, m, old, new, created[b], "release", o, NoNode)
    BY <1>1, Zenon
  <2> QED BY <2>1 DEF RunCall
<1>7. ASSUME NEW c, NEW p, Called("queue_if_older", c, p)' PROVE p = m
  <2>1. RunCall(b, m, old, new, created[b], "queue_if_older", c, p)
    BY <1>1, <1>7, Zenon
  <2> QED BY <2>1 DEF RunCall
<1>8. Called("propagate_invalidity", NoNode, NoNode)'
  <2>1. Called("propagate_invalidity", NoNode, NoNode)' <=>
          RunCall(b, m, old, new, created[b], "propagate_invalidity", NoNode, NoNode)
    BY <1>1, Zenon
  <2> QED BY <2>1 DEF RunCall
<1> QED BY <1>2, <1>3, <1>4, <1>5, <1>6, <1>7, <1>8

LEMMA RunTyped ==
  ASSUME NEW rank, NEW b \in Node, NEW m \in Node, NEW new \in Node, NEW l, NEW of, NEW M, NEW old,
         TypeOK, Graph, Ran(rank, b, m, M, new, l, of, old), Built(b, m, M, new, l, of)
  PROVE  CallsTyped'
<1>1. /\ calls' \in Seq(Call)
      /\ \A d, k, q : Called(d, k, q)' <=> RunCall(b, m, old, new, created[b], d, k, q)
      /\ old \in Seq(Node) /\ kind[b] = "Lhs"
  BY DEF Ran
<1>2. SUFFICES ASSUME NEW f \in Range(calls') PROVE CallTyped(f)'
  BY DEF CallsTyped
<1>3. f \in Call
  BY <1>1, <1>2, ElementInSet
<1> DEFINE d == f.do
           k == f.node
           q == f.with
<1>4. f = [do |-> d, node |-> k, with |-> q] /\ d \in Function /\ k \in Node \union {NoNode}
  BY <1>3, CallFields
<1>5. RunCall(b, m, old, new, created[b], d, k, q)
  <2>1. Called(d, k, q)'
    BY <1>2, <1>4 DEF Called
  <2> QED BY <1>1, <2>1, Zenon
<1> HIDE DEF d, k, q
<1>6. \A x : x \in Range(old) => x \in Node
  BY <1>1, ElementInSet
<1>7. NoNode \notin Node
  BY NodeAssumption
<1>8. k \in Range(created[b]) /\ k # NoNode => Exists(k)'
  <2>1. SUFFICES ASSUME k \in Range(created[b]), k # NoNode PROVE Exists(k)'
    OBVIOUS
  <2>2. k \in Node /\ InRun(k, b)
    BY <1>4, <2>1 DEF InRun
  <2>3. Exists(k)
    BY <2>2 DEF Graph, Created
  <2>4. k \in Node \ M
    BY <2>2, <2>3 DEF Built
  <2> QED BY <2>3, <2>4 DEF Built
<1>9. kind'[b] = "Lhs"
  BY <1>1 DEF Built
<1>10. CASE d \in {"add_parent", "adjust_heights", "queue_if_older"} /\ k = new /\ q = m
  BY <1>7, <1>10 DEF CallTyped, d, k, q, Paired, Observing
<1>11. CASE d = "propagate_invalidity" /\ k = NoNode /\ q = NoNode
  BY <1>11 DEF CallTyped, d, k, q, Paired, Observing
<1>12. CASE d = "release" /\ k \in Range(old) /\ q = NoNode
  BY <1>6, <1>7, <1>12 DEF CallTyped, d, k, q, Paired, Observing
<1>13. CASE d = "invalidate" /\ k \in Range(created[b]) /\ q = NoNode
  BY <1>8, <1>13 DEF CallTyped, d, k, q, Paired, Observing
<1>14. CASE d = "change" /\ k = b /\ q = NoNode
  BY <1>7, <1>9, <1>14 DEF CallTyped, d, k, q, Paired, Observing
<1>15. CASE d = "drop" /\ k = NoNode /\ q = NoNode
  BY <1>15 DEF CallTyped, d, k, q, Paired, Observing
<1> QED BY <1>5, <1>10, <1>11, <1>12, <1>13, <1>14, <1>15 DEF RunCall

LEMMA RunValidity ==
  ASSUME NEW rank, NEW b \in Node, NEW m \in Node, NEW new \in Node, NEW l, NEW of, NEW M, NEW old,
         TypeOK, Graph, Validity, Ran(rank, b, m, M, new, l, of, old), Built(b, m, M, new, l, of)
  PROVE  Validity'
<1>1. /\ kind[b] = "Lhs" /\ IsMain(m) /\ Lhs(m) = b /\ valid[m] /\ valid' = valid
      /\ \A d, n, p : ~Called(d, n, p)
      /\ old = <<>> <=> ~HasRhs(m)
  BY DEF Ran
<1>2. Built(b, m, M, new, l, of)
  OBVIOUS
<1>3. /\ \A n : ~Marked(n)'
      /\ \A n : Dying(n)' <=> InRun(n, b) /\ old # <<>>
  <2>1. /\ \A c, p : Link(c, p)' <=> c = new /\ p = m /\ old # <<new>>
        /\ \A c, p : ~Unlink(c, p)'
        /\ \A n : ~Marked(n)' /\ ~Placing(n)' /\ ~Called("drain", n, NoNode)' /\ ~Called("lower", n, NoNode)'
        /\ \A n : Dying(n)' <=> InRun(n, b) /\ old # <<>>
        /\ \A o : Called("release", o, NoNode)' <=> o \in Range(old) /\ old # <<new>>
        /\ \A c, p : Called("queue_if_older", c, p)' => p = m
        /\ Called("propagate_invalidity", NoNode, NoNode)'
    BY RunCalled, Zenon
  <2> QED BY <2>1
<1>4. \A n \in Node : valid'[n] \/ Exists(n)'
  BY <1>1, <1>2 DEF Validity, Built
<1>5. ASSUME NEW n \in Fresh, Exists(n)', valid'[n] PROVE Dying(n)' \/ Homed(n)'
  <2>0. n \in Node
    BY DEF Node
  <2>1. CASE n \in M
    <3>1. scope'[n] = b /\ InRun(n, b)'
      BY <1>2, <2>0, <2>1 DEF Built
    <3>2. IsMain(m)' /\ Lhs(m)' = b /\ HasRhs(m)' /\ Rhs(m)' = new
      BY <1>1, <1>2 DEF Built
    <3>3. n = new \/ (IsMain(new)' /\ Lhs(new)' = n)
      BY <1>2, <2>1 DEF Built
    <3>4. Keeps(m, n)'
      BY <3>1, <3>2, <3>3 DEF Keeps, IsMain, Lhs
    <3>5. InRun(n, scope[n])'
      BY <3>1 DEF InRun
    <3> QED BY <3>4, <3>5 DEF Homed
  <2>2. CASE n \notin M
    <3>1. Exists(n) /\ valid[n] /\ scope'[n] = scope[n]
      BY <1>1, <1>2, <1>5, <2>0, <2>2 DEF Built
    <3>2. Homed(n) /\ scope[n] \in Node
      BY <1>1, <3>1 DEF Validity, Dying, Marked, Graph, FreshNodes
    <3>3. PICK k \in Node : Keeps(k, n)
      BY <3>2 DEF Homed
    <3>4. IsMain(k) /\ Lhs(k) = scope[n] /\ HasRhs(k) /\ InRun(n, scope[n])
          /\ (Rhs(k) = n \/ (IsMain(Rhs(k)) /\ Lhs(Rhs(k)) = n))
      BY <3>2, <3>3 DEF Keeps, Homed
    <3>5. CASE scope[n] = b
      <4>1. k = m
        BY <1>1, <3>4, <3>5 DEF Graph, OneMain
      <4> QED BY <1>1, <1>3, <3>4, <3>5, <4>1
    <3>6. CASE scope[n] # b
      <4>1. k \notin M /\ k # m
        BY <1>1, <1>2, <3>4, <3>6 DEF Built, IsMain, Exists
      <4>2. IsMain(k)' /\ Lhs(k)' = Lhs(k) /\ HasRhs(k)' /\ Rhs(k)' = Rhs(k)
        <5>1. children'[k] = children[k] /\ IsMain(k)'
          BY <1>2, <3>4, <4>1 DEF Built
        <5> QED BY <3>4, <5>1 DEF Lhs, HasRhs, Rhs
      <4>3. Child(Rhs(k), k) /\ Rhs(k) \in Node
        BY <3>4, MainChildren
      <4>4. PICK x \in Node : x = Rhs(k) /\ x \notin M
        BY <1>2, <4>3 DEF Built
      <4>5. IsMain(x) => IsMain(x)' /\ Lhs(x)' = Lhs(x)
        BY <1>2, <4>4 DEF Built
      <4>6. Keeps(k, n)'
        <5>1. Rhs(k)' = x /\ (x = n \/ (IsMain(x)' /\ Lhs(x)' = n))
          BY <3>4, <4>2, <4>4, <4>5
        <5>2. Lhs(k)' = scope'[n]
          BY <3>1, <3>4, <4>2
        <5> QED BY <4>2, <5>1, <5>2 DEF Keeps, IsMain, Lhs
      <4>7. InRun(n, scope[n])'
        <5>1. PICK y \in Node : y = scope[n]
          BY <3>2
        <5>2. y # b /\ InRun(n, y)
          BY <3>4, <3>6, <5>1
        <5>3. y \notin M
          BY <1>2, <5>1, <5>2, <3>4, MainChildren DEF Built
        <5>4. InRun(n, y)'
          BY <1>2, <2>0, <5>2, <5>3 DEF Built
        <5> QED BY <3>1, <5>1, <5>4 DEF InRun
      <4> QED BY <4>6, <4>7 DEF Homed
    <3> QED BY <3>5, <3>6
  <2> QED BY <2>1, <2>2
<1>6. ASSUME NEW n \in Node PROVE Emptied(n)'
  <2>1. SUFFICES ASSUME IsMain(n)', ~valid[n] PROVE created'[children'[n][1]] = <<>>
    BY <1>1, <1>3 DEF Emptied, Lhs
  <2>2. n \notin M
    BY <1>2, <2>1 DEF Validity, Built
  <2>3. IsMain(n) /\ Lhs(n)' = Lhs(n)
    BY <1>2, <2>1, <2>2 DEF Built
  <2>4. PICK y \in Node : y = Lhs(n) /\ Child(y, n)
    BY <2>3, MainChildren
  <2>5. y # b
    BY <1>1, <2>1, <2>3, <2>4 DEF Graph, OneMain
  <2>6. created[y] = <<>>
    BY <2>1, <2>3, <2>4 DEF Validity, Emptied
  <2>7. y \notin M
    BY <1>2, <2>4 DEF Built
  <2>8. created'[y] = created[y]
    BY <1>2, <2>5, <2>7 DEF Built
  <2> QED BY <2>3, <2>4, <2>6, <2>8 DEF Lhs
<1> QED BY <1>4, <1>5, <1>6 DEF Validity

LEMMA RunBefore ==
  ASSUME NEW rank, NEW b \in Node, NEW m \in Node, NEW new \in Node, NEW l, NEW of, NEW M, NEW old,
         TypeOK, Links, Observers, Ran(rank, b, m, M, new, l, of, old), Built(b, m, M, new, l, of)
  PROVE  /\ \A c, p \in Node : IsParent(p, c) <=> valid[p] /\ Necessary(p) /\ Child(c, p)
         /\ \A n \in Node : Necessary(n) => n \notin M
<1>1. (\A d, n, p : ~Called(d, n, p)) /\ forced = {}
  BY DEF Ran
<1>2. ASSUME NEW c \in Node, NEW p \in Node
      PROVE  IsParent(p, c) <=> valid[p] /\ Necessary(p) /\ Child(c, p)
  <2>1. Linked(c, p) /\ ~Link(c, p) /\ ~Unlink(c, p) /\ ~Marked(p)
    BY <1>1 DEF Links, Link, Unlink, Marked
  <2> QED BY <2>1 DEF Linked
<1>3. ASSUME NEW n \in Node, n \in M PROVE ~Necessary(n)
  <2>1. n \notin observed /\ n \notin forced
    BY <1>1, <1>3, NodeAssumption DEF Built, Observers
  <2>2. parents[n] \in Seq(Node)
    BY DEF TypeOK
  <2>3. ASSUME NEW x \in Node, x \in Range(parents[n]) PROVE FALSE
    <3>1. Child(n, x)
      BY <1>2, <2>3 DEF IsParent
    <3> QED BY <1>3, <3>1 DEF Built
  <2>4. parents[n] = <<>>
    BY <2>2, <2>3, EmptyRange
  <2> QED BY <2>1, <2>4 DEF Necessary
<1> QED BY <1>2, <1>3

LEMMA RunLinks ==
  ASSUME NEW rank, NEW b \in Node, NEW m \in Node, NEW new \in Node, NEW l, NEW of, NEW M, NEW old,
         TypeOK, Graph, Links, Observers, Ran(rank, b, m, M, new, l, of, old), Built(b, m, M, new, l, of)
  PROVE  Links'
<1>1. /\ kind[b] = "Lhs" /\ IsMain(m) /\ Lhs(m) = b /\ valid[m] /\ Necessary(m) /\ valid' = valid
      /\ \A x : x \in Range(old) <=> HasRhs(m) /\ x = Rhs(m)
      /\ old = <<new>> <=> HasRhs(m) /\ Rhs(m) = new
      /\ \A k \in Node : Single(parents[k])'
      /\ \A q, k \in Node : IsParent(q, k)' <=> IsParent(q, k) /\ ~(k \in Range(old) /\ q = m /\ old # <<new>>)
      /\ \A k \in Node : Necessary(k)' <=> Necessary(k)
  BY DEF Ran, Relinked
<1>2. /\ \A c, p : Link(c, p)' <=> c = new /\ p = m /\ old # <<new>>
      /\ \A c, p : ~Unlink(c, p)'
      /\ \A n : ~Marked(n)' /\ ~Placing(n)' /\ ~Called("drain", n, NoNode)' /\ ~Called("lower", n, NoNode)'
      /\ \A n : Dying(n)' <=> InRun(n, b) /\ old # <<>>
      /\ \A o : Called("release", o, NoNode)' <=> o \in Range(old) /\ old # <<new>>
      /\ \A c, p : Called("queue_if_older", c, p)' => p = m
      /\ Called("propagate_invalidity", NoNode, NoNode)'
  BY RunCalled, Zenon
<1>3. /\ \A c, p \in Node : IsParent(p, c) <=> valid[p] /\ Necessary(p) /\ Child(c, p)
      /\ \A n \in Node : Necessary(n) => n \notin M
  BY RunBefore, Zenon
<1>4. /\ \A c, n \in Node : Child(c, n)' <=>
            \/ n \notin M /\ n # m /\ Child(c, n)
            \/ n = m /\ (c = b \/ c = new)
            \/ n \in M /\ ~IsMain(n)' /\ c = of
            \/ n \in M /\ IsMain(n)' /\ n = new /\ c = l
      /\ new # b /\ m \notin M
  BY DEF Built
<1>5. ASSUME NEW c \in Node PROVE Child(c, m) <=> c = b \/ (HasRhs(m) /\ c = Rhs(m))
  BY <1>1, Children, MainChildren
<1>6. HasRhs(m) => Rhs(m) # b
  BY <1>1, MainChildren
<1>7. ASSUME NEW c \in Node, NEW p \in Node PROVE Linked(c, p)'
  <2>1. CASE p # m
    <3>1. (IsParent(p, c)' <=> IsParent(p, c)) /\ ~Link(c, p)'
      BY <1>1, <1>2, <2>1
    <3>2. Necessary(p) => (Child(c, p)' <=> Child(c, p))
      BY <1>3, <1>4, <2>1
    <3>3. IsParent(p, c) <=> valid[p] /\ Necessary(p) /\ Child(c, p)
      BY <1>3
    <3>4. Necessary(p)' <=> Necessary(p)
      BY <1>1
    <3>5. ~Unlink(c, p)' /\ ~Marked(p)'
      BY <1>2
    <3> QED BY <1>1, <3>1, <3>2, <3>3, <3>4, <3>5 DEF Linked
  <2>2. CASE p = m
    <3>1. IsParent(m, c) <=> c = b \/ (HasRhs(m) /\ c = Rhs(m))
      BY <1>1, <1>3, <1>5
    <3>2. IsParent(m, c)' <=> IsParent(m, c) /\ ~(HasRhs(m) /\ c = Rhs(m) /\ Rhs(m) # new)
      BY <1>1, <3>1
    <3>3. Child(c, m)' <=> c = b \/ c = new
      BY <1>4
    <3>4. Link(c, m)' <=> c = new /\ ~(HasRhs(m) /\ Rhs(m) = new)
      BY <1>1, <1>2
    <3>5. Necessary(m)' /\ valid'[m]
      BY <1>1
    <3>6. ~Unlink(c, m)' /\ ~Marked(m)'
      BY <1>2
    <3>7. IsParent(m, c)' <=> c = b \/ (HasRhs(m) /\ c = Rhs(m) /\ Rhs(m) = new)
      BY <1>6, <3>1, <3>2
    <3>8. Linked(c, m)'
      BY <1>4, <3>3, <3>4, <3>5, <3>6, <3>7 DEF Linked
    <3> QED BY <2>2, <3>8
  <2> QED BY <2>1, <2>2
<1> QED BY <1>1, <1>2, <1>7 DEF Links

LEMMA RunObservers ==
  ASSUME NEW rank, NEW b \in Node, NEW m \in Node, NEW new \in Node, NEW l, NEW of, NEW M, NEW old,
         TypeOK, Graph, Observers, Ran(rank, b, m, M, new, l, of, old), Built(b, m, M, new, l, of)
  PROVE  Observers'
<1>1. /\ IsMain(m) /\ old \in Seq(Node) /\ observed' = observed
      /\ \A x : x \in Range(old) <=> HasRhs(m) /\ x = Rhs(m)
      /\ \A k : k \in forced' <=> k \in Range(old) /\ old # <<new>>
  BY DEF Ran, Relinked
<1>2. \A o : Called("release", o, NoNode)' <=> o \in Range(old) /\ old # <<new>>
  <2>1. /\ \A c, p : Link(c, p)' <=> c = new /\ p = m /\ old # <<new>>
        /\ \A c, p : ~Unlink(c, p)'
        /\ \A n : ~Marked(n)' /\ ~Placing(n)' /\ ~Called("drain", n, NoNode)' /\ ~Called("lower", n, NoNode)'
        /\ \A n : Dying(n)' <=> InRun(n, b) /\ old # <<>>
        /\ \A o : Called("release", o, NoNode)' <=> o \in Range(old) /\ old # <<new>>
        /\ \A c, p : Called("queue_if_older", c, p)' => p = m
        /\ Called("propagate_invalidity", NoNode, NoNode)'
    BY RunCalled, Zenon
  <2> QED BY <2>1
<1>3. ASSUME NEW o \in Node, o \in forced' PROVE forced' = {o} /\ kind'[o] \notin {"None", "Lhs"}
  <2>1. HasRhs(m) /\ o = Rhs(m)
    BY <1>1, <1>3
  <2>2. Child(o, m) /\ kind[o] \notin {"None", "Lhs"}
    BY <1>1, <2>1, MainChildren
  <2>3. o \in Node \ M
    BY <2>2 DEF Built
  <2>4. kind'[o] = kind[o]
    BY <2>3 DEF Built
  <2>5. \A k : k \in forced' <=> k = o
    BY <1>1, <1>3, <2>1
  <2> QED BY <2>2, <2>4, <2>5
<1>4. forced' \subseteq Node
  BY <1>1, MainChildren
<1> QED BY <1>1, <1>2, <1>3, <1>4 DEF Observers

LEMMA RunTimes ==
  ASSUME NEW rank, NEW b \in Node, NEW m \in Node, NEW new \in Node, NEW l, NEW of, NEW M, NEW old,
         TypeOK, Times, Ran(rank, b, m, M, new, l, of, old)
  PROVE  Times'
<1>1. /\ valid[m] /\ valid' = valid /\ now' = now
      /\ changedAt' = [changedAt EXCEPT ![b] = now]
  BY DEF Ran
<1>2. /\ \A n : ~Marked(n)'
      /\ \A c, p : Called("queue_if_older", c, p)' => p = m
  <2>1. /\ \A c, p : Link(c, p)' <=> c = new /\ p = m /\ old # <<new>>
        /\ \A c, p : ~Unlink(c, p)'
        /\ \A n : ~Marked(n)' /\ ~Placing(n)' /\ ~Called("drain", n, NoNode)' /\ ~Called("lower", n, NoNode)'
        /\ \A n : Dying(n)' <=> InRun(n, b) /\ old # <<>>
        /\ \A o : Called("release", o, NoNode)' <=> o \in Range(old) /\ old # <<new>>
        /\ \A c, p : Called("queue_if_older", c, p)' => p = m
        /\ Called("propagate_invalidity", NoNode, NoNode)'
    BY RunCalled, Zenon
  <2> QED BY <2>1
<1>3. ASSUME NEW n \in Node PROVE changedAt'[n] <= now'
  <2>1. changedAt'[n] \in {changedAt[n], now} /\ now \in Nat
    BY <1>1 DEF TypeOK
  <2>2. changedAt[n] <= now
    BY DEF Times
  <2> QED BY <1>1, <2>1, <2>2
<1>4. \A c, p \in Node : Called("queue_if_older", c, p)' => valid'[p]
  BY <1>1, <1>2
<1> QED BY <1>2, <1>3, <1>4 DEF Times

LEMMA RunHeap ==
  ASSUME NEW rank, NEW b \in Node, NEW m \in Node, NEW new \in Node, NEW l, NEW of, NEW M, NEW old,
         TypeOK, Heap, Ran(rank, b, m, M, new, l, of, old)
  PROVE  Heap'
<1>1. /\ valid' = valid /\ height' = height /\ heap' = heap \ {b} /\ direct' = {}
      /\ stabilising' /\ \A k \in Node : Necessary(k)' <=> Necessary(k)
      /\ \A d, n, p : ~Called(d, n, p)
  BY DEF Ran, Relinked
<1>2. \A n : ~Marked(n)' /\ ~Placing(n)' /\ ~Called("drain", n, NoNode)' /\ ~Called("lower", n, NoNode)'
  <2>1. /\ \A c, p : Link(c, p)' <=> c = new /\ p = m /\ old # <<new>>
        /\ \A c, p : ~Unlink(c, p)'
        /\ \A n : ~Marked(n)' /\ ~Placing(n)' /\ ~Called("drain", n, NoNode)' /\ ~Called("lower", n, NoNode)'
        /\ \A n : Dying(n)' <=> InRun(n, b) /\ old # <<>>
        /\ \A o : Called("release", o, NoNode)' <=> o \in Range(old) /\ old # <<new>>
        /\ \A c, p : Called("queue_if_older", c, p)' => p = m
        /\ Called("propagate_invalidity", NoNode, NoNode)'
    BY RunCalled, Zenon
  <2> QED BY <2>1
<1>3. ASSUME NEW n \in Node PROVE Heaped(n)'
  <2>1. Heaped(n)
    BY DEF Heap
  <2>2. Queued(n)' => Queued(n)
    BY <1>1 DEF Queued
  <2>3. ~Marked(n) /\ ~Marked(n)' /\ ~Called("lower", n, NoNode)'
    BY <1>1, <1>2 DEF Marked
  <2>4. Necessary(n)' <=> Necessary(n)
    BY <1>1
  <2> QED BY <1>1, <2>1, <2>2, <2>3, <2>4 DEF Heaped
<1> QED BY <1>1, <1>3 DEF Heap

LEMMA RunTold ==
  ASSUME NEW rank, NEW b \in Node, NEW m \in Node, NEW new \in Node, NEW l, NEW of, NEW M, NEW old,
         TypeOK, Graph, Links, Observers, Told, Ran(rank, b, m, M, new, l, of, old),
         Built(b, m, M, new, l, of)
  PROVE  Told'
<1>1. /\ kind[b] = "Lhs" /\ valid[b] /\ IsMain(m) /\ Lhs(m) = b /\ m # b /\ valid' = valid /\ invalidated = <<>>
      /\ invalidated' = invalidated /\ heap' = heap \ {b} /\ direct \subseteq {b}
      /\ \A k \in Node : Necessary(k)' <=> Necessary(k)
      /\ old = <<new>> <=> HasRhs(m) /\ Rhs(m) = new
      /\ \A d, n, p : ~Called(d, n, p)
  BY DEF Ran, Relinked
<1>2. \A c, p : Link(c, p)' <=> c = new /\ p = m /\ old # <<new>>
  <2>1. /\ \A c, p : Link(c, p)' <=> c = new /\ p = m /\ old # <<new>>
        /\ \A c, p : ~Unlink(c, p)'
        /\ \A n : ~Marked(n)' /\ ~Placing(n)' /\ ~Called("drain", n, NoNode)' /\ ~Called("lower", n, NoNode)'
        /\ \A n : Dying(n)' <=> InRun(n, b) /\ old # <<>>
        /\ \A o : Called("release", o, NoNode)' <=> o \in Range(old) /\ old # <<new>>
        /\ \A c, p : Called("queue_if_older", c, p)' => p = m
        /\ Called("propagate_invalidity", NoNode, NoNode)'
    BY RunCalled, Zenon
  <2> QED BY <2>1
<1>3. \A n \in Node : Necessary(n) => n \notin M
  <2>1. /\ \A c, p \in Node : IsParent(p, c) <=> valid[p] /\ Necessary(p) /\ Child(c, p)
        /\ \A n \in Node : Necessary(n) => n \notin M
    BY RunBefore, Zenon
  <2> QED BY <2>1
<1>4. \A c, n \in Node : Child(c, n)' <=>
            \/ n \notin M /\ n # m /\ Child(c, n)
            \/ n = m /\ (c = b \/ c = new)
            \/ n \in M /\ ~IsMain(n)' /\ c = of
            \/ n \in M /\ IsMain(n)' /\ n = new /\ c = l
  BY DEF Built
<1>5. ASSUME NEW n \in Node, NEW c \in Node, valid[n], Child(c, n), Necessary(n), ~valid[c]
      PROVE  IsMain(n) /\ c # Lhs(n) /\ Queued(n) /\ n # b
  <2>1. ToldOf(n, c)
    BY DEF Told
  <2>2. n \notin Range(invalidated)
    BY <1>1, NothingOrdered
  <2>3. ~Link(c, n) /\ ~Dying(n)
    BY <1>1 DEF Link, Dying, Marked
  <2>4. IsMain(n) /\ c # Lhs(n) /\ Queued(n)
    BY <1>5, <2>1, <2>2, <2>3 DEF ToldOf
  <2>5. n # b
    BY <1>1, <2>4 DEF IsMain
  <2> QED BY <2>4, <2>5
<1>6. ASSUME NEW n \in Node, Queued(n), n # b PROVE Queued(n)'
  BY <1>1, <1>6 DEF Queued
<1>7. ASSUME NEW n \in Node, NEW c \in Node, valid[n], Child(c, n)', Necessary(n), ~valid[c]
      PROVE  Link(c, n)' \/ (IsMain(n)' /\ c # Lhs(n)' /\ Queued(n)')
  <2>1. n \notin M
    BY <1>3, <1>7
  <2>2. (IsMain(n)' <=> IsMain(n)) /\ (IsMain(n) => Lhs(n)' = Lhs(n))
    BY <2>1 DEF Built
  <2>3. CASE n # m
    <3>1. Child(c, n)
      BY <1>4, <1>7, <2>1, <2>3
    <3> QED BY <1>5, <1>6, <1>7, <2>2, <3>1
  <2>4. CASE n = m /\ c = new /\ old = <<new>>
    <3>1. Child(c, m)
      BY <1>1, <2>4, MainChildren
    <3> QED BY <1>5, <1>6, <1>7, <2>2, <2>4, <3>1
  <2>5. CASE n = m /\ ~(c = new /\ old = <<new>>)
    <3>1. c = new
      BY <1>1, <1>4, <1>7, <2>1, <2>5
    <3> QED BY <1>2, <2>5, <3>1
  <2> QED BY <2>3, <2>4, <2>5
<1>8. ASSUME NEW n \in Node, NEW c \in Node PROVE ToldOf(n, c)'
  BY <1>1, <1>7 DEF ToldOf
<1> QED BY <1>1, <1>8 DEF Told

\* The run of a closure keeps the invariant, with the ranks that its nodes are given.
LEMMA RunInv ==
  ASSUME NEW rank \in [Node -> Nat], TypeOK, Inv(rank), NEW b \in Node, TypedBuild,
         NEW m \in Node, NEW new \in Node, NEW l \in Node, NEW of \in Top, NEW M, NEW old,
         Ran(rank, b, m, M, new, l, of, old), Built(b, m, M, new, l, of),
         NEW r \in [Node -> Nat], r = Rerank(rank, b, M, new)
  PROVE  Inv(r)'
<1>1. /\ Graph /\ Ranked(rank) /\ Validity /\ Links /\ Observers /\ Times /\ Heap /\ Told
  BY DEF Inv
<1>2. /\ kind[b] = "Lhs" /\ IsMain(m) /\ Lhs(m) = b /\ m # b /\ rank[b] < rank[m]
      /\ Building(rank, b, m, M, new, l, of)
      /\ Covered' /\ \A s \in [Node -> Nat] : Ordered(s, calls')
  BY DEF Ran
<1>3. Graph'
  BY <1>1, <1>2, RunGraph, Zenon
<1>4. Ranked(r)'
  BY <1>1, <1>2, <1>3, RunRanked
<1>5. CallsTyped' /\ Validity'
  BY <1>1, RunTyped, RunValidity, Zenon
<1>6. Links' /\ Observers' /\ Times' /\ Heap' /\ Told'
  BY <1>1, RunLinks, RunObservers, RunTimes, RunHeap, RunTold, Zenon
<1>7. Stack(r)'
  BY <1>2 DEF Stack
<1> QED BY <1>2, <1>3, <1>4, <1>5, <1>6, <1>7 DEF Inv

LEMMA RecomputeLhsInv ==
  ASSUME NEW rank \in [Node -> Nat], TypeOK, Inv(rank), NEW b, IsNext(b), ~RecomputePanics(b),
         RecomputeLhs(b)
  PROVE  \E r \in [Node -> Nat] : Inv(r)'
<1>1. b \in Node /\ TypedBuild
      /\ \E m, new, l \in Node, of \in Top : \E M, old : Ran(rank, b, m, M, new, l, of, old)
  BY RunFacts, Zenon
<1>2. PICK m \in Node, new \in Node, l \in Node, of \in Top :
        \E M, old : Ran(rank, b, m, M, new, l, of, old)
  BY <1>1
<1>3. PICK M, old : Ran(rank, b, m, M, new, l, of, old)
  BY <1>2
<1>4. Built(b, m, M, new, l, of)
  <2>1. /\ kind[b] = "Lhs" /\ IsMain(m) /\ Lhs(m) = b /\ m # b /\ rank[b] < rank[m]
        /\ Building(rank, b, m, M, new, l, of) /\ Graph
    BY <1>3 DEF Ran, Inv
  <2> QED BY <1>1, <2>1, BuiltFacts
<1>5. PICK r \in [Node -> Nat] : r = Rerank(rank, b, M, new)
  BY <1>1, RerankFacts
<1>6. Inv(r)'
  BY <1>1, <1>3, <1>4, <1>5, RunInv
<1> QED BY <1>6

-----------------------------------------------------------------------------
(***************************************************************************)
(* Nodes that nothing holds are dropped.                                   *)
(***************************************************************************)
\* The node n is dropped.
Dropped(n) ==
  /\ n \in Fresh /\ Exists(n) /\ \A p \in Node : ~Child(n, p)
  /\ kind' = [kind EXCEPT ![n] = "None"]
  /\ children' = [children EXCEPT ![n] = <<>>]
  /\ scope' = [scope EXCEPT ![n] = NoNode]
  /\ code' = [code EXCEPT ![n] = NoValue]
  /\ created' \in [Node -> Seq(Node \union {NoNode})]
  /\ \A k, b \in Node : InRun(k, b)' <=> b # n /\ k # n /\ InRun(k, b)
  /\ \A b \in Node : created[b] = <<>> \/ b = n => created'[b] = <<>>
  /\ valid' = [valid EXCEPT ![n] = TRUE]
  /\ value' = [value EXCEPT ![n] = NoValue]
  /\ recomputedAt' = [recomputedAt EXCEPT ![n] = Never]
  /\ changedAt' = [changedAt EXCEPT ![n] = Never]
  /\ height' = [height EXCEPT ![n] = -1]
  /\ UNCHANGED <<parents, observed, forced, heap, invalidated, now, stabilising, direct, calls,
                 panicked, user>>

LEMMA ForgottenFacts ==
  ASSUME NEW s \in Seq(Node \union {NoNode}), NEW n \in Node, NEW t,
         t = [i \in DOMAIN s |-> IF s[i] = n THEN NoNode ELSE s[i]]
  PROVE  /\ t \in Seq(Node \union {NoNode})
         /\ s = <<>> => t = <<>>
         /\ \A k \in Node : k \in Range(t) <=> k # n /\ k \in Range(s)
<1>1. Len(s) \in Nat /\ DOMAIN s = 1 .. Len(s) /\ \A i \in 1 .. Len(s) : s[i] \in Node \union {NoNode}
  OBVIOUS
<1>2. t \in [1 .. Len(s) -> Node \union {NoNode}]
      /\ \A i \in 1 .. Len(s) : t[i] = IF s[i] = n THEN NoNode ELSE s[i]
  BY <1>1
<1>3. t \in Seq(Node \union {NoNode}) /\ Len(t) = Len(s)
  BY <1>1, <1>2
<1>4. s = <<>> => t = <<>>
  BY <1>3
<1> NoNode \notin Node
  BY NodeAssumption
<1>5. ASSUME NEW k \in Node PROVE k \in Range(t) <=> k # n /\ k \in Range(s)
  <2>1. ASSUME k \in Range(t) PROVE k # n /\ k \in Range(s)
    <3>0. \E i \in 1 .. Len(t) : t[i] = k
      BY ONLY t \in Seq(Node \union {NoNode}), k \in Range(t), RangeHasIndex
    <3>1. PICK i \in 1 .. Len(s) : t[i] = k
      BY <1>3, <3>0
    <3>2. s[i] = k /\ k # n
      BY <1>2, <3>1
    <3> QED BY <3>1, <3>2, IndexInRange
  <2>2. ASSUME k # n, k \in Range(s) PROVE k \in Range(t)
    <3>1. PICK i \in 1 .. Len(s) : s[i] = k
      BY <2>2, RangeHasIndex
    <3>2. t[i] = k /\ i \in 1 .. Len(t)
      BY <1>2, <1>3, <2>2, <3>1
    <3> QED BY <1>3, <3>2, IndexInRange
  <2> QED BY <2>1, <2>2
<1> QED BY <1>3, <1>4, <1>5

LEMMA DropFacts ==
  ASSUME TypeOK, Drop, NotHeld # {}
  PROVE  \E n \in Fresh : Dropped(n)
<1> DEFINE d == CHOOSE d \in NotHeld : TRUE
<1>1. d \in NotHeld
  BY Zenon
<1>2. PICK n \in Fresh : n = d /\ Exists(n) /\ \A p \in Node : ~Child(n, p)
  BY <1>1 DEF NotHeld, Exists, Child
<1>3. n \in Node
  BY DEF Node
<1>4. /\ kind' = [kind EXCEPT ![n] = "None"]
      /\ children' = [children EXCEPT ![n] = <<>>]
      /\ scope' = [scope EXCEPT ![n] = NoNode]
      /\ code' = [code EXCEPT ![n] = NoValue]
      /\ created' = [b \in Node |-> IF b = n THEN <<>>
                              ELSE [i \in DOMAIN created[b] |-> IF created[b][i] = n THEN NoNode
                                                                ELSE created[b][i]]]
      /\ valid' = [valid EXCEPT ![n] = TRUE]
      /\ value' = [value EXCEPT ![n] = NoValue]
      /\ recomputedAt' = [recomputedAt EXCEPT ![n] = Never]
      /\ changedAt' = [changedAt EXCEPT ![n] = Never]
      /\ height' = [height EXCEPT ![n] = -1]
      /\ UNCHANGED <<links, heap, invalidated, turn, calls, panicked, user>>
  BY <1>2 DEF Drop
<1> HIDE DEF d
<1>5. ASSUME NEW b \in Node
      PROVE  /\ created'[b] \in Seq(Node \union {NoNode})
             /\ created[b] = <<>> \/ b = n => created'[b] = <<>>
             /\ \A k \in Node : k \in Range(created'[b]) <=> b # n /\ k # n /\ k \in Range(created[b])
  <2>1. CASE b = n
    <3>1. created'[b] = <<>>
      BY <1>4, <2>1
    <3> QED BY <2>1, <3>1, NothingOrdered
  <2>2. CASE b # n
    <3>1. PICK s \in Seq(Node \union {NoNode}) : s = created[b]
      BY DEF TypeOK
    <3>2. PICK t : t = created'[b]
      OBVIOUS
    <3>3. t = [i \in DOMAIN s |-> IF s[i] = n THEN NoNode ELSE s[i]]
      BY <1>4, <2>2, <3>1, <3>2
    <3>4. /\ t \in Seq(Node \union {NoNode})
          /\ s = <<>> => t = <<>>
          /\ \A k \in Node : k \in Range(t) <=> k # n /\ k \in Range(s)
      BY <1>3, <3>3, ForgottenFacts
    <3> QED BY <2>2, <3>1, <3>2, <3>4
  <2> QED BY <2>1, <2>2
<1>6. created' \in [Node -> Seq(Node \union {NoNode})]
  BY <1>4, <1>5
<1>7. \A k, b \in Node : InRun(k, b)' <=> b # n /\ k # n /\ InRun(k, b)
  BY <1>5 DEF InRun
<1>8. \A b \in Node : created[b] = <<>> \/ b = n => created'[b] = <<>>
  BY <1>5
<1>9. UNCHANGED <<parents, observed, forced, heap, invalidated, now, stabilising, direct, calls,
                 panicked, user>>
  BY <1>4 DEF links, turn
<1> QED BY <1>2, <1>4, <1>6, <1>7, <1>8, <1>9 DEF Dropped

\* Nothing else is to be done when a node is dropped, and it was dead.
LEMMA DroppedFacts ==
  ASSUME NEW rank, TypeOK, Inv(rank), NEW p, Runs("drop", NoNode, p), NEW n \in Fresh, Dropped(n)
  PROVE  /\ n \in Node /\ ~valid[n] /\ ~Necessary(n) /\ ~Queued(n) /\ \A c \in Node : ~IsParent(n, c)
         /\ \A d, k, q : Called(d, k, q) <=> d = "drop" /\ k = NoNode /\ q = p
         /\ \A k \in Node : ~Dying(k)
         /\ forced = {} /\ invalidated = <<>> /\ p = NoNode
<1>1. Scene(rank, "drop", NoNode, p)
  BY Context, Zenon
<1>2. \A d, k, q : Called(d, k, q) <=> d = "drop" /\ k = NoNode /\ q = p
  BY <1>1 DEF Scene, Under
<1>3. p = NoNode
  BY <1>1 DEF Scene, Paired
<1>4. \A k \in Node : ~Dying(k)
  BY <1>2 DEF Dying, Marked
<1>5. Observers /\ Told /\ Validity /\ Links /\ Heap
  BY DEF Inv
<1>6. forced = {} /\ invalidated = <<>>
  BY <1>2, <1>5 DEF Observers, Told, TypeOK
<1>7. n \in Node /\ n \notin Top
  BY NodeAssumption DEF Node
<1>8. ~valid[n]
  <2>1. SUFFICES ASSUME valid[n] PROVE FALSE
    OBVIOUS
  <2>2. Homed(n)
    BY <1>4, <1>5, <1>7, <2>1 DEF Validity, Dropped
  <2>3. PICK m \in Node : Keeps(m, n)
    BY <2>2 DEF Homed
  <2>4. IsMain(m) /\ HasRhs(m) /\ (Rhs(m) = n \/ (IsMain(Rhs(m)) /\ Lhs(Rhs(m)) = n))
    BY <2>3 DEF Keeps
  <2>5. Child(Rhs(m), m) /\ Rhs(m) \in Node
    BY <2>4, MainChildren DEF Inv
  <2>6. IsMain(Rhs(m)) => Child(Lhs(Rhs(m)), Rhs(m))
    BY <2>5, MainChildren DEF Inv
  <2> QED BY <2>4, <2>5, <2>6 DEF Dropped
<1>9. ASSUME NEW q \in Node, q \in Range(parents[n]) PROVE FALSE
  <2>1. Linked(n, q)
    BY <1>5, <1>7 DEF Links
  <2> QED BY <1>9, <2>1 DEF Linked, IsParent, Dropped
<1>10. ~Necessary(n)
  <2>1. parents[n] = <<>>
    BY <1>7, <1>9, EmptyRange DEF TypeOK
  <2> QED BY <1>5, <1>6, <1>7, <2>1 DEF Necessary, Observers
<1>11. ~Queued(n)
  BY <1>5, <1>7, <1>8 DEF Heap, Heaped
<1>12. \A c \in Node : ~IsParent(n, c)
  BY <1>5, <1>7, <1>8 DEF Links, Linked
<1> QED BY <1>2, <1>3, <1>4, <1>6, <1>7, <1>8, <1>10, <1>11, <1>12

LEMMA DroppedChildren ==
  ASSUME TypeOK, Graph, NEW n \in Fresh, Dropped(n)
  PROVE  /\ \A c, k \in Node : Child(c, k)' <=> k # n /\ Child(c, k)
         /\ \A k \in Node : (Exists(k)' <=> k # n /\ Exists(k)) /\ (IsMain(k)' <=> k # n /\ IsMain(k))
         /\ \A k \in Node : k # n => /\ Lhs(k)' = Lhs(k) /\ (HasRhs(k)' <=> HasRhs(k)) /\ Rhs(k)' = Rhs(k)
                                     /\ kind'[k] = kind[k] /\ scope'[k] = scope[k] /\ code'[k] = code[k]
                                     /\ children'[k] = children[k]
<1>1. n \in Node
  BY DEF Node
<1>2. /\ kind'[n] = "None" /\ children'[n] = <<>>
      /\ \A k \in Node : k # n => kind'[k] = kind[k] /\ scope'[k] = scope[k] /\ code'[k] = code[k]
                                  /\ children'[k] = children[k]
  BY <1>1 DEF Dropped, TypeOK
<1>3. \A c : ~(c \in Range(children'[n]))
  BY <1>2, NothingOrdered
<1>4. ASSUME NEW c \in Node, NEW k \in Node PROVE Child(c, k)' <=> k # n /\ Child(c, k)
  BY <1>2, <1>3 DEF Child
<1>5. \A k \in Node : (Exists(k)' <=> k # n /\ Exists(k)) /\ (IsMain(k)' <=> k # n /\ IsMain(k))
  BY <1>2 DEF Exists, IsMain
<1>6. ASSUME NEW k \in Node, k # n
      PROVE  Lhs(k)' = Lhs(k) /\ (HasRhs(k)' <=> HasRhs(k)) /\ Rhs(k)' = Rhs(k)
  <2>1. children'[k] = children[k]
    BY <1>2, <1>6
  <2> QED BY <2>1 DEF Lhs, HasRhs, Rhs
<1> QED BY <1>2, <1>4, <1>5, <1>6

LEMMA DroppedGraph ==
  ASSUME NEW rank, TypeOK, Graph, Ranked(rank), NEW n \in Fresh, Dropped(n)
  PROVE  Graph' /\ Ranked(rank)'
<1>1. TopNodes /\ FreshNodes /\ NoNodes /\ Shapes /\ OneMain /\ Created
  BY DEF Graph
<1>2. /\ \A c, k \in Node : Child(c, k)' <=> k # n /\ Child(c, k)
      /\ \A k \in Node : (Exists(k)' <=> k # n /\ Exists(k)) /\ (IsMain(k)' <=> k # n /\ IsMain(k))
      /\ \A k \in Node : k # n => /\ Lhs(k)' = Lhs(k) /\ (HasRhs(k)' <=> HasRhs(k)) /\ Rhs(k)' = Rhs(k)
                                  /\ kind'[k] = kind[k] /\ scope'[k] = scope[k] /\ code'[k] = code[k]
                                  /\ children'[k] = children[k]
  BY DroppedChildren, Zenon
<1>3. n \in Node /\ n \notin Top
  BY NodeAssumption DEF Node
<1>4. /\ \A k, b \in Node : InRun(k, b)' <=> b # n /\ k # n /\ InRun(k, b)
      /\ \A b \in Node : created[b] = <<>> \/ b = n => created'[b] = <<>>
      /\ kind'[n] = "None" /\ children'[n] = <<>> /\ scope'[n] = NoNode
      /\ \A p \in Node : ~Child(n, p)
  BY <1>3 DEF Dropped, TypeOK
<1>5. TopNodes'
  <2>1. ASSUME NEW k \in Top
        PROVE  kind'[k] = TopKind[k] /\ scope'[k] = NoNode /\ (k \notin VarNode => Lhs(k)' = TopChildren[k][1])
    <3>1. k \in Node /\ k # n
      BY <1>3 DEF Node
    <3> QED BY <1>1, <1>2, <3>1 DEF TopNodes
  <2> QED BY <2>1 DEF TopNodes
<1>6. FreshNodes'
  <2>1. ASSUME NEW k \in Fresh PROVE kind'[k] # "Var" /\ (Exists(k)' => scope'[k] \in Node)
    <3>1. k \in Node
      BY DEF Node
    <3> QED BY <1>1, <1>2, <1>4, <3>1 DEF FreshNodes
  <2> QED BY <2>1 DEF FreshNodes
<1>7. NoNodes'
  <2>1. ASSUME NEW k \in Node, ~Exists(k)'
        PROVE  children'[k] = <<>> /\ created'[k] = <<>> /\ scope'[k] = NoNode
    <3>1. CASE k = n
      BY <1>4, <3>1
    <3>2. CASE k # n
      <4>1. ~Exists(k)
        BY <1>2, <2>1, <3>2
      <4> QED BY <1>1, <1>2, <1>4, <3>2, <4>1 DEF NoNodes
    <3> QED BY <3>1, <3>2
  <2> QED BY <2>1 DEF NoNodes
<1>8. Shapes'
  <2>1. ASSUME NEW k \in Node PROVE Shape(k)'
    <3>1. CASE k = n
      BY <1>4, <3>1 DEF Shape
    <3>2. CASE k # n
      <4>1. Shape(k)
        BY <1>1 DEF Shapes
      <4>2. children[k] \in Seq(Node)
        BY DEF TypeOK
      <4>3. Len(children[k]) \in {1, 2} => Lhs(k) \in Node /\ Lhs(k) # n
        <5>1. SUFFICES ASSUME Len(children[k]) \in {1, 2} PROVE Lhs(k) \in Node /\ Child(Lhs(k), k)
          BY <1>4
        <5>2. \A len \in {1, 2} : 1 \in 1 .. len
          OBVIOUS
        <5>3. 1 \in 1 .. Len(children[k])
          BY <5>1, <5>2, Zenon
        <5> QED BY <4>2, <5>3, RangeHasIndex, IndexInRange DEF Lhs, Child
      <4>4. Len(children[k]) = 2 => Rhs(k) \in Node /\ Rhs(k) # n
        <5>1. SUFFICES ASSUME Len(children[k]) = 2 PROVE Rhs(k) \in Node /\ Child(Rhs(k), k)
          BY <1>4
        <5>2. \A len \in {2} : 2 \in 1 .. len
          OBVIOUS
        <5>3. 2 \in 1 .. Len(children[k])
          BY <5>1, <5>2, Zenon
        <5> QED BY <4>2, <5>3, RangeHasIndex, IndexInRange DEF Rhs, Child
      <4>5. /\ kind'[k] = kind[k] /\ code'[k] = code[k] /\ children'[k] = children[k]
            /\ Lhs(k)' = Lhs(k) /\ Rhs(k)' = Rhs(k)
        BY <1>2, <3>2
      <4>6. PICK x, y : x = Lhs(k) /\ y = Rhs(k)
        OBVIOUS
      <4>7. /\ x \in Node /\ x # n => kind'[x] = kind[x]
            /\ y \in Node /\ y # n => kind'[y] = kind[y]
        BY <1>2
      <4>8. Len(children[k]) = 1 => Len(children[k]) \in {1, 2}
        OBVIOUS
      <4>9. kind[k] = "Var" => children'[k] = <<>>
        BY <4>1, <4>5 DEF Shape
      <4>10. kind[k] \in {"Map", "Lhs"} => Len(children'[k]) = 1 /\ kind'[x] \notin {"None", "Lhs"}
        BY <4>1, <4>3, <4>5, <4>6, <4>7 DEF Shape
      <4>11. kind[k] = "Lhs" => code'[k] \in DOMAIN Program
        BY <4>1, <4>5 DEF Shape
      <4>12. kind[k] = "Main" => Len(children'[k]) \in {1, 2} /\ kind'[x] = "Lhs"
        BY <4>1, <4>3, <4>5, <4>6, <4>7 DEF Shape
      <4>13. kind[k] = "Main" /\ Len(children'[k]) = 2 => kind'[y] \notin {"None", "Lhs"}
        BY <4>1, <4>4, <4>5, <4>6, <4>7 DEF Shape
      <4>14. Lhs(k)' = x /\ Rhs(k)' = y
        BY <4>5, <4>6
      <4> QED BY <4>5, <4>9, <4>10, <4>11, <4>12, <4>13, <4>14 DEF Shape
    <3> QED BY <3>1, <3>2
  <2> QED BY <2>1 DEF Shapes
<1>9. OneMain'
  BY <1>1, <1>2 DEF OneMain
<1>10. Created'
  BY <1>1, <1>2, <1>4 DEF Created
<1>11. Ranked(rank)'
  <2>1. ASSUME NEW k \in Node, Exists(k)' PROVE RankedAt(rank, k)'
    <3>1. k # n /\ Exists(k)
      BY <1>2, <2>1
    <3>2. RankedAt(rank, k)
      BY <3>1 DEF Ranked
    <3>3. children'[k] = children[k] /\ kind'[k] = kind[k] /\ code'[k] = code[k]
          /\ (IsMain(k)' <=> IsMain(k)) /\ Lhs(k)' = Lhs(k)
      BY <1>2, <3>1
    <3>4. \A j \in Node : InRun(j, k)' => rank[k] < rank[j]
      BY <1>4, <3>2 DEF RankedAt
    <3>5. ASSUME IsMain(k), NEW j \in Node, j \in Range(created'[children'[k][1]]) PROVE rank[j] < rank[k]
      <4>1. PICK y \in Node : y = Lhs(k)
        BY <3>5, MainChildren
      <4>2. InRun(j, y)'
        BY <3>3, <3>5, <4>1 DEF InRun, Lhs
      <4>3. InRun(j, y)
        BY <1>4, <4>2
      <4> QED BY <3>2, <3>5, <4>1, <4>3 DEF RankedAt
    <3> QED BY <3>2, <3>3, <3>4, <3>5 DEF RankedAt, InRun, Lhs
  <2> QED BY <2>1 DEF Ranked
<1> QED BY <1>5, <1>6, <1>7, <1>8, <1>9, <1>10, <1>11 DEF Graph

LEMMA DroppedValidity ==
  ASSUME NEW rank, TypeOK, Inv(rank), NEW p, Runs("drop", NoNode, p), NEW n \in Fresh, Dropped(n)
  PROVE  Validity'
<1>1. Graph /\ Validity
  BY DEF Inv
<1>2. /\ \A c, k \in Node : Child(c, k)' <=> k # n /\ Child(c, k)
      /\ \A k \in Node : (Exists(k)' <=> k # n /\ Exists(k)) /\ (IsMain(k)' <=> k # n /\ IsMain(k))
      /\ \A k \in Node : k # n => /\ Lhs(k)' = Lhs(k) /\ (HasRhs(k)' <=> HasRhs(k)) /\ Rhs(k)' = Rhs(k)
                                  /\ kind'[k] = kind[k] /\ scope'[k] = scope[k] /\ code'[k] = code[k]
                                  /\ children'[k] = children[k]
  BY <1>1, DroppedChildren, Zenon
<1>3. /\ n \in Node /\ ~valid[n]
      /\ \A k \in Node : ~Dying(k)
      /\ \A d, k, q : Called(d, k, q) <=> d = "drop" /\ k = NoNode /\ q = p
  BY DroppedFacts
<1>4. /\ \A k, b \in Node : InRun(k, b)' <=> b # n /\ k # n /\ InRun(k, b)
      /\ \A b \in Node : created[b] = <<>> \/ b = n => created'[b] = <<>>
      /\ \A k \in Node : ~Child(n, k)
      /\ valid'[n] /\ \A k \in Node : k # n => valid'[k] = valid[k]
      /\ calls' = calls
  BY <1>3 DEF Dropped, TypeOK
<1>5. \A k \in Node : valid'[k] \/ Exists(k)'
  BY <1>1, <1>2, <1>4 DEF Validity
<1>6. ASSUME NEW k \in Fresh, Exists(k)', valid'[k] PROVE Homed(k)'
  <2>1. k \in Node
    BY DEF Node
  <2>2. k # n /\ Exists(k) /\ valid[k] /\ scope'[k] = scope[k]
    BY <1>2, <1>4, <1>6, <2>1
  <2>3. PICK y \in Node : y = scope[k]
    BY <1>1, <2>1, <2>2 DEF Graph, FreshNodes
  <2>4. Homed(k)
    BY <1>1, <1>3, <2>1, <2>2 DEF Validity
  <2>5. PICK m \in Node : Keeps(m, k)
    BY <2>4 DEF Homed
  <2>6. /\ IsMain(m) /\ Lhs(m) = y /\ HasRhs(m) /\ InRun(k, y)
        /\ Rhs(m) = k \/ (IsMain(Rhs(m)) /\ Lhs(Rhs(m)) = k)
    BY <2>3, <2>4, <2>5 DEF Homed, Keeps
  <2>7. Child(y, m) /\ Child(Rhs(m), m) /\ Rhs(m) \in Node
    BY <1>1, <2>6, MainChildren
  <2>8. y # n /\ Rhs(m) # n
    BY <1>4, <2>7
  <2>9. m # n
    <3>1. SUFFICES ASSUME m = n PROVE FALSE
      OBVIOUS
    <3>2. created[y] = <<>>
      BY <1>1, <1>3, <2>6, <3>1 DEF Validity, Emptied
    <3> QED BY <2>6, <3>2, NothingOrdered DEF InRun
  <2>10. PICK x \in Node : x = Rhs(m) /\ x # n
    BY <2>7, <2>8
  <2>11. IsMain(m)' /\ Lhs(m)' = y /\ HasRhs(m)' /\ Rhs(m)' = x
    BY <1>2, <2>6, <2>9, <2>10
  <2>12. x = k \/ (IsMain(x)' /\ Lhs(x)' = k)
    BY <1>2, <2>6, <2>10
  <2>13. Keeps(m, k)'
    <3>1. scope'[k] = y
      BY <2>2, <2>3
    <3> QED BY <2>11, <2>12, <3>1 DEF Keeps, IsMain, Lhs
  <2>14. InRun(k, scope[k])'
    <3>1. InRun(k, y)'
      BY <1>4, <2>1, <2>2, <2>6, <2>8
    <3> QED BY <2>2, <2>3, <3>1 DEF InRun
  <2> QED BY <2>13, <2>14 DEF Homed
<1>7. ASSUME NEW k \in Node PROVE Emptied(k)'
  <2>1. \A j : ~Marked(j)'
    BY <1>3, <1>4 DEF Marked, Called
  <2>2. SUFFICES ASSUME IsMain(k)', ~valid'[k] PROVE created'[children'[k][1]] = <<>>
    BY <2>1 DEF Emptied, Lhs
  <2>3. IsMain(k) /\ k # n /\ ~valid[k] /\ Lhs(k)' = Lhs(k)
    BY <1>2, <1>4, <2>2
  <2>4. PICK y \in Node : y = Lhs(k)
    BY <1>1, <2>3, MainChildren
  <2>5. created[y] = <<>>
    BY <1>1, <2>3, <2>4 DEF Validity, Emptied
  <2>6. created'[y] = <<>>
    BY <1>4, <2>5
  <2> QED BY <2>3, <2>4, <2>6 DEF Lhs
<1> QED BY <1>5, <1>6, <1>7 DEF Validity

LEMMA DropInv ==
  ASSUME NEW rank \in [Node -> Nat], TypeOK, Inv(rank), NEW p, Runs("drop", NoNode, p), Drop
  PROVE  Inv(rank)'
<1>1. CASE NotHeld # {}
  <2>1. PICK n \in Fresh : Dropped(n)
    BY <1>1, DropFacts
  <2>2. Graph /\ Ranked(rank) /\ Validity /\ Links /\ Observers /\ Times /\ Heap /\ Told
    BY DEF Inv
  <2>3. /\ n \in Node /\ ~valid[n] /\ ~Necessary(n) /\ ~Queued(n) /\ \A c \in Node : ~IsParent(n, c)
        /\ \A d, k, q : Called(d, k, q) <=> d = "drop" /\ k = NoNode /\ q = p
        /\ \A k \in Node : ~Dying(k)
        /\ forced = {} /\ invalidated = <<>> /\ p = NoNode
    BY <2>1, DroppedFacts
  <2>4. /\ \A c, k \in Node : Child(c, k)' <=> k # n /\ Child(c, k)
        /\ \A k \in Node : (Exists(k)' <=> k # n /\ Exists(k)) /\ (IsMain(k)' <=> k # n /\ IsMain(k))
        /\ \A k \in Node : k # n => /\ Lhs(k)' = Lhs(k) /\ (HasRhs(k)' <=> HasRhs(k)) /\ Rhs(k)' = Rhs(k)
                                    /\ kind'[k] = kind[k] /\ scope'[k] = scope[k] /\ code'[k] = code[k]
                                    /\ children'[k] = children[k]
    BY <2>1, <2>2, DroppedChildren, Zenon
  <2>5. /\ valid'[n] /\ \A k \in Node : k # n => valid'[k] = valid[k]
        /\ height'[n] = -1 /\ \A k \in Node : k # n => height'[k] = height[k]
        /\ changedAt'[n] = Never /\ \A k \in Node : k # n => changedAt'[k] = changedAt[k]
        /\ UNCHANGED <<parents, observed, forced, heap, invalidated, now, stabilising, direct, calls>>
    BY <2>1, <2>3 DEF Dropped, TypeOK
  <2>6. Graph' /\ Ranked(rank)' /\ Validity'
    BY <2>1, <2>2, DroppedGraph, DroppedValidity, Zenon
  <2>7. /\ \A d, k, q : Called(d, k, q)' <=> d = "drop" /\ k = NoNode /\ q = p
        /\ \A k \in Node : (Necessary(k)' <=> Necessary(k)) /\ (Queued(k)' <=> Queued(k))
        /\ \A k, c \in Node : IsParent(k, c)' <=> IsParent(k, c)
    BY <2>3, <2>5 DEF Called, Necessary, Queued, IsParent
  <2>8. Stack(rank)' /\ Covered'
    BY <2>5 DEF Inv, Stack, Covered
  <2>9. CallsTyped'
    <3>1. SUFFICES ASSUME NEW f \in Range(calls) PROVE CallTyped(f)'
      BY <2>5 DEF CallsTyped
    <3>2. f \in Call
      BY <3>1, ElementInSet DEF TypeOK
    <3>3. f.do = "drop" /\ f.node = NoNode /\ f.with = NoNode
      BY <2>3, <3>1, <3>2, CallFields DEF Called
    <3> QED BY <3>3 DEF CallTyped, Paired, Observing
  <2>10. Links'
    <3>1. ASSUME NEW c \in Node, NEW q \in Node PROVE Linked(c, q)'
      <4>1. Linked(c, q)
        BY <2>2 DEF Links
      <4>2. /\ ~Link(c, q)' /\ ~Unlink(c, q)' /\ ~Marked(q)'
            /\ ~Link(c, q) /\ ~Unlink(c, q) /\ ~Marked(q)
        BY <2>3, <2>7 DEF Link, Unlink, Marked
      <4> QED BY <2>3, <2>4, <2>5, <2>7, <4>1, <4>2 DEF Linked
    <3>2. \A k \in Node : ~Placing(k)'
      BY <2>7 DEF Placing
    <3> QED BY <2>2, <2>5, <3>1, <3>2 DEF Links
  <2>11. Observers'
    BY <2>2, <2>3, <2>5, <2>7 DEF Observers
  <2>12. Times'
    <3>1. \A k \in Node : ~Marked(k)' /\ \A c \in Node : ~Called("queue_if_older", c, k)'
      BY <2>7 DEF Marked
    <3>2. ASSUME NEW k \in Node PROVE changedAt'[k] <= now'
      <4>1. now \in Nat /\ changedAt[k] <= now /\ now' = now
        BY <2>2, <2>5 DEF Times, TypeOK
      <4>2. changedAt'[k] = -1 \/ changedAt'[k] = changedAt[k]
        BY <2>5 DEF Never
      <4> QED BY <4>1, <4>2
    <3> QED BY <3>1, <3>2 DEF Times
  <2>13. Heap'
    <3>1. ASSUME NEW k \in Node PROVE Heaped(k)'
      <4>1. Heaped(k)
        BY <2>2 DEF Heap
      <4>2. ~Marked(k)' /\ ~Marked(k) /\ ~Called("lower", k, NoNode)'
        BY <2>3, <2>7 DEF Marked
      <4>3. (Necessary(k)' <=> Necessary(k)) /\ (Queued(k)' <=> Queued(k))
        BY <2>7
      <4> QED BY <2>3, <2>5, <4>1, <4>2, <4>3 DEF Heaped
    <3> QED BY <2>2, <2>5, <3>1 DEF Heap
  <2>14. Told'
    <3>1. ASSUME NEW k \in Node, NEW c \in Node PROVE ToldOf(k, c)'
      <4>1. ToldOf(k, c)
        BY <2>2 DEF Told
      <4>2. ~Link(c, k) /\ ~Dying(k)
        BY <2>3 DEF Link
      <4>3. k \notin Range(invalidated)
        BY <2>3, NothingOrdered
      <4> QED BY <2>4, <2>5, <2>7, <4>1, <4>2, <4>3 DEF ToldOf
    <3> QED BY <2>3, <2>5, <3>1 DEF Told
  <2> QED BY <2>6, <2>8, <2>9, <2>10, <2>11, <2>12, <2>13, <2>14 DEF Inv
<1>2. CASE NotHeld = {}
  <2>1. /\ calls \in Seq(Call) /\ calls # <<>> /\ Stack(rank) /\ CallsTyped /\ Covered
        /\ stabilising
        /\ \A d, k, q : Called(d, k, q) <=> Waiting(d, k, q) \/ (d = "drop" /\ k = NoNode /\ q = p)
        /\ \A d, k, q : ~Waiting(d, k, q)
    <3>1. Scene(rank, "drop", NoNode, p)
      BY Context, Zenon
    <3> QED BY <3>1 DEF Scene, Under
  <2>2. Returns /\ UNCHANGED <<made, children, created, valid, values, height, links, heap, invalidated,
                        turn, panicked, user>>
    BY <1>2 DEF Drop
  <2>3. /\ calls' \in Seq(Call) /\ Stack(rank)' /\ CallsTyped' /\ Covered'
        /\ \A d, k, q : Called(d, k, q)' <=> Waiting(d, k, q)
    BY <2>1, <2>2, Return DEF made
  <2>4. \A d, k, q : d # "drop" => (Called(d, k, q)' <=> Called(d, k, q))
    BY <2>1, <2>3
  <2>5. Graph' /\ Ranked(rank)'
    BY <2>2, GraphKept DEF Inv, made
  <2>6. Validity'
    BY <2>2, <2>4, ValidityKept DEF Inv, made, Marked, Dying
  <2>7. Links' /\ Observers' /\ Times'
    BY <2>2, <2>4, LinksKept, ObserversKept, TimesKept
       DEF Inv, made, links, values, turn, Link, Unlink, Marked, Placing
  <2>8. Told'
    BY <2>2, <2>4, ToldKept DEF Inv, made, links, turn, Link, Dying, Marked, Queued
  <2>9. Heap'
    <3>1. ASSUME NEW k \in Node PROVE Heaped(k)'
      <4>1. Heaped(k)
        BY DEF Inv, Heap
      <4>2. (Queued(k)' <=> Queued(k)) /\ (Necessary(k)' <=> Necessary(k)) /\ valid' = valid /\ height' = height
        BY <2>2 DEF Queued, Necessary, links, turn
      <4>3. (Marked(k)' <=> Marked(k)) /\ (Called("lower", k, NoNode)' => Called("lower", k, NoNode))
        BY <2>4 DEF Marked
      <4> QED BY <4>1, <4>2, <4>3 DEF Heaped
    <3>2. \A f : f \in Range(calls') => f \in Range(calls)
      BY <2>1, <2>2, HeadAndTail DEF Returns
    <3>3. Heap /\ heap' = heap /\ direct' = direct /\ stabilising'
      BY <2>1, <2>2 DEF Inv, turn
    <3> QED BY <3>1, <3>2, <3>3 DEF Heap
  <2> QED BY <2>3, <2>5, <2>6, <2>7, <2>8, <2>9 DEF Inv
<1> QED BY <1>1, <1>2
=============================================================================
