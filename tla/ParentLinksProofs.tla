-------------------------- MODULE ParentLinksProofs --------------------------
(***************************************************************************)
(* What the operations on the indices do: AddParent, RemoveParent and      *)
(* SwapChildren keep the two index vectors in agreement, for any number of *)
(* nodes, edges and children.                                              *)
(***************************************************************************)
EXTENDS ParentLinks, SequenceTheorems, TLAPS

(***************************************************************************)
(* The two halves of LinksAgree for any links L and edges ch, so that the  *)
(* operations on the indices can be treated one by one.                    *)
(***************************************************************************)
LinksType(L) ==
  /\ L.parents \in [Node -> Seq(Link)]
  /\ L.parentIndex \in [Node -> [Index -> Nat]]

ChildrenType(ch) == ch \in [Node -> Seq(Edge)]

EdgeHasEntry(L, ch, p, i) ==
  /\ i <= Len(ch[p])
  /\ L.parentIndex[p][i] <= Len(L.parents[Child[ch[p][i]]])
  /\ L.parents[Child[ch[p][i]]][L.parentIndex[p][i]] = [parent |-> p, index |-> i]

EntryHasEdge(L, ch, c, j) ==
  /\ L.parentIndex[L.parents[c][j].parent][L.parents[c][j].index] = j
  /\ L.parents[c][j].index <= Len(ch[L.parents[c][j].parent])
  /\ Child[ch[L.parents[c][j].parent][L.parents[c][j].index]] = c

Agree(L, ch) ==
  /\ \A p \in Node, i \in Index : L.parentIndex[p][i] # 0 => EdgeHasEntry(L, ch, p, i)
  /\ \A c \in Node : \A j \in 1 .. Len(L.parents[c]) : EntryHasEdge(L, ch, c, j)

LEMMA FunctionIsSequence ==
  ASSUME NEW S, NEW n \in Nat, NEW f \in [1 .. n -> S]
  PROVE  f \in Seq(S) /\ Len(f) = n
OBVIOUS

\* A node that an edge leads to is a node, and an entry names one.
LEMMA EntryTypes ==
  ASSUME NEW L, LinksType(L), NEW c \in Node, NEW j \in 1 .. Len(L.parents[c])
  PROVE  /\ L.parents[c][j] \in Link
         /\ L.parents[c][j].parent \in Node
         /\ L.parents[c][j].index \in Index
         /\ L.parents[c][j] = [parent |-> L.parents[c][j].parent,
                               index |-> L.parents[c][j].index]
<1>1. L.parents[c] \in Seq(Link)
  BY DEF LinksType
<1>2. L.parents[c][j] \in Link
  BY <1>1
<1> QED BY <1>2 DEF Link

LEMMA ChildIsNode ==
  ASSUME NEW ch, ChildrenType(ch), NEW p \in Node, NEW i \in Index, i <= Len(ch[p])
  PROVE  ch[p][i] \in Edge /\ Child[ch[p][i]] \in Node
<1>1. ch[p] \in Seq(Edge)
  BY DEF ChildrenType
<1>2. i \in 1 .. Len(ch[p])
  BY <1>1 DEF Index
<1>3. ch[p][i] \in Edge
  BY <1>1, <1>2
<1> QED BY <1>3, EdgeAssumption

(***************************************************************************)
(* AddParent: the new entry is the last one, and no other one moves.       *)
(***************************************************************************)
Added(L, N, c, p, i) ==
  /\ N.parents[c] # <<>>
  /\ \A d \in Node : d # c => N.parents[d] = L.parents[d]
  /\ N.parentIndex[p][i] # 0
  /\ \A q \in Node, k \in Index : ~(q = p /\ k = i) => N.parentIndex[q][k] = L.parentIndex[q][k]

LEMMA AddParentAdds ==
  ASSUME NEW L, LinksType(L), NEW c \in Node, NEW p \in Node, NEW i \in Index
  PROVE  LinksType(AddParent(L, c, i, p)) /\ Added(L, AddParent(L, c, i, p), c, p, i)
<1> DEFINE entry == [parent |-> p, index |-> i]
<1>1. entry \in Link
  BY DEF Link
<1>2. L.parents[c] \in Seq(Link) /\ Len(L.parents[c]) \in Nat
  BY DEF LinksType
<1>3. Append(L.parents[c], entry) \in Seq(Link) /\ Append(L.parents[c], entry) # <<>>
  BY <1>1, <1>2
<1>4. AddParent(L, c, i, p).parents = [L.parents EXCEPT ![c] = Append(@, entry)]
  BY DEF AddParent
<1>5. AddParent(L, c, i, p).parentIndex = [L.parentIndex EXCEPT ![p][i] = Len(L.parents[c]) + 1]
  BY DEF AddParent
<1>6. AddParent(L, c, i, p).parents \in [Node -> Seq(Link)]
  BY <1>3, <1>4 DEF LinksType
<1>7. AddParent(L, c, i, p).parentIndex \in [Node -> [Index -> Nat]]
  BY <1>2, <1>5 DEF LinksType
<1>8. /\ AddParent(L, c, i, p).parents[c] # <<>>
      /\ \A d \in Node : d # c => AddParent(L, c, i, p).parents[d] = L.parents[d]
  BY <1>3, <1>4 DEF LinksType
<1>9. /\ AddParent(L, c, i, p).parentIndex[p][i] # 0
      /\ \A q \in Node, k \in Index : ~(q = p /\ k = i) =>
           AddParent(L, c, i, p).parentIndex[q][k] = L.parentIndex[q][k]
  BY <1>2, <1>5 DEF LinksType
<1> QED BY <1>6, <1>7, <1>8, <1>9 DEF LinksType, Added

LEMMA AddParentAgrees ==
  ASSUME NEW L, NEW ch, LinksType(L), ChildrenType(ch), Agree(L, ch),
         NEW p \in Node, NEW i \in Index, i <= Len(ch[p]), L.parentIndex[p][i] = 0
  PROVE  Agree(AddParent(L, Child[ch[p][i]], i, p), ch)
<1> DEFINE c == Child[ch[p][i]]
           entry == [parent |-> p, index |-> i]
           N == AddParent(L, c, i, p)
           n == Len(L.parents[c]) + 1
<1>1. c \in Node
  BY ChildIsNode
<1>2. L.parents[c] \in Seq(Link) /\ n \in Nat /\ n > 0
  BY <1>1 DEF LinksType
<1>3. /\ Len(N.parents[c]) = n
      /\ N.parents[c][n] = entry
      /\ \A j \in 1 .. n - 1 : N.parents[c][j] = L.parents[c][j]
  <2>1. N.parents = [L.parents EXCEPT ![c] = Append(@, entry)]
    BY DEF AddParent
  <2>2. N.parents[c] = Append(L.parents[c], entry)
    BY <2>1, <1>1 DEF LinksType
  <2>3. entry \in Link
    BY DEF Link
  <2> HIDE DEF N, entry, c
  <2> QED BY <2>2, <2>3, <1>2
<1>4. \A d \in Node : d # c => N.parents[d] = L.parents[d]
  BY <1>1, AddParentAdds DEF Added
<1>5. /\ N.parentIndex[p][i] = n
      /\ \A q \in Node, k \in Index : <<q, k>> # <<p, i>> => N.parentIndex[q][k] = L.parentIndex[q][k]
  <2>1. N.parentIndex = [L.parentIndex EXCEPT ![p][i] = n]
    BY DEF AddParent
  <2> HIDE DEF N, n, c
  <2> QED BY <2>1, <1>2 DEF LinksType
<1> HIDE DEF N, c, n
<1>6. ASSUME NEW q \in Node, NEW k \in Index, N.parentIndex[q][k] # 0
      PROVE  EdgeHasEntry(N, ch, q, k)
  <2>1. CASE <<q, k>> = <<p, i>>
    <3>1. q = p /\ k = i
      BY <2>1
    <3>2. Child[ch[p][i]] = c
      BY DEF c
    <3> QED BY <3>1, <3>2, <1>3, <1>5 DEF EdgeHasEntry
  <2>2. CASE <<q, k>> # <<p, i>>
    <3>1. N.parentIndex[q][k] = L.parentIndex[q][k] /\ L.parentIndex[q][k] \in Nat \ {0}
      BY <2>2, <1>5, <1>6 DEF LinksType
    <3>2. EdgeHasEntry(L, ch, q, k)
      BY <3>1 DEF Agree
    <3>3. Child[ch[q][k]] \in Node
      BY <3>2, ChildIsNode DEF EdgeHasEntry
    <3>4. CASE Child[ch[q][k]] = c
      <4> DEFINE m == L.parentIndex[q][k]
      <4>1. m \in 1 .. n - 1 /\ L.parents[c][m] = [parent |-> q, index |-> k]
        BY <3>1, <3>2, <3>4, <1>2 DEF EdgeHasEntry, n
      <4>2. N.parents[c][m] = L.parents[c][m] /\ m <= Len(N.parents[c])
        BY <4>1, <1>2, <1>3
      <4> QED BY <4>1, <4>2, <3>1, <3>2, <3>4 DEF EdgeHasEntry
    <3>5. CASE Child[ch[q][k]] # c
      BY <3>1, <3>2, <3>3, <3>5, <1>4 DEF EdgeHasEntry
    <3> QED BY <3>4, <3>5
  <2> QED BY <2>1, <2>2
<1>7. ASSUME NEW d \in Node, NEW j \in 1 .. Len(N.parents[d])
      PROVE  EntryHasEdge(N, ch, d, j)
  <2>1. CASE d = c /\ j = n
    <3>1. N.parents[d][j] = entry /\ Child[ch[p][i]] = c
      BY <2>1, <1>3 DEF c
    <3> QED BY <3>1, <2>1, <1>5 DEF EntryHasEdge
  <2>2. CASE ~(d = c /\ j = n)
    <3>1. j \in 1 .. Len(L.parents[d]) /\ N.parents[d][j] = L.parents[d][j]
      BY <2>2, <1>2, <1>3, <1>4 DEF n
    <3>2. EntryHasEdge(L, ch, d, j)
      BY <3>1 DEF Agree
    <3>3. L.parents[d][j].parent \in Node /\ L.parents[d][j].index \in Index
      BY <3>1, EntryTypes
    <3>4. j # 0
      BY <3>1
    <3>5. <<L.parents[d][j].parent, L.parents[d][j].index>> # <<p, i>>
      BY <3>2, <3>4 DEF EntryHasEdge
    <3>6. N.parentIndex[L.parents[d][j].parent][L.parents[d][j].index]
            = L.parentIndex[L.parents[d][j].parent][L.parents[d][j].index]
      BY <3>3, <3>5, <1>5
    <3> QED BY <3>1, <3>2, <3>6 DEF EntryHasEdge
  <2> QED BY <2>1, <2>2
<1>8. Agree(N, ch)
  BY <1>6, <1>7 DEF Agree
<1> QED BY <1>8 DEF N, c

(***************************************************************************)
(* RemoveParent: the last entry takes the removed one's place.  Removed    *)
(* says what that does to each entry and to each index.                    *)
(***************************************************************************)
Removed(L, N, c, p, i, j, last) ==
  /\ Len(N.parents[c]) = last - 1
  /\ \A k \in 1 .. last - 1 :
       N.parents[c][k] = IF k = j THEN L.parents[c][last] ELSE L.parents[c][k]
  /\ \A d \in Node : d # c => N.parents[d] = L.parents[d]
  /\ N.parentIndex[p][i] = 0
  /\ \A q \in Node, k \in Index : ~(q = p /\ k = i) =>
       N.parentIndex[q][k] = IF j < last /\ L.parents[c][last] = [parent |-> q, index |-> k]
                               THEN j ELSE L.parentIndex[q][k]

\* The entry that an index points at is there and is the edge's.
LEMMA EntryOfEdge ==
  ASSUME NEW L, NEW ch, LinksType(L), ChildrenType(ch), Agree(L, ch),
         NEW p \in Node, NEW i \in Index, L.parentIndex[p][i] # 0
  PROVE  /\ i <= Len(ch[p])
         /\ Child[ch[p][i]] \in Node
         /\ Len(L.parents[Child[ch[p][i]]]) \in Nat
         /\ L.parentIndex[p][i] \in 1 .. Len(L.parents[Child[ch[p][i]]])
         /\ L.parents[Child[ch[p][i]]][L.parentIndex[p][i]] = [parent |-> p, index |-> i]
<1>1. EdgeHasEntry(L, ch, p, i)
  BY DEF Agree
<1>2. Child[ch[p][i]] \in Node
  BY <1>1, ChildIsNode DEF EdgeHasEntry
<1>3. L.parents[Child[ch[p][i]]] \in Seq(Link)
  BY <1>2 DEF LinksType
<1> QED BY <1>1, <1>2, <1>3 DEF EdgeHasEntry, LinksType

LEMMA RemoveParentRemoves ==
  ASSUME NEW L, NEW ch, LinksType(L), ChildrenType(ch), Agree(L, ch),
         NEW p \in Node, NEW i \in Index, L.parentIndex[p][i] # 0
  PROVE  /\ LinksType(RemoveParent(L, Child[ch[p][i]], i, p))
         /\ Removed(L, RemoveParent(L, Child[ch[p][i]], i, p), Child[ch[p][i]], p, i,
                    L.parentIndex[p][i], Len(L.parents[Child[ch[p][i]]]))
<1> DEFINE c == Child[ch[p][i]]
           j == L.parentIndex[p][i]
           last == Len(L.parents[c])
           N == RemoveParent(L, c, i, p)
           end == L.parents[c][last]
           moved == [k \in 1 .. last - 1 |-> IF k = j THEN end ELSE L.parents[c][k]]
           unlinked == [L.parentIndex EXCEPT ![p][i] = 0]
<1>1. /\ c \in Node /\ last \in Nat /\ j \in 1 .. last
      /\ L.parents[c][j] = [parent |-> p, index |-> i]
  BY EntryOfEdge
<1>2. N.parents = [L.parents EXCEPT ![c] = moved]
  BY DEF RemoveParent
<1>3. N.parentIndex = IF j < last THEN [unlinked EXCEPT ![end.parent][end.index] = j] ELSE unlinked
  BY DEF RemoveParent
<1>4. last \in 1 .. Len(L.parents[c])
  BY <1>1
<1>5. L.parentIndex[end.parent][end.index] = last
  <2>1. EntryHasEdge(L, ch, c, last)
    BY <1>1, <1>4 DEF Agree
  <2> QED BY <2>1 DEF EntryHasEdge
<1> HIDE DEF c, N
<1>6. /\ end \in Link /\ end.parent \in Node /\ end.index \in Index
      /\ end = [parent |-> end.parent, index |-> end.index]
  BY <1>1, <1>4, EntryTypes
<1>7. moved \in Seq(Link) /\ Len(moved) = last - 1
  <2>1. ASSUME NEW k \in 1 .. last - 1 PROVE moved[k] \in Link
    <3>1. k \in 1 .. Len(L.parents[c])
      BY <1>1
    <3>2. L.parents[c][k] \in Link
      BY <3>1, <1>1, EntryTypes
    <3> QED BY <3>2, <1>6
  <2>2. moved \in [1 .. last - 1 -> Link]
    BY <2>1
  <2>3. last - 1 \in Nat
    BY <1>1
  <2> HIDE DEF moved
  <2> QED BY <2>2, <2>3, FunctionIsSequence
<1>8. /\ N.parents \in [Node -> Seq(Link)] /\ N.parents[c] = moved
      /\ \A d \in Node : d # c => N.parents[d] = L.parents[d]
  BY <1>1, <1>2, <1>7 DEF LinksType
<1>9. \A k \in 1 .. last - 1 : N.parents[c][k] = IF k = j THEN end ELSE L.parents[c][k]
  BY <1>8
<1>10. /\ unlinked \in [Node -> [Index -> Nat]] /\ unlinked[p][i] = 0
       /\ \A q \in Node, k \in Index : ~(q = p /\ k = i) => unlinked[q][k] = L.parentIndex[q][k]
  BY DEF LinksType
<1>11. j < last => ~(end.parent = p /\ end.index = i)
  BY <1>1, <1>5
<1> HIDE DEF moved, unlinked, end, j, last
<1>12. N.parentIndex \in [Node -> [Index -> Nat]]
  <2>1. j \in Nat
    BY <1>1
  <2>2. [unlinked EXCEPT ![end.parent][end.index] = j] \in [Node -> [Index -> Nat]]
    BY <2>1, <1>6, <1>10
  <2> QED BY <2>2, <1>3, <1>10
<1>13. N.parentIndex[p][i] = 0
  BY <1>3, <1>6, <1>10, <1>11
<1>14. ASSUME NEW q \in Node, NEW k \in Index, ~(q = p /\ k = i)
       PROVE  N.parentIndex[q][k] =
                IF j < last /\ end = [parent |-> q, index |-> k] THEN j ELSE L.parentIndex[q][k]
  <2>1. CASE j < last /\ q = end.parent /\ k = end.index
    <3>1. [unlinked EXCEPT ![end.parent][end.index] = j][q][k] = j
      BY <2>1, <1>6, <1>10
    <3> QED BY <3>1, <2>1, <1>3, <1>6
  <2>2. CASE j < last /\ ~(q = end.parent /\ k = end.index)
    <3>1. end # [parent |-> q, index |-> k]
      BY <2>2, <1>6
    <3>2. N.parentIndex[q][k] = unlinked[q][k]
      BY <2>2, <1>3, <1>6, <1>10
    <3> QED BY <3>1, <3>2, <1>10, <1>14
  <2>3. CASE ~(j < last)
    BY <2>3, <1>3, <1>10, <1>14
  <2> QED BY <2>1, <2>2, <2>3
<1>15. Len(N.parents[c]) = last - 1
  BY <1>7, <1>8
<1>16. LinksType(N)
  BY <1>8, <1>12 DEF LinksType
<1>17. Removed(L, N, c, p, i, j, last)
  BY <1>8, <1>9, <1>13, <1>14, <1>15 DEF Removed, end
<1> QED BY <1>16, <1>17 DEF N, c, j, last

LEMMA RemoveParentAgrees ==
  ASSUME NEW L, NEW ch, LinksType(L), ChildrenType(ch), Agree(L, ch),
         NEW p \in Node, NEW i \in Index, L.parentIndex[p][i] # 0
  PROVE  Agree(RemoveParent(L, Child[ch[p][i]], i, p), ch)
<1> DEFINE c == Child[ch[p][i]]
           j == L.parentIndex[p][i]
           last == Len(L.parents[c])
           N == RemoveParent(L, c, i, p)
           end == L.parents[c][last]
<1>1. /\ c \in Node /\ last \in Nat /\ j \in 1 .. last
      /\ L.parents[c][j] = [parent |-> p, index |-> i]
  BY EntryOfEdge
<1>2. Removed(L, N, c, p, i, j, last)
  BY RemoveParentRemoves
<1>3. last \in 1 .. Len(L.parents[c])
  BY <1>1
<1>4. EntryHasEdge(L, ch, c, last)
  BY <1>1, <1>3 DEF Agree
<1>5. /\ L.parentIndex[end.parent][end.index] = last
      /\ end.index <= Len(ch[end.parent])
      /\ Child[ch[end.parent][end.index]] = c
  BY <1>4 DEF EntryHasEdge
<1>6. /\ end.parent \in Node /\ end.index \in Index
      /\ end = [parent |-> end.parent, index |-> end.index]
  BY <1>1, <1>3, EntryTypes
<1> HIDE DEF N
<1>7. /\ Len(N.parents[c]) = last - 1
      /\ \A k \in 1 .. last - 1 : N.parents[c][k] = IF k = j THEN end ELSE L.parents[c][k]
      /\ \A d \in Node : d # c => N.parents[d] = L.parents[d]
  BY <1>2 DEF Removed
<1>8. /\ N.parentIndex[p][i] = 0
      /\ \A q \in Node, k \in Index : ~(q = p /\ k = i) =>
           N.parentIndex[q][k] = IF j < last /\ end = [parent |-> q, index |-> k]
                                   THEN j ELSE L.parentIndex[q][k]
  BY <1>2 DEF Removed
<1>9. \A q \in Node, k \in Index : L.parentIndex[q][k] # 0 =>
        EdgeHasEntry(L, ch, q, k) /\ Child[ch[q][k]] \in Node
        /\ L.parentIndex[q][k] \in 1 .. Len(L.parents[Child[ch[q][k]]])
        /\ L.parents[Child[ch[q][k]]][L.parentIndex[q][k]] = [parent |-> q, index |-> k]
  BY EntryOfEdge DEF Agree
<1>10. \A d \in Node : \A m \in 1 .. Len(L.parents[d]) :
         EntryHasEdge(L, ch, d, m) /\ L.parents[d][m].parent \in Node
         /\ L.parents[d][m].index \in Index
  BY EntryTypes DEF Agree
<1>11. c = Child[ch[p][i]] /\ last = Len(L.parents[c])
  OBVIOUS
<1> HIDE DEF c, j, last, end
<1>12. ASSUME NEW q \in Node, NEW k \in Index, N.parentIndex[q][k] # 0
      PROVE  EdgeHasEntry(N, ch, q, k)
  <2> DEFINE m == L.parentIndex[q][k]
  <2>1. ~(q = p /\ k = i)
    BY <1>8, <1>12
  <2>2. CASE j < last /\ end = [parent |-> q, index |-> k]
    <3>1. N.parentIndex[q][k] = j
      BY <2>1, <2>2, <1>8
    <3>2. end.parent = q /\ end.index = k
      BY <2>2
    <3>3. k <= Len(ch[q]) /\ Child[ch[q][k]] = c
      BY <3>2, <1>5
    <3>4. j \in 1 .. last - 1
      BY <2>2, <1>1
    <3>5. j <= Len(N.parents[c]) /\ N.parents[c][j] = [parent |-> q, index |-> k]
      BY <3>4, <2>2, <1>1, <1>7
    <3> QED BY <3>1, <3>3, <3>5 DEF EdgeHasEntry
  <2>3. CASE ~(j < last /\ end = [parent |-> q, index |-> k])
    <3>1. N.parentIndex[q][k] = m
      BY <2>1, <2>3, <1>8
    <3>2. m # 0
      BY <3>1, <1>12
    <3>3. /\ k <= Len(ch[q])
          /\ Child[ch[q][k]] \in Node
          /\ m \in 1 .. Len(L.parents[Child[ch[q][k]]])
          /\ L.parents[Child[ch[q][k]]][m] = [parent |-> q, index |-> k]
      BY <3>2, <1>9 DEF EdgeHasEntry
    <3> HIDE DEF m
    <3>4. CASE Child[ch[q][k]] = c
      <4>1. m \in 1 .. last /\ L.parents[c][m] = [parent |-> q, index |-> k]
        BY <3>3, <3>4, <1>11
      <4>2. m # j
        BY <4>1, <2>1, <1>1
      <4>3. m = last => end = [parent |-> q, index |-> k]
        BY <4>1 DEF end
      <4>4. m \in 1 .. last - 1
        BY <4>1, <4>2, <4>3, <2>3, <1>1
      <4>5. N.parents[c][m] = [parent |-> q, index |-> k] /\ m <= Len(N.parents[c])
        BY <4>1, <4>2, <4>4, <1>1, <1>7
      <4> QED BY <4>5, <3>1, <3>3, <3>4 DEF EdgeHasEntry
    <3>5. CASE Child[ch[q][k]] # c
      <4>1. N.parents[Child[ch[q][k]]] = L.parents[Child[ch[q][k]]]
        BY <3>3, <3>5, <1>7
      <4> QED BY <4>1, <3>1, <3>3 DEF EdgeHasEntry
    <3> QED BY <3>4, <3>5
  <2> QED BY <2>2, <2>3
<1>13. ASSUME NEW d \in Node, NEW m \in 1 .. Len(N.parents[d])
      PROVE  EntryHasEdge(N, ch, d, m)
  <2>1. CASE d = c /\ m = j
    <3>1. m \in 1 .. last - 1 /\ j < last
      BY <2>1, <1>1, <1>7
    <3>2. N.parents[d][m] = end
      BY <2>1, <3>1, <1>7
    <3>3. ~(end.parent = p /\ end.index = i)
      BY <3>1, <1>1, <1>5 DEF j
    <3>4. N.parentIndex[end.parent][end.index] = j
      BY <3>1, <3>3, <1>6, <1>8
    <3> QED BY <2>1, <3>2, <3>4, <1>5 DEF EntryHasEdge
  <2>2. CASE ~(d = c /\ m = j)
    <3> DEFINE entry == L.parents[d][m]
    <3>1. m \in 1 .. Len(L.parents[d]) /\ N.parents[d][m] = entry /\ (d = c => m < last)
      <4>1. CASE d = c
        BY <4>1, <2>2, <1>1, <1>7, <1>11
      <4>2. CASE d # c
        BY <4>2, <1>7
      <4> QED BY <4>1, <4>2
    <3>2. EntryHasEdge(L, ch, d, m) /\ entry.parent \in Node /\ entry.index \in Index
      BY <3>1, <1>10
    <3>3. /\ L.parentIndex[entry.parent][entry.index] = m
          /\ entry.index <= Len(ch[entry.parent])
          /\ Child[ch[entry.parent][entry.index]] = d
      BY <3>2 DEF EntryHasEdge
    <3> HIDE DEF entry
    <3>4. ~(entry.parent = p /\ entry.index = i)
      BY <2>2, <3>3, <1>11 DEF j
    <3>5. end # [parent |-> entry.parent, index |-> entry.index]
      <4>1. ASSUME end = [parent |-> entry.parent, index |-> entry.index]
            PROVE  d = c /\ m = last
        <5>1. end.parent = entry.parent /\ end.index = entry.index
          BY <4>1
        <5> QED BY <5>1, <3>3, <1>5
      <4> QED BY <4>1, <3>1, <1>1
    <3>6. N.parentIndex[entry.parent][entry.index] = m
      BY <3>2, <3>3, <3>4, <3>5, <1>8
    <3> QED BY <3>1, <3>3, <3>6 DEF EntryHasEdge
  <2> QED BY <2>1, <2>2
<1> QED BY <1>12, <1>13 DEF Agree, N, c

\* Removing one edge's entry leaves every other edge linked, or not, as it was.
LEMMA LinkedAfterRemove ==
  ASSUME NEW L, NEW ch, LinksType(L), ChildrenType(ch), Agree(L, ch),
         NEW p \in Node, NEW i \in Index, L.parentIndex[p][i] # 0,
         NEW N, N = RemoveParent(L, Child[ch[p][i]], i, p)
  PROVE  /\ LinksType(N)
         /\ N.parentIndex[p][i] = 0
         /\ \A q \in Node, k \in Index : ~(q = p /\ k = i) =>
              (N.parentIndex[q][k] # 0 <=> L.parentIndex[q][k] # 0)
         /\ L.parents[Child[ch[p][i]]] # <<>>
         /\ \A d \in Node : d # Child[ch[p][i]] => N.parents[d] = L.parents[d]
<1> DEFINE c == Child[ch[p][i]]
           j == L.parentIndex[p][i]
           last == Len(L.parents[c])
<1>1. c \in Node /\ last \in Nat /\ j \in 1 .. last
  BY EntryOfEdge
<1>2. LinksType(N) /\ Removed(L, N, c, p, i, j, last)
  BY RemoveParentRemoves
<1>3. EntryHasEdge(L, ch, c, last)
  BY <1>1 DEF Agree
<1>4. ASSUME NEW q \in Node, NEW k \in Index, ~(q = p /\ k = i)
      PROVE  N.parentIndex[q][k] # 0 <=> L.parentIndex[q][k] # 0
  <2>1. CASE j < last /\ L.parents[c][last] = [parent |-> q, index |-> k]
    <3>1. L.parentIndex[q][k] = last
      BY <2>1, <1>3 DEF EntryHasEdge
    <3>2. N.parentIndex[q][k] = j
      BY <2>1, <1>2, <1>4 DEF Removed
    <3> QED BY <3>1, <3>2, <1>1
  <2>2. CASE ~(j < last /\ L.parents[c][last] = [parent |-> q, index |-> k])
    BY <2>2, <1>2, <1>4 DEF Removed
  <2> QED BY <2>1, <2>2
<1>5. L.parents[c] # <<>>
  BY <1>1
<1> QED BY <1>2, <1>4, <1>5 DEF Removed

(***************************************************************************)
(* Only the edges whose children have entries for them matter.             *)
(***************************************************************************)
SameEnds(L, ch, ch2) ==
  \A q \in Node, k \in Index : L.parentIndex[q][k] # 0 /\ k <= Len(ch[q]) =>
    k <= Len(ch2[q]) /\ Child[ch2[q][k]] = Child[ch[q][k]]

LEMMA AgreeWithOtherEdges ==
  ASSUME NEW L, NEW ch, NEW ch2, LinksType(L), Agree(L, ch), SameEnds(L, ch, ch2)
  PROVE  Agree(L, ch2)
<1> USE DEF SameEnds
<1>1. ASSUME NEW q \in Node, NEW k \in Index, L.parentIndex[q][k] # 0
      PROVE  EdgeHasEntry(L, ch2, q, k)
  <2>1. EdgeHasEntry(L, ch, q, k)
    BY <1>1 DEF Agree
  <2> QED BY <1>1, <2>1 DEF EdgeHasEntry
<1>2. ASSUME NEW d \in Node, NEW m \in 1 .. Len(L.parents[d])
      PROVE  EntryHasEdge(L, ch2, d, m)
  <2>1. EntryHasEdge(L, ch, d, m)
    BY <1>2 DEF Agree
  <2>2. L.parents[d][m].parent \in Node /\ L.parents[d][m].index \in Index
    BY EntryTypes
  <2>3. m # 0
    OBVIOUS
  <2> QED BY <2>1, <2>2, <2>3 DEF EntryHasEdge
<1> QED BY <1>1, <1>2 DEF Agree

(***************************************************************************)
(* SwapChildren, with the two edges swapped, keeps the agreement.          *)
(***************************************************************************)
Swapped(L, N, p, c1, i1, j1, c2, i2, j2) ==
  /\ \A d \in Node : Len(N.parents[d]) = Len(L.parents[d])
  /\ N.parents[c1][j1] = [parent |-> p, index |-> i2]
  /\ N.parents[c2][j2] = [parent |-> p, index |-> i1]
  /\ \A d \in Node : \A m \in 1 .. Len(L.parents[d]) :
       ~(d = c1 /\ m = j1) /\ ~(d = c2 /\ m = j2) => N.parents[d][m] = L.parents[d][m]
  /\ N.parentIndex[p][i1] = j2
  /\ N.parentIndex[p][i2] = j1
  /\ \A q \in Node, k \in Index : ~(q = p /\ k = i1) /\ ~(q = p /\ k = i2) =>
       N.parentIndex[q][k] = L.parentIndex[q][k]

\* One entry of a sequence of links is given another index.
LEMMA EntryMoved ==
  ASSUME NEW s \in Seq(Link), NEW j \in 1 .. Len(s), NEW p \in Node, NEW i \in Index,
         NEW k \in Index, s[j] = [parent |-> p, index |-> i]
  PROVE  /\ [s EXCEPT ![j].index = k] \in Seq(Link)
         /\ Len([s EXCEPT ![j].index = k]) = Len(s)
         /\ \A m \in 1 .. Len(s) :
              [s EXCEPT ![j].index = k][m] = IF m = j THEN [parent |-> p, index |-> k] ELSE s[m]
<1> DEFINE entry == [s[j] EXCEPT !.index = k]
<1>1. entry = [parent |-> p, index |-> k] /\ entry \in Link
  BY DEF Link
<1>2. [s EXCEPT ![j].index = k] = [s EXCEPT ![j] = entry]
  OBVIOUS
<1> HIDE DEF entry
<1> QED BY <1>1, <1>2

LEMMA SwapChildrenSwaps ==
  ASSUME NEW L, LinksType(L), NEW p \in Node,
         NEW i1 \in Index, NEW i2 \in Index, i1 # i2,
         NEW c1 \in Node, NEW c2 \in Node, c1 # c2,
         L.parentIndex[p][i1] \in 1 .. Len(L.parents[c1]),
         L.parentIndex[p][i2] \in 1 .. Len(L.parents[c2]),
         L.parents[c1][L.parentIndex[p][i1]] = [parent |-> p, index |-> i1],
         L.parents[c2][L.parentIndex[p][i2]] = [parent |-> p, index |-> i2]
  PROVE  /\ LinksType(SwapChildren(L, p, c1, i1, c2, i2))
         /\ Swapped(L, SwapChildren(L, p, c1, i1, c2, i2), p,
                    c1, i1, L.parentIndex[p][i1], c2, i2, L.parentIndex[p][i2])
<1> DEFINE j1 == L.parentIndex[p][i1]
           j2 == L.parentIndex[p][i2]
           s1 == [L.parents[c1] EXCEPT ![j1].index = i2]
           s2 == [L.parents[c2] EXCEPT ![j2].index = i1]
           N == SwapChildren(L, p, c1, i1, c2, i2)
<1>1. L.parents[c1] \in Seq(Link) /\ L.parents[c2] \in Seq(Link) /\ j1 \in Nat /\ j2 \in Nat
  BY DEF LinksType
<1>2. /\ s1 \in Seq(Link) /\ Len(s1) = Len(L.parents[c1])
      /\ \A m \in 1 .. Len(L.parents[c1]) :
           s1[m] = IF m = j1 THEN [parent |-> p, index |-> i2] ELSE L.parents[c1][m]
  BY <1>1, EntryMoved
<1>3. /\ s2 \in Seq(Link) /\ Len(s2) = Len(L.parents[c2])
      /\ \A m \in 1 .. Len(L.parents[c2]) :
           s2[m] = IF m = j2 THEN [parent |-> p, index |-> i1] ELSE L.parents[c2][m]
  BY <1>1, EntryMoved
<1>4. N.parents = [L.parents EXCEPT ![c1] = s1, ![c2] = s2]
  <2>1. N.parents = [L.parents EXCEPT ![c1][j1].index = i2, ![c2][j2].index = i1]
    BY DEF SwapChildren
  <2>2. L.parents \in [Node -> Seq(Link)]
    BY DEF LinksType
  <2> QED BY <2>1, <2>2
<1>5. N.parentIndex = [L.parentIndex EXCEPT ![p][i1] = j2, ![p][i2] = j1]
  BY DEF SwapChildren
<1> HIDE DEF s1, s2, N, j1, j2
<1>6. /\ N.parents \in [Node -> Seq(Link)]
      /\ N.parents[c1] = s1 /\ N.parents[c2] = s2
      /\ \A d \in Node : d # c1 /\ d # c2 => N.parents[d] = L.parents[d]
  BY <1>2, <1>3, <1>4 DEF LinksType
<1>7. /\ N.parentIndex \in [Node -> [Index -> Nat]]
      /\ N.parentIndex[p][i1] = j2 /\ N.parentIndex[p][i2] = j1
      /\ \A q \in Node, k \in Index : ~(q = p /\ k = i1) /\ ~(q = p /\ k = i2) =>
           N.parentIndex[q][k] = L.parentIndex[q][k]
  <2> DEFINE M == [L.parentIndex EXCEPT ![p][i1] = j2]
  <2>1. /\ M \in [Node -> [Index -> Nat]] /\ M[p][i1] = j2
        /\ \A q \in Node, k \in Index : ~(q = p /\ k = i1) => M[q][k] = L.parentIndex[q][k]
    BY <1>1 DEF LinksType
  <2>2. N.parentIndex = [M EXCEPT ![p][i2] = j1]
    BY <1>5
  <2> HIDE DEF M
  <2>3. /\ N.parentIndex \in [Node -> [Index -> Nat]] /\ N.parentIndex[p][i2] = j1
        /\ \A q \in Node, k \in Index : ~(q = p /\ k = i2) => N.parentIndex[q][k] = M[q][k]
    BY <2>1, <2>2, <1>1
  <2> QED BY <2>1, <2>3
<1>8. ASSUME NEW d \in Node
      PROVE  /\ Len(N.parents[d]) = Len(L.parents[d])
             /\ \A m \in 1 .. Len(L.parents[d]) :
                  ~(d = c1 /\ m = j1) /\ ~(d = c2 /\ m = j2) => N.parents[d][m] = L.parents[d][m]
  <2>1. CASE d = c1
    BY <2>1, <1>2, <1>6
  <2>2. CASE d = c2
    BY <2>2, <1>3, <1>6
  <2>3. CASE d # c1 /\ d # c2
    BY <2>3, <1>6
  <2> QED BY <2>1, <2>2, <2>3
<1>9. Swapped(L, N, p, c1, i1, j1, c2, i2, j2)
  <2>1. N.parents[c1][j1] = [parent |-> p, index |-> i2]
    BY <1>2, <1>6 DEF j1
  <2>2. N.parents[c2][j2] = [parent |-> p, index |-> i1]
    BY <1>3, <1>6 DEF j2
  <2> QED BY <2>1, <2>2, <1>7, <1>8 DEF Swapped
<1>10. LinksType(N)
  BY <1>6, <1>7 DEF LinksType
<1> QED BY <1>9, <1>10 DEF N, j1, j2

EdgesSwapped(ch, ch2, p, i1, i2) ==
  /\ \A q \in Node : Len(ch2[q]) = Len(ch[q])
  /\ \A q \in Node, k \in Index : k <= Len(ch[q]) =>
       ch2[q][k] = IF q = p /\ k = i1 THEN ch[p][i2]
                   ELSE IF q = p /\ k = i2 THEN ch[p][i1]
                   ELSE ch[q][k]

\* What SwapChildren needs, and what it leaves as it was.
MaySwap(L, ch, ch2, p, i1, i2) ==
  /\ LinksType(L) /\ ChildrenType(ch) /\ Agree(L, ch)
  /\ i1 # i2
  /\ L.parentIndex[p][i1] # 0 /\ L.parentIndex[p][i2] # 0
  /\ Child[ch[p][i1]] # Child[ch[p][i2]]
  /\ EdgesSwapped(ch, ch2, p, i1, i2)

SameLinked(L, N) ==
  /\ \A q \in Node, k \in Index : N.parentIndex[q][k] # 0 <=> L.parentIndex[q][k] # 0
  /\ \A d \in Node : N.parents[d] = <<>> <=> L.parents[d] = <<>>

LEMMA SwapChildrenAgrees ==
  ASSUME NEW L, NEW ch, NEW ch2,
         NEW p \in Node, NEW i1 \in Index, NEW i2 \in Index,
         MaySwap(L, ch, ch2, p, i1, i2)
  PROVE  LET N == SwapChildren(L, p, Child[ch[p][i1]], i1, Child[ch[p][i2]], i2)
         IN  Agree(N, ch2) /\ LinksType(N) /\ SameLinked(L, N)
<1> DEFINE c1 == Child[ch[p][i1]]
           c2 == Child[ch[p][i2]]
           j1 == L.parentIndex[p][i1]
           j2 == L.parentIndex[p][i2]
           N == SwapChildren(L, p, c1, i1, c2, i2)
<1> HIDE DEF N
<1>0. LinksType(L) /\ ChildrenType(ch) /\ Agree(L, ch)
  BY DEF MaySwap
<1>1. /\ i1 <= Len(ch[p]) /\ c1 \in Node
      /\ j1 \in 1 .. Len(L.parents[c1]) /\ L.parents[c1][j1] = [parent |-> p, index |-> i1]
  <2>1. L.parentIndex[p][i1] # 0
    BY DEF MaySwap
  <2> QED BY <1>0, <2>1, EntryOfEdge
<1>2. /\ i2 <= Len(ch[p]) /\ c2 \in Node
      /\ j2 \in 1 .. Len(L.parents[c2]) /\ L.parents[c2][j2] = [parent |-> p, index |-> i2]
  <2>1. L.parentIndex[p][i2] # 0
    BY DEF MaySwap
  <2> QED BY <1>0, <2>1, EntryOfEdge
<1>3. LinksType(N) /\ Swapped(L, N, p, c1, i1, j1, c2, i2, j2)
  <2>1. LinksType(L) /\ c1 # c2
    BY <1>0 DEF MaySwap
  <2>2. i1 # i2
    BY DEF MaySwap
  <2> HIDE DEF c1, c2
  <2> QED BY <2>1, <2>2, <1>1, <1>2, SwapChildrenSwaps DEF N
<1>4. ASSUME NEW q \in Node, NEW k \in Index, L.parentIndex[q][k] # 0
      PROVE  /\ k <= Len(ch[q])
             /\ Child[ch[q][k]] \in Node
             /\ L.parentIndex[q][k] \in 1 .. Len(L.parents[Child[ch[q][k]]])
             /\ L.parents[Child[ch[q][k]]][L.parentIndex[q][k]] = [parent |-> q, index |-> k]
  BY <1>0, <1>4, EntryOfEdge
<1>5. \A d \in Node : \A m \in 1 .. Len(L.parents[d]) :
         EntryHasEdge(L, ch, d, m) /\ L.parents[d][m].parent \in Node
         /\ L.parents[d][m].index \in Index
  BY <1>0, EntryTypes DEF Agree
<1>6. j1 # 0 /\ j2 # 0
  BY DEF MaySwap
<1> USE DEF EdgesSwapped, MaySwap
<1>7. /\ Child[ch2[p][i1]] = c2 /\ Child[ch2[p][i2]] = c1
      /\ i1 <= Len(ch2[p]) /\ i2 <= Len(ch2[p])
  BY <1>1, <1>2
<1> HIDE DEF j1, j2, c1, c2
<1>8. \A d \in Node : Len(N.parents[d]) = Len(L.parents[d]) /\ Len(L.parents[d]) \in Nat
  <2>1. \A d \in Node : L.parents[d] \in Seq(Link)
    BY DEF LinksType
  <2>2. \A d \in Node : Len(L.parents[d]) \in Nat
    BY <2>1
  <2> QED BY <2>2, <1>3 DEF Swapped
<1>9. /\ N.parents[c1][j1] = [parent |-> p, index |-> i2]
      /\ N.parents[c2][j2] = [parent |-> p, index |-> i1]
      /\ \A d \in Node : \A m \in 1 .. Len(L.parents[d]) :
           ~(d = c1 /\ m = j1) /\ ~(d = c2 /\ m = j2) => N.parents[d][m] = L.parents[d][m]
  BY <1>3 DEF Swapped
<1>10. /\ N.parentIndex[p][i1] = j2 /\ N.parentIndex[p][i2] = j1
       /\ \A q \in Node, k \in Index : ~(q = p /\ k = i1) /\ ~(q = p /\ k = i2) =>
            N.parentIndex[q][k] = L.parentIndex[q][k]
  BY <1>3 DEF Swapped
<1>11. ASSUME NEW q \in Node, NEW k \in Index, N.parentIndex[q][k] # 0
       PROVE  EdgeHasEntry(N, ch2, q, k)
  <2>1. CASE q = p /\ k = i1
    <3>1. N.parents[c2][j2] = [parent |-> p, index |-> i1] /\ j2 <= Len(N.parents[c2])
      <4>1. Len(N.parents[c2]) = Len(L.parents[c2]) /\ Len(L.parents[c2]) \in Nat
        BY <1>2, <1>8
      <4>2. j2 <= Len(N.parents[c2])
        BY <4>1, <1>2
      <4> QED BY <4>2, <1>9
    <3>2. k <= Len(ch2[q]) /\ N.parentIndex[q][k] = j2 /\ Child[ch2[q][k]] = c2
      BY <2>1, <1>1, <1>7, <1>10
    <3> QED BY <2>1, <3>1, <3>2 DEF EdgeHasEntry
  <2>2. CASE q = p /\ k = i2
    <3>1. N.parents[c1][j1] = [parent |-> p, index |-> i2] /\ j1 <= Len(N.parents[c1])
      <4>1. Len(N.parents[c1]) = Len(L.parents[c1]) /\ Len(L.parents[c1]) \in Nat
        BY <1>1, <1>8
      <4>2. j1 <= Len(N.parents[c1])
        BY <4>1, <1>1
      <4> QED BY <4>2, <1>9
    <3>2. k <= Len(ch2[q]) /\ N.parentIndex[q][k] = j1 /\ Child[ch2[q][k]] = c1
      BY <2>2, <1>2, <1>7, <1>10
    <3> QED BY <2>2, <3>1, <3>2 DEF EdgeHasEntry
  <2>3. CASE ~(q = p /\ k = i1) /\ ~(q = p /\ k = i2)
    <3> DEFINE m == L.parentIndex[q][k]
               d == Child[ch[q][k]]
    <3>1. N.parentIndex[q][k] = m /\ m # 0
      BY <2>3, <1>10, <1>11
    <3>2. /\ k <= Len(ch[q]) /\ d \in Node /\ m \in 1 .. Len(L.parents[d])
          /\ L.parents[d][m] = [parent |-> q, index |-> k]
      BY <3>1, <1>4
    <3>3. ch2[q][k] = ch[q][k] /\ k <= Len(ch2[q])
      BY <2>3, <3>2
    <3>4. Child[ch2[q][k]] = d
      BY <3>3
    <3> HIDE DEF m, d
    <3>5. ~(d = c1 /\ m = j1) /\ ~(d = c2 /\ m = j2)
      BY <3>2, <2>3, <1>1, <1>2
    <3>6. N.parents[d][m] = [parent |-> q, index |-> k] /\ m <= Len(N.parents[d])
      <4>1. Len(N.parents[d]) = Len(L.parents[d]) /\ Len(L.parents[d]) \in Nat
        BY <3>2, <1>8
      <4>2. N.parents[d][m] = L.parents[d][m]
        BY <3>2, <3>5, <1>9
      <4> QED BY <4>1, <4>2, <3>2
    <3> QED BY <3>1, <3>3, <3>4, <3>6 DEF EdgeHasEntry
  <2> QED BY <2>1, <2>2, <2>3
<1>12. ASSUME NEW d \in Node, NEW m \in 1 .. Len(N.parents[d])
       PROVE  EntryHasEdge(N, ch2, d, m)
  <2>1. m \in 1 .. Len(L.parents[d])
    BY <1>8
  <2>2. CASE d = c1 /\ m = j1
    <3>1. N.parents[d][m].parent = p /\ N.parents[d][m].index = i2
      <4>1. N.parents[d][m] = [parent |-> p, index |-> i2]
        BY <2>2, <1>9
      <4> QED BY <4>1
    <3>2. N.parentIndex[p][i2] = m /\ i2 <= Len(ch2[p]) /\ Child[ch2[p][i2]] = d
      BY <2>2, <1>2, <1>7, <1>10
    <3> QED BY <3>1, <3>2 DEF EntryHasEdge
  <2>3. CASE d = c2 /\ m = j2
    <3>1. N.parents[d][m].parent = p /\ N.parents[d][m].index = i1
      <4>1. N.parents[d][m] = [parent |-> p, index |-> i1]
        BY <2>3, <1>9
      <4> QED BY <4>1
    <3>2. N.parentIndex[p][i1] = m /\ i1 <= Len(ch2[p]) /\ Child[ch2[p][i1]] = d
      BY <2>3, <1>1, <1>7, <1>10
    <3> QED BY <3>1, <3>2 DEF EntryHasEdge
  <2>4. CASE ~(d = c1 /\ m = j1) /\ ~(d = c2 /\ m = j2)
    <3> DEFINE entry == L.parents[d][m]
    <3>1. N.parents[d][m] = entry
      BY <2>1, <2>4, <1>9
    <3>2. EntryHasEdge(L, ch, d, m) /\ entry.parent \in Node /\ entry.index \in Index
      BY <2>1, <1>5
    <3>3. /\ L.parentIndex[entry.parent][entry.index] = m
          /\ entry.index <= Len(ch[entry.parent])
          /\ Child[ch[entry.parent][entry.index]] = d
      BY <3>2 DEF EntryHasEdge
    <3> HIDE DEF entry
    <3>4. ~(entry.parent = p /\ entry.index = i1) /\ ~(entry.parent = p /\ entry.index = i2)
      BY <2>4, <3>3 DEF j1, j2, c1, c2
    <3>5. N.parentIndex[entry.parent][entry.index] = m
      BY <3>2, <3>3, <3>4, <1>10
    <3>6. /\ ch2[entry.parent][entry.index] = ch[entry.parent][entry.index]
          /\ Len(ch2[entry.parent]) = Len(ch[entry.parent])
      BY <3>2, <3>3, <3>4
    <3> QED BY <3>1, <3>3, <3>5, <3>6 DEF EntryHasEdge
  <2> QED BY <2>2, <2>3, <2>4
<1>13. ASSUME NEW q \in Node, NEW k \in Index
       PROVE  N.parentIndex[q][k] # 0 <=> L.parentIndex[q][k] # 0
  <2>1. CASE q = p /\ k = i1
    BY <2>1, <1>6, <1>10
  <2>2. CASE q = p /\ k = i2
    BY <2>2, <1>6, <1>10
  <2>3. CASE ~(q = p /\ k = i1) /\ ~(q = p /\ k = i2)
    BY <2>3, <1>10
  <2> QED BY <2>1, <2>2, <2>3
<1>14. ASSUME NEW d \in Node
       PROVE  N.parents[d] = <<>> <=> L.parents[d] = <<>>
  <2>1. N.parents[d] \in Seq(Link) /\ L.parents[d] \in Seq(Link)
    BY <1>3 DEF LinksType
  <2>2. Len(N.parents[d]) = Len(L.parents[d])
    BY <1>8
  <2> QED BY <2>1, <2>2
<1> QED BY <1>3, <1>11, <1>12, <1>13, <1>14 DEF Agree, SameLinked, N, c1, c2
-----------------------------------------------------------------------------
(***************************************************************************)
(* LinksAgree, EdgeIndicesAgree and LinkedWhenNecessary hold in every      *)
(* state of ParentLinks, for any nodes, edges and number of children.      *)
(***************************************************************************)

(***************************************************************************)
(* The inductive invariant.  In the middle of a call LinkedWhenNecessary   *)
(* does not hold; what does is that each loop on the stack has linked, or  *)
(* unlinked, the children that it has seen and no other, that all of them  *)
(* do the same and for different nodes, and that the nodes without a loop  *)
(* are as LinkedWhenNecessary says.  N is the set of necessary nodes; the  *)
(* nodes of X are left out.                                                *)
(***************************************************************************)
On(S, n) == \E k \in 1 .. Len(S) : S[k].node = n

FrameOK(f, L, ch, val, N) ==
  /\ 1 <= f.next /\ f.next <= Len(ch[f.node]) + 1
  /\ f.op = "link" => val[f.node] /\ f.node \in N
  /\ f.op = "unlink" /\ val[f.node] => f.node \notin N
  /\ \A i \in 1 .. Len(ch[f.node]) :
       L.parentIndex[f.node][i] # 0 <=> (f.op = "link" <=> i < f.next)

RestOK(n, L, ch, val, N) ==
  \A i \in 1 .. Len(ch[n]) : L.parentIndex[n][i] # 0 <=> val[n] /\ n \in N

LoopsAgree(X, S, L, ch, val, N) ==
  /\ \A k \in 1 .. Len(S) : FrameOK(S[k], L, ch, val, N)
  /\ \A k, l \in 1 .. Len(S) : S[k].op = S[l].op /\ (S[k].node = S[l].node => k = l)
  /\ \A n \in Node \ X : ~On(S, n) => RestOK(n, L, ch, val, N)

NecessaryNodes == {n \in Node : Necessary(n)}

ChildrenInv ==
  /\ \A n \in Node : Len(children[n]) <= MaxChildren
  /\ \A b \in BindMain : Len(children[b]) \in {1, 2}

IInv ==
  /\ TypeOK
  /\ ChildrenInv
  /\ EdgeIndicesAgree
  /\ Agree(links, children)
  /\ LoopsAgree({}, stack, links, children, valid, NecessaryNodes)
-----------------------------------------------------------------------------
(***************************************************************************)
(* The stack of loops.                                                     *)
(***************************************************************************)
LEMMA FrameTypes ==
  ASSUME NEW S \in Seq(Frame), NEW k \in 1 .. Len(S)
  PROVE  /\ S[k] \in Frame /\ S[k].op \in {"link", "unlink"}
         /\ S[k].node \in Node /\ S[k].next \in Nat
<1>1. S[k] \in Frame
  OBVIOUS
<1> QED BY <1>1 DEF Frame

\* Without a loop, LoopsAgree says what each node's links are.
LEMMA NoLoops ==
  ASSUME NEW L, NEW ch, NEW val, NEW N, NEW X
  PROVE  LoopsAgree(X, <<>>, L, ch, val, N) <=> \A n \in Node \ X : RestOK(n, L, ch, val, N)
<1>1. Len(<<>>) = 0 /\ 1 .. 0 = {}
  OBVIOUS
<1>2. \A n : ~On(<<>>, n)
  BY <1>1 DEF On
<1> QED BY <1>1, <1>2 DEF LoopsAgree

\* A node that was left out is back in when it has a loop or its links are right.
LEMMA NothingToEnter ==
  ASSUME NEW S, NEW L, NEW ch, NEW val, NEW N, NEW c,
         LoopsAgree({c}, S, L, ch, val, N),
         On(S, c) \/ RestOK(c, L, ch, val, N)
  PROVE  LoopsAgree({}, S, L, ch, val, N)
BY DEF LoopsAgree

\* A new innermost loop for the node that was left out.
LEMMA PushAgrees ==
  ASSUME NEW S \in Seq(Frame), NEW L, NEW ch, NEW val, NEW N, NEW f \in Frame,
         LoopsAgree({f.node}, S, L, ch, val, N),
         \A k \in 1 .. Len(S) : S[k].op = f.op,
         ~On(S, f.node),
         FrameOK(f, L, ch, val, N)
  PROVE  Append(S, f) \in Seq(Frame) /\ LoopsAgree({}, Append(S, f), L, ch, val, N)
<1> DEFINE c == f.node
           T == Append(S, f)
           n == Len(S) + 1
<1>1. f.node = c
  OBVIOUS
<1>2. Len(S) \in Nat
  OBVIOUS
<1> HIDE DEF c
<1>3. /\ T \in Seq(Frame) /\ Len(T) = n /\ T[n] = f
      /\ \A k \in 1 .. Len(S) : T[k] = S[k]
  BY <1>1
<1> HIDE DEF T
<1>4. \A k \in 1 .. n : k = n \/ k \in 1 .. Len(S)
  BY <1>2
<1>5. n \in 1 .. n /\ \A k \in 1 .. Len(S) : k \in 1 .. n
  BY <1>2
<1>6. ASSUME NEW k \in 1 .. n PROVE FrameOK(T[k], L, ch, val, N)
  <2>1. CASE k = n
    BY <2>1, <1>3
  <2>2. CASE k \in 1 .. Len(S)
    BY <2>2, <1>3 DEF LoopsAgree
  <2> QED BY <2>1, <2>2, <1>4
<1>7. ASSUME NEW k \in 1 .. n, NEW l \in 1 .. n
      PROVE  T[k].op = T[l].op /\ (T[k].node = T[l].node => k = l)
  <2>1. CASE k = n /\ l = n
    BY <2>1
  <2>2. CASE k = n /\ l \in 1 .. Len(S)
    BY <2>2, <1>3 DEF On
  <2>3. CASE k \in 1 .. Len(S) /\ l = n
    BY <2>3, <1>3 DEF On
  <2>4. CASE k \in 1 .. Len(S) /\ l \in 1 .. Len(S)
    BY <2>4, <1>3 DEF LoopsAgree
  <2> QED BY <2>1, <2>2, <2>3, <2>4, <1>4
<1>8. ASSUME NEW m \in Node, ~On(T, m) PROVE RestOK(m, L, ch, val, N)
  <2>1. m # c
    BY <1>1, <1>3, <1>5, <1>8 DEF On
  <2>2. ~On(S, m)
    BY <1>3, <1>5, <1>8 DEF On
  <2> QED BY <2>1, <2>2 DEF LoopsAgree, c
<1>9. LoopsAgree({}, T, L, ch, val, N)
  BY <1>3, <1>6, <1>7, <1>8 DEF LoopsAgree
<1> QED BY <1>3, <1>9 DEF T

\* One turn of the innermost loop, of node p and at its child i: c's links are
\* L and then L2, and the necessary nodes N and then N2.
Turn(S, p, i, L, L2, ch, N, N2, c) ==
  /\ S # <<>>
  /\ p = S[Len(S)].node
  /\ i = S[Len(S)].next
  /\ i <= Len(ch[p])
  /\ \A q \in Node, k \in Index : ~(q = p /\ k = i) =>
       (L2.parentIndex[q][k] # 0 <=> L.parentIndex[q][k] # 0)
  /\ L2.parentIndex[p][i] # 0 <=> S[Len(S)].op = "link"
  /\ \A d \in Node : d # c => (d \in N2 <=> d \in N)
  /\ S[Len(S)].op = "link" => c \in N2
  /\ S[Len(S)].op = "unlink" => (c \in N2 => c \in N)

NextTurn(S) == [S EXCEPT ![Len(S)].next = @ + 1]

\* A child of the innermost loop's node has been linked or unlinked; it is left out.
LEMMA AdvanceAgrees ==
  ASSUME NEW S \in Seq(Frame), NEW L, NEW L2, NEW ch, NEW val, NEW N, NEW N2, NEW c,
         ChildrenType(ch), \A n \in Node : Len(ch[n]) <= MaxChildren,
         NEW p, NEW i, Turn(S, p, i, L, L2, ch, N, N2, c),
         LoopsAgree({}, S, L, ch, val, N)
  PROVE  /\ NextTurn(S) \in Seq(Frame) /\ Len(NextTurn(S)) = Len(S)
         /\ \A k \in 1 .. Len(S) : NextTurn(S)[k].op = S[Len(S)].op
         /\ \A m \in Node : On(NextTurn(S), m) <=> On(S, m)
         /\ On(S, p)
         /\ LoopsAgree({c}, NextTurn(S), L2, ch, val, N2)
<1> DEFINE D == Len(S)
           f == [S[D] EXCEPT !.next = @ + 1]
           T == NextTurn(S)
<1> USE DEF Turn
<1>1. D \in Nat /\ D \in 1 .. Len(S)
  OBVIOUS
<1>2. /\ S[D] \in Frame /\ S[D].op \in {"link", "unlink"}
      /\ p = S[D].node /\ p \in Node /\ i = S[D].next /\ i \in Nat
  BY <1>1, FrameTypes
<1>3. f \in Frame /\ f.op = S[D].op /\ f.node = p /\ f.next = i + 1
  BY <1>2 DEF Frame
<1>4. T = [S EXCEPT ![D] = f]
  BY DEF NextTurn
<1> HIDE DEF f, D, T
<1>5. /\ T \in Seq(Frame) /\ Len(T) = Len(S) /\ T[D] = f
      /\ \A k \in 1 .. Len(S) : k # D => T[k] = S[k]
  BY <1>1, <1>3, <1>4
<1>6. \A k \in 1 .. Len(S) : T[k].op = S[k].op /\ T[k].node = S[k].node
  <2> TAKE k \in 1 .. Len(S)
  <2>1. CASE k = D
    BY <2>1, <1>2, <1>3, <1>5
  <2>2. CASE k # D
    BY <2>2, <1>5
  <2> QED BY <2>1, <2>2
<1>7. \A k, l \in 1 .. Len(S) : S[k].op = S[l].op /\ (S[k].node = S[l].node => k = l)
  BY DEF LoopsAgree
<1>8. \A k \in 1 .. Len(S) : S[k].op = S[D].op
  BY <1>1, <1>7
<1>9. \A k \in 1 .. Len(S) : FrameOK(S[k], L, ch, val, N)
  BY DEF LoopsAgree
<1>10. \A m \in Node : \A k \in 1 .. Len(ch[m]) : k \in Index
  <2> TAKE m \in Node
  <2>1. Len(ch[m]) \in Nat /\ Len(ch[m]) <= MaxChildren /\ MaxChildren \in Nat
    BY ChildrenAssumption DEF ChildrenType
  <2> QED BY <2>1 DEF Index
<1>11. ASSUME NEW k \in 1 .. Len(S) PROVE FrameOK(T[k], L2, ch, val, N2)
  <2> DEFINE m == S[k].node
  <2>1. m \in Node /\ S[k].op \in {"link", "unlink"} /\ S[k].next \in Nat
    BY FrameTypes
  <2>2. FrameOK(S[k], L, ch, val, N) /\ S[k].op = S[D].op
    BY <1>8, <1>9
  <2>3. Len(ch[m]) \in Nat
    BY <2>1 DEF ChildrenType
  <2>4. S[k].op = "link" => val[m] /\ m \in N2
    BY <2>1, <2>2 DEF FrameOK, D
  <2>5. S[k].op = "unlink" /\ val[m] => m \notin N2
    BY <2>1, <2>2 DEF FrameOK, D
  <2>6. CASE k = D
    <3>1. m = p /\ T[k] = f /\ S[k].next = i
      BY <2>6, <1>5 DEF D
    <3>2. 1 <= f.next /\ f.next <= Len(ch[m]) + 1
      BY <3>1, <2>3, <1>2, <1>3
    <3>3. ASSUME NEW j \in 1 .. Len(ch[p])
          PROVE  L2.parentIndex[p][j] # 0 <=> (f.op = "link" <=> j < f.next)
      <4>1. L.parentIndex[p][j] # 0 <=> (f.op = "link" <=> j < i)
        BY <2>2, <2>6, <3>1, <1>3 DEF FrameOK
      <4>2. j \in Index
        BY <1>2, <1>10
      <4>3. CASE j = i
        BY <4>3, <1>2, <1>3 DEF D
      <4>4. CASE j # i
        <5>1. L2.parentIndex[p][j] # 0 <=> L.parentIndex[p][j] # 0
          BY <4>2, <4>4, <1>2
        <5>2. j < i <=> j < f.next
          BY <4>4, <1>2, <1>3
        <5> QED BY <5>1, <5>2, <4>1
      <4> QED BY <4>3, <4>4
    <3> QED BY <3>1, <3>2, <3>3, <2>4, <2>5, <2>6, <1>3 DEF FrameOK
  <2>7. CASE k # D
    <3>1. T[k] = S[k] /\ m # p
      BY <2>7, <1>1, <1>5, <1>7 DEF D
    <3>2. ASSUME NEW j \in 1 .. Len(ch[m])
          PROVE  L2.parentIndex[m][j] # 0 <=> L.parentIndex[m][j] # 0
      BY <3>1, <2>1, <1>10
    <3> QED BY <3>1, <3>2, <2>2, <2>4, <2>5 DEF FrameOK
  <2> QED BY <2>6, <2>7
<1>12. \A m \in Node : On(T, m) <=> On(S, m)
  BY <1>5, <1>6 DEF On
<1>13. On(S, p)
  BY <1>1 DEF On, D
<1>14. ASSUME NEW m \in Node \ {c}, ~On(T, m) PROVE RestOK(m, L2, ch, val, N2)
  <2>1. ~On(S, m) /\ m # p
    BY <1>12, <1>13, <1>14
  <2>2. RestOK(m, L, ch, val, N)
    BY <2>1 DEF LoopsAgree
  <2>3. ASSUME NEW j \in 1 .. Len(ch[m])
        PROVE  L2.parentIndex[m][j] # 0 <=> L.parentIndex[m][j] # 0
    BY <2>1, <1>10
  <2>4. m \in N2 <=> m \in N
    BY <1>14
  <2> QED BY <2>2, <2>3, <2>4 DEF RestOK
<1>15. \A k, l \in 1 .. Len(S) : T[k].op = T[l].op /\ (T[k].node = T[l].node => k = l)
  BY <1>6, <1>7
<1>16. LoopsAgree({c}, T, L2, ch, val, N2)
  <2>1. Len(T) = Len(S)
    BY <1>5
  <2>2. \A k \in 1 .. Len(T) : FrameOK(T[k], L2, ch, val, N2)
    BY <2>1, <1>11
  <2>3. \A k, l \in 1 .. Len(T) : T[k].op = T[l].op /\ (T[k].node = T[l].node => k = l)
    BY <2>1, <1>15
  <2> QED BY <2>2, <2>3, <1>14 DEF LoopsAgree
<1>17. \A k \in 1 .. Len(S) : T[k].op = S[Len(S)].op
  BY <1>6, <1>8 DEF D
<1> QED BY <1>5, <1>12, <1>13, <1>16, <1>17 DEF T

\* became_necessary for a child c that has just been linked, if it was unnecessary.
LEMMA EnterLink ==
  ASSUME NEW S \in Seq(Frame), valid \in [Node -> BOOLEAN],
         NEW L, NEW ch, ChildrenType(ch), NEW N, NEW c \in Node, c \in N,
         LoopsAgree({c}, S, L, ch, valid, N),
         \A k \in 1 .. Len(S) : S[k].op = "link",
         Necessary(c) => On(S, c) \/ RestOK(c, L, ch, valid, N),
         ~Necessary(c) => ~On(S, c) /\ \A i \in 1 .. Len(ch[c]) : L.parentIndex[c][i] = 0
  PROVE  /\ EnterIfWasUnnecessary(S, c) \in Seq(Frame)
         /\ LoopsAgree({}, EnterIfWasUnnecessary(S, c), L, ch, valid, N)
<1>1. CASE Necessary(c)
  BY <1>1, NothingToEnter DEF EnterIfWasUnnecessary
<1>2. CASE ~Necessary(c) /\ ~valid[c]
  <2>1. RestOK(c, L, ch, valid, N)
    BY <1>2 DEF RestOK
  <2>2. EnterIfWasUnnecessary(S, c) = S
    BY <1>2 DEF EnterIfWasUnnecessary, Enter
  <2> QED BY <2>1, <2>2, NothingToEnter
<1>3. CASE ~Necessary(c) /\ valid[c]
  <2> DEFINE f == [op |-> "link", node |-> c, next |-> 1]
  <2>1. EnterIfWasUnnecessary(S, c) = Append(S, f)
    BY <1>3 DEF EnterIfWasUnnecessary, Enter
  <2>2. FrameOK(f, L, ch, valid, N)
    <3>1. Len(ch[c]) \in Nat
      BY DEF ChildrenType
    <3>2. \A i \in 1 .. Len(ch[c]) : ~(i < 1)
      BY <3>1
    <3>3. f.op = "link" /\ f.node = c /\ f.next = 1
      OBVIOUS
    <3> HIDE DEF f
    <3> QED BY <3>1, <3>2, <3>3, <1>3 DEF FrameOK
  <2>3. f \in Frame /\ f.op = "link" /\ f.node = c
    BY DEF Frame
  <2> HIDE DEF f
  <2>4. Append(S, f) \in Seq(Frame) /\ LoopsAgree({}, Append(S, f), L, ch, valid, N)
    BY <2>2, <2>3, <1>3, PushAgrees
  <2> QED BY <2>1, <2>4
<1> QED BY <1>1, <1>2, <1>3

\* became_unnecessary for a child c that has just been unlinked, if that was its last parent.
LEMMA EnterUnlink ==
  ASSUME NEW S \in Seq(Frame), valid \in [Node -> BOOLEAN],
         NEW L, NEW ch, ChildrenType(ch), NEW N, NEW c \in Node,
         c \in N <=> NecessaryIn(L, c),
         LoopsAgree({c}, S, L, ch, valid, N),
         \A k \in 1 .. Len(S) : S[k].op = "unlink",
         NecessaryIn(L, c) \/ ~valid[c] => On(S, c) \/ RestOK(c, L, ch, valid, N),
         ~NecessaryIn(L, c) /\ valid[c] =>
            ~On(S, c) /\ \A i \in 1 .. Len(ch[c]) : L.parentIndex[c][i] # 0
  PROVE  /\ EnterUnlessNecessary(S, L, c) \in Seq(Frame)
         /\ LoopsAgree({}, EnterUnlessNecessary(S, L, c), L, ch, valid, N)
<1>1. CASE NecessaryIn(L, c) \/ ~valid[c]
  <2>1. EnterUnlessNecessary(S, L, c) = S
    BY <1>1 DEF EnterUnlessNecessary, Enter
  <2> QED BY <1>1, <2>1, NothingToEnter
<1>2. CASE ~NecessaryIn(L, c) /\ valid[c]
  <2> DEFINE f == [op |-> "unlink", node |-> c, next |-> 1]
  <2>1. EnterUnlessNecessary(S, L, c) = Append(S, f)
    BY <1>2 DEF EnterUnlessNecessary, Enter
  <2>2. FrameOK(f, L, ch, valid, N)
    <3>1. Len(ch[c]) \in Nat
      BY DEF ChildrenType
    <3>2. \A i \in 1 .. Len(ch[c]) : ~(i < 1)
      BY <3>1
    <3>3. f.op = "unlink" /\ f.node = c /\ f.next = 1
      OBVIOUS
    <3> HIDE DEF f
    <3> QED BY <3>1, <3>2, <3>3, <1>2 DEF FrameOK
  <2>3. f \in Frame /\ f.op = "unlink" /\ f.node = c
    BY DEF Frame
  <2> HIDE DEF f
  <2>4. Append(S, f) \in Seq(Frame) /\ LoopsAgree({}, Append(S, f), L, ch, valid, N)
    BY <2>2, <2>3, <1>2, PushAgrees
  <2> QED BY <2>1, <2>4
<1> QED BY <1>1, <1>2

-----------------------------------------------------------------------------
(***************************************************************************)
(* The steps.                                                              *)
(***************************************************************************)
LEMMA InvFacts ==
  ASSUME IInv
  PROVE  /\ LinksType(links) /\ ChildrenType(children) /\ Agree(links, children)
         /\ valid \in [Node -> BOOLEAN] /\ stack \in Seq(Frame)
         /\ MaxChildren \in Nat
         /\ \A n \in Node : Len(children[n]) \in Nat /\ Len(children[n]) <= MaxChildren
         /\ \A n \in Node : \A k \in 1 .. Len(children[n]) : k \in Index
         /\ \A n \in Node, k \in Index : links.parentIndex[n][k] # 0 => k \in 1 .. Len(children[n])
<1>1. LinksType(links) /\ ChildrenType(children) /\ Agree(links, children) /\ MaxChildren \in Nat
  BY ChildrenAssumption DEF IInv, TypeOK, LinksType, ChildrenType
<1>2. \A n \in Node : Len(children[n]) \in Nat /\ Len(children[n]) <= MaxChildren
  BY <1>1 DEF ChildrenType, IInv, ChildrenInv
<1>3. \A n \in Node : \A k \in 1 .. Len(children[n]) : k \in Index
  <2> TAKE n \in Node
  <2>1. Len(children[n]) \in Nat /\ Len(children[n]) <= MaxChildren
    BY <1>2
  <2> QED BY <2>1, <1>1 DEF Index
<1>4. ASSUME NEW n \in Node, NEW k \in Index, links.parentIndex[n][k] # 0
      PROVE  k \in 1 .. Len(children[n])
  <2>1. k <= Len(children[n])
    BY <1>1, <1>4 DEF Agree, EdgeHasEntry
  <2> QED BY <2>1, <1>1, <1>2 DEF Index
<1> QED BY <1>1, <1>2, <1>3, <1>4 DEF IInv, TypeOK

\* Between calls there is no loop, and every node's links are right.
LEMMA IdleFacts ==
  ASSUME IInv, stack = <<>>
  PROVE  \A n \in Node : RestOK(n, links, children, valid, NecessaryNodes)
BY NoLoops DEF IInv

\* An edge's index is its place, and a place is one edge's.
LEMMA PlaceOfEdge ==
  ASSUME IInv, NEW n \in Node, NEW i \in 1 .. Len(children[n])
  PROVE  /\ children[n][i] \in Edge
         /\ Owner[children[n][i]] = n
         /\ edgeIndex[children[n][i]] = i
         /\ Child[children[n][i]] \in Node
<1>1. children[n] \in Seq(Edge)
  BY DEF IInv, TypeOK
<1>2. children[n][i] \in Edge /\ i \in DOMAIN children[n]
  BY <1>1
<1> QED BY <1>2, EdgeAssumption DEF IInv, EdgeIndicesAgree

LEMMA InitInv == Init => IInv
<1> SUFFICES ASSUME Init PROVE IInv
  OBVIOUS
<1> USE DEF Init
<1>1. /\ children \in [Node -> Seq(Edge)]
      /\ \A n \in Node : Len(children[n]) \in Nat /\ Len(children[n]) <= MaxChildren
      /\ MaxChildren \in Nat
  BY ChildrenAssumption
<1>2. ChildrenInv
  BY <1>1, ChildrenAssumption DEF ChildrenInv
<1>3. ASSUME NEW n \in Node, NEW i \in 1 .. Len(children[n])
      PROVE  /\ children[n][i] \in Edge /\ Owner[children[n][i]] = n
             /\ \A j \in 1 .. Len(children[n]) : children[n][j] = children[n][i] => j = i
  <2>1. children[n] \in Seq(Edge)
    BY <1>1
  <2> QED BY <2>1, ChildrenAssumption
<1>4. ASSUME NEW e \in Edge
      PROVE  /\ edgeIndex[e] # 0 => /\ edgeIndex[e] \in 1 .. Len(children[Owner[e]])
                                    /\ children[Owner[e]][edgeIndex[e]] = e
             /\ \A i \in 1 .. Len(children[Owner[e]]) :
                  children[Owner[e]][i] = e => edgeIndex[e] = i
  <2> DEFINE at == {i \in 1 .. Len(children[Owner[e]]) : children[Owner[e]][i] = e}
  <2>1. edgeIndex[e] = IF at = {} THEN 0 ELSE CHOOSE i \in at : TRUE
    OBVIOUS
  <2>2. CASE at = {}
    BY <2>1, <2>2
  <2>3. CASE at # {}
    <3>1. edgeIndex[e] \in at
      BY <2>1, <2>3
    <3>2. Owner[e] \in Node
      BY EdgeAssumption
    <3>3. /\ edgeIndex[e] \in 1 .. Len(children[Owner[e]])
          /\ children[Owner[e]][edgeIndex[e]] = e
      BY <3>1
    <3> HIDE DEF Init
    <3> QED BY <3>2, <3>3, <1>3
  <2> QED BY <2>2, <2>3
<1>5. edgeIndex \in [Edge -> 0 .. MaxChildren]
  <2>1. ASSUME NEW e \in Edge PROVE edgeIndex[e] \in 0 .. MaxChildren
    <3>1. Owner[e] \in Node
      BY EdgeAssumption
    <3>2. CASE edgeIndex[e] = 0
      BY <3>2, <1>1
    <3>3. CASE edgeIndex[e] # 0
      <4>1. edgeIndex[e] \in 1 .. Len(children[Owner[e]])
        BY <3>3, <1>4
      <4> HIDE DEF Init
      <4> QED BY <4>1, <3>1, <1>1
    <3> QED BY <3>2, <3>3
  <2> QED BY <2>1
<1>6. EdgeIndicesAgree
  <2>1. ASSUME NEW e \in Edge, edgeIndex[e] # 0
        PROVE  /\ edgeIndex[e] <= Len(children[Owner[e]])
               /\ children[Owner[e]][edgeIndex[e]] = e
    <3>1. Len(children[Owner[e]]) \in Nat
      BY <1>1, EdgeAssumption
    <3> HIDE DEF Init
    <3> QED BY <3>1, <2>1, <1>4
  <2>2. ASSUME NEW n \in Node, NEW i \in DOMAIN children[n]
        PROVE  Owner[children[n][i]] = n /\ edgeIndex[children[n][i]] = i
    <3>1. i \in 1 .. Len(children[n])
      BY <1>1
    <3> HIDE DEF Init
    <3> QED BY <3>1, <1>3, <1>4
  <2> QED BY <2>1, <2>2 DEF EdgeIndicesAgree
<1>7. /\ links.parents = [n \in Node |-> <<>>]
      /\ links.parentIndex = [n \in Node |-> [i \in Index |-> 0]]
  OBVIOUS
<1>8. stack = <<>> /\ observed = {} /\ forced = NoNode
      /\ valid = [n \in Node |-> TRUE] /\ panicked = FALSE
  OBVIOUS
<1> HIDE DEF Init
<1>9. /\ links.parents \in [Node -> Seq(Link)]
      /\ links.parentIndex \in [Node -> [Index -> Nat]]
  BY <1>7
<1>10. TypeOK
  <2>1. stack \in Seq(Frame) /\ observed \in SUBSET Node /\ forced \in Node \union {NoNode}
    BY <1>8
  <2>2. valid \in [Node -> BOOLEAN] /\ panicked \in BOOLEAN
    BY <1>8
  <2> QED BY <2>1, <2>2, <1>1, <1>5, <1>9 DEF TypeOK
<1>11. Agree(links, children)
  <2>1. \A n \in Node : Len(links.parents[n]) = 0
    BY <1>7
  <2>2. \A n \in Node, i \in Index : links.parentIndex[n][i] = 0
    BY <1>7
  <2>3. 1 .. 0 = {}
    OBVIOUS
  <2> QED BY <2>1, <2>2, <2>3 DEF Agree
<1>12. ASSUME NEW n \in Node PROVE RestOK(n, links, children, valid, NecessaryNodes)
  <2>1. n \notin NecessaryNodes
    BY <1>7, <1>8, KindAssumption DEF NecessaryNodes, Necessary, NecessaryIn
  <2>2. ASSUME NEW i \in 1 .. Len(children[n]) PROVE links.parentIndex[n][i] = 0
    <3>1. Len(children[n]) \in Nat /\ Len(children[n]) <= MaxChildren
      BY <1>1
    <3>2. i \in Index
      BY <3>1, <1>1 DEF Index
    <3> QED BY <3>2, <1>7
  <2> QED BY <2>1, <2>2 DEF RestOK
<1>13. LoopsAgree({}, stack, links, children, valid, NecessaryNodes)
  BY <1>8, <1>12, NoLoops
<1> QED BY <1>2, <1>6, <1>10, <1>11, <1>13 DEF IInv

\* What has to be shown of a step that changes no edge.
LEMMA SameEdges ==
  ASSUME IInv, UNCHANGED <<children, edgeIndex>>,
         LinksType(links'), Agree(links', children),
         observed' \in SUBSET Node, forced' \in Node \union {NoNode},
         valid' \in [Node -> BOOLEAN], stack' \in Seq(Frame), panicked' \in BOOLEAN,
         LoopsAgree({}, stack', links', children, valid', NecessaryNodes')
  PROVE  IInv'
<1>1. TypeOK'
  BY DEF IInv, TypeOK, LinksType
<1>2. ChildrenInv' /\ EdgeIndicesAgree'
  BY DEF IInv, ChildrenInv, EdgeIndicesAgree
<1>3. Agree(links', children') /\ LoopsAgree({}, stack', links', children', valid', NecessaryNodes')
  OBVIOUS
<1> QED BY <1>1, <1>2, <1>3 DEF IInv

\* Who is necessary after the step.
LEMMA NecessaryNext ==
  ASSUME NEW n \in Node
  PROVE  n \in NecessaryNodes' <=> links'.parents[n] # <<>> \/ n \in observed' \/ n = forced'
BY DEF NecessaryNodes, Necessary, NecessaryIn

LEMMA NecessaryNow ==
  ASSUME NEW n \in Node
  PROVE  /\ n \in NecessaryNodes <=> links.parents[n] # <<>> \/ n \in observed \/ n = forced
         /\ n \in NecessaryNodes <=> Necessary(n)
BY DEF NecessaryNodes, Necessary, NecessaryIn

LEMMA TopFacts ==
  ASSUME IInv, stack # <<>>
  PROVE  /\ Depth \in 1 .. Len(stack)
         /\ Top \in Frame /\ Top.op \in {"link", "unlink"} /\ Top.node \in Node /\ Top.next \in Nat
         /\ FrameOK(Top, links, children, valid, NecessaryNodes)
         /\ \A k \in 1 .. Len(stack) : stack[k].op = Top.op
         /\ \A k \in 1 .. Len(stack) : FrameOK(stack[k], links, children, valid, NecessaryNodes)
         /\ LoopsAgree({}, stack, links, children, valid, NecessaryNodes)
<1>1. stack \in Seq(Frame)
  BY InvFacts
<1>2. Depth \in 1 .. Len(stack)
  BY <1>1 DEF Depth
<1>3. /\ Top \in Frame /\ Top.op \in {"link", "unlink"} /\ Top.node \in Node /\ Top.next \in Nat
  BY <1>1, <1>2, FrameTypes DEF Top
<1>4. LoopsAgree({}, stack, links, children, valid, NecessaryNodes)
  BY DEF IInv
<1> QED BY <1>2, <1>3, <1>4 DEF LoopsAgree, Top

LEMMA LinkChildInv == IInv /\ LinkChild => IInv'
<1> SUFFICES ASSUME IInv, LinkChild PROVE IInv'
  OBVIOUS
<1> DEFINE p == Top.node
           i == Top.next
           c == Child[children[p][i]]
           L2 == links'
           N2 == NecessaryNodes'
<1>1. /\ stack # <<>> /\ Top.op = "link" /\ i <= Len(children[p])
      /\ L2 = AddParent(links, c, i, p)
      /\ stack' = EnterIfWasUnnecessary(Advanced, c)
      /\ UNCHANGED <<children, edgeIndex, observed, forced, valid, panicked>>
  BY DEF LinkChild
<1>2. /\ LinksType(links) /\ ChildrenType(children) /\ Agree(links, children)
      /\ valid \in [Node -> BOOLEAN] /\ stack \in Seq(Frame)
      /\ \A n \in Node : Len(children[n]) \in Nat /\ Len(children[n]) <= MaxChildren
      /\ \A n \in Node : \A k \in 1 .. Len(children[n]) : k \in Index
  BY InvFacts
<1>3. /\ p \in Node /\ i \in Nat
      /\ FrameOK(Top, links, children, valid, NecessaryNodes)
      /\ \A k \in 1 .. Len(stack) : stack[k].op = "link"
      /\ \A k \in 1 .. Len(stack) : FrameOK(stack[k], links, children, valid, NecessaryNodes)
      /\ LoopsAgree({}, stack, links, children, valid, NecessaryNodes)
  BY <1>1, TopFacts
<1>4. i \in 1 .. Len(children[p]) /\ i \in Index
  BY <1>1, <1>2, <1>3 DEF FrameOK
<1>5. c \in Node /\ links.parentIndex[p][i] = 0
  BY <1>1, <1>2, <1>3, <1>4, ChildIsNode DEF FrameOK
<1> HIDE DEF L2, c
<1>6. /\ LinksType(L2) /\ L2.parents[c] # <<>> /\ L2.parentIndex[p][i] # 0
      /\ \A d \in Node : d # c => L2.parents[d] = links.parents[d]
      /\ \A q \in Node, k \in Index : ~(q = p /\ k = i) =>
           L2.parentIndex[q][k] = links.parentIndex[q][k]
  <2>1. L2 = AddParent(links, c, i, p)
    BY <1>1
  <2>2. LinksType(links) /\ p \in Node /\ i \in Index /\ c \in Node
    BY <1>2, <1>3, <1>4, <1>5
  <2> HIDE DEF p, i
  <2>3. LinksType(L2) /\ Added(links, L2, c, p, i)
    BY <2>1, <2>2, AddParentAdds
  <2> QED BY <2>3 DEF Added
<1>7. Agree(L2, children)
  BY <1>1, <1>2, <1>3, <1>4, <1>5, AddParentAgrees DEF c
<1>8. c \in N2 /\ \A d \in Node : d # c => (d \in N2 <=> d \in NecessaryNodes)
  BY <1>1, <1>5, <1>6, NecessaryNext, NecessaryNow DEF L2
<1> HIDE DEF N2
<1>9. /\ Advanced \in Seq(Frame) /\ Len(Advanced) = Len(stack)
      /\ \A k \in 1 .. Len(stack) : Advanced[k].op = "link"
      /\ \A m \in Node : On(Advanced, m) <=> On(stack, m)
      /\ On(stack, p)
      /\ LoopsAgree({c}, Advanced, L2, children, valid, N2)
  <2>1. Advanced = NextTurn(stack)
    BY DEF Advanced, Depth, NextTurn
  <2>2. p = stack[Len(stack)].node /\ i = stack[Len(stack)].next /\ stack[Len(stack)].op = "link"
    BY <1>1 DEF Top, Depth
  <2> HIDE DEF p, i
  <2>3. Turn(stack, p, i, links, L2, children, NecessaryNodes, N2, c)
    BY <2>2, <1>1, <1>6, <1>8 DEF Turn
  <2> QED BY <2>1, <2>2, <2>3, <1>2, <1>3, AdvanceAgrees
<1>10. ASSUME NEW k \in 1 .. Len(children[c]), c # p
       PROVE  L2.parentIndex[c][k] = links.parentIndex[c][k]
  BY <1>2, <1>5, <1>6, <1>10
<1>11. ~On(stack, c) => c # p /\ RestOK(c, links, children, valid, NecessaryNodes)
  BY <1>3, <1>5, <1>9 DEF LoopsAgree
<1>12. Necessary(c) => On(Advanced, c) \/ RestOK(c, L2, children, valid, N2)
  BY <1>5, <1>8, <1>9, <1>10, <1>11, NecessaryNow DEF RestOK
<1>13. ~Necessary(c) => /\ ~On(Advanced, c)
                        /\ \A k \in 1 .. Len(children[c]) : L2.parentIndex[c][k] = 0
  <2>1. ASSUME ~Necessary(c) PROVE ~On(stack, c)
    BY <2>1, <1>3, <1>5, NecessaryNow DEF On, FrameOK
  <2> QED BY <2>1, <1>5, <1>9, <1>10, <1>11, NecessaryNow DEF RestOK
<1>14. /\ stack' \in Seq(Frame)
       /\ LoopsAgree({}, stack', L2, children, valid, N2)
  BY <1>1, <1>2, <1>5, <1>8, <1>9, <1>12, <1>13, EnterLink
<1> QED BY <1>1, <1>6, <1>7, <1>14, SameEdges DEF L2, N2, IInv, TypeOK

LEMMA UnlinkChildInv == IInv /\ UnlinkChild => IInv'
<1> SUFFICES ASSUME IInv, UnlinkChild PROVE IInv'
  OBVIOUS
<1> DEFINE p == Top.node
           i == Top.next
           c == Child[children[p][i]]
           L2 == links'
           N2 == NecessaryNodes'
<1>1. /\ stack # <<>> /\ Top.op = "unlink" /\ i <= Len(children[p])
      /\ L2 = RemoveParent(links, c, i, p)
      /\ stack' = EnterUnlessNecessary(Advanced, L2, c)
      /\ UNCHANGED <<children, edgeIndex, observed, forced, valid, panicked>>
  BY DEF UnlinkChild
<1>2. /\ LinksType(links) /\ ChildrenType(children) /\ Agree(links, children)
      /\ valid \in [Node -> BOOLEAN] /\ stack \in Seq(Frame)
      /\ \A n \in Node : Len(children[n]) \in Nat /\ Len(children[n]) <= MaxChildren
      /\ \A n \in Node : \A k \in 1 .. Len(children[n]) : k \in Index
  BY InvFacts
<1>3. /\ p \in Node /\ i \in Nat
      /\ FrameOK(Top, links, children, valid, NecessaryNodes)
      /\ \A k \in 1 .. Len(stack) : stack[k].op = "unlink"
      /\ \A k \in 1 .. Len(stack) : FrameOK(stack[k], links, children, valid, NecessaryNodes)
      /\ LoopsAgree({}, stack, links, children, valid, NecessaryNodes)
  BY <1>1, TopFacts
<1>4. i \in 1 .. Len(children[p]) /\ i \in Index
  BY <1>1, <1>2, <1>3 DEF FrameOK
<1>5. c \in Node /\ links.parentIndex[p][i] # 0
  <2>1. links.parentIndex[p][i] # 0 <=> (Top.op = "link" <=> i < i)
    BY <1>3, <1>4 DEF FrameOK
  <2>2. ~(i < i)
    BY <1>3
  <2> QED BY <2>1, <2>2, <1>1, <1>2, <1>3, <1>4, ChildIsNode
<1> HIDE DEF L2
<1>6. /\ LinksType(L2) /\ L2.parentIndex[p][i] = 0
      /\ links.parents[c] # <<>>
      /\ \A d \in Node : d # c => L2.parents[d] = links.parents[d]
      /\ \A q \in Node, k \in Index : ~(q = p /\ k = i) =>
           (L2.parentIndex[q][k] # 0 <=> links.parentIndex[q][k] # 0)
  <2> HIDE DEF p, i
  <2>1. L2 = RemoveParent(links, Child[children[p][i]], i, p)
    BY <1>1
  <2> QED BY <2>1, <1>2, <1>3, <1>4, <1>5, LinkedAfterRemove
<1>7. Agree(L2, children)
  <2>1. Agree(RemoveParent(links, Child[children[p][i]], i, p), children)
    BY <1>2, <1>3, <1>4, <1>5, RemoveParentAgrees
  <2> QED BY <2>1, <1>1
<1> HIDE DEF c
<1>8. /\ c \in N2 => c \in NecessaryNodes
      /\ c \in NecessaryNodes
      /\ c \in N2 <=> NecessaryIn(L2, c)
      /\ \A d \in Node : d # c => (d \in N2 <=> d \in NecessaryNodes)
  BY <1>1, <1>5, <1>6, NecessaryNext, NecessaryNow DEF L2, NecessaryIn
<1> HIDE DEF N2
<1>9. /\ Advanced \in Seq(Frame) /\ Len(Advanced) = Len(stack)
      /\ \A k \in 1 .. Len(stack) : Advanced[k].op = "unlink"
      /\ \A m \in Node : On(Advanced, m) <=> On(stack, m)
      /\ On(stack, p)
      /\ LoopsAgree({c}, Advanced, L2, children, valid, N2)
  <2>1. Advanced = NextTurn(stack)
    BY DEF Advanced, Depth, NextTurn
  <2>2. p = stack[Len(stack)].node /\ i = stack[Len(stack)].next /\ stack[Len(stack)].op = "unlink"
    BY <1>1 DEF Top, Depth
  <2> HIDE DEF p, i
  <2>3. Turn(stack, p, i, links, L2, children, NecessaryNodes, N2, c)
    BY <2>2, <1>1, <1>6, <1>8 DEF Turn
  <2> QED BY <2>1, <2>2, <2>3, <1>2, <1>3, AdvanceAgrees
<1>10. ASSUME NEW k \in 1 .. Len(children[c]), c # p
       PROVE  L2.parentIndex[c][k] # 0 <=> links.parentIndex[c][k] # 0
  BY <1>2, <1>5, <1>6, <1>10
<1>11. ~On(stack, c) => c # p /\ RestOK(c, links, children, valid, NecessaryNodes)
  BY <1>3, <1>5, <1>9 DEF LoopsAgree
<1>12. NecessaryIn(L2, c) \/ ~valid[c] => On(Advanced, c) \/ RestOK(c, L2, children, valid, N2)
  BY <1>5, <1>8, <1>9, <1>10, <1>11 DEF RestOK
<1>13. ~NecessaryIn(L2, c) /\ valid[c] =>
         ~On(Advanced, c) /\ \A k \in 1 .. Len(children[c]) : L2.parentIndex[c][k] # 0
  <2>1. ASSUME valid[c] PROVE ~On(stack, c)
    BY <2>1, <1>3, <1>8 DEF On, FrameOK
  <2> QED BY <2>1, <1>5, <1>8, <1>9, <1>10, <1>11 DEF RestOK
<1>14. /\ stack' \in Seq(Frame)
       /\ LoopsAgree({}, stack', L2, children, valid, N2)
  BY <1>1, <1>2, <1>5, <1>8, <1>9, <1>12, <1>13, EnterUnlink
<1> QED BY <1>1, <1>6, <1>7, <1>14, SameEdges DEF L2, N2, IInv, TypeOK

LEMMA LoopEndsInv == IInv /\ LoopEnds => IInv'
<1> SUFFICES ASSUME IInv, LoopEnds PROVE IInv'
  OBVIOUS
<1> DEFINE N2 == NecessaryNodes'
           T == stack'
           n == Len(stack) - 1
<1>1. /\ stack # <<>> /\ Top.next > Len(children[Top.node])
      /\ T = SubSeq(stack, 1, n)
      /\ UNCHANGED <<children, edgeIndex, links, observed, forced, valid, panicked>>
  BY DEF LoopEnds, Depth
<1>2. /\ LinksType(links) /\ Agree(links, children)
      /\ stack \in Seq(Frame)
      /\ \A m \in Node : Len(children[m]) \in Nat
  BY InvFacts
<1>3. /\ Top.node \in Node /\ Top.next \in Nat /\ Top.op \in {"link", "unlink"}
      /\ FrameOK(Top, links, children, valid, NecessaryNodes)
      /\ LoopsAgree({}, stack, links, children, valid, NecessaryNodes)
      /\ Depth \in 1 .. Len(stack)
  BY <1>1, TopFacts
<1>4. N2 = NecessaryNodes
  BY <1>1 DEF NecessaryNodes, Necessary, NecessaryIn
<1>5. Len(stack) \in Nat /\ n \in Nat /\ n + 1 = Len(stack)
  BY <1>2, <1>3
<1> HIDE DEF T, n
<1>6. T \in Seq(Frame) /\ Len(T) = n /\ \A k \in 1 .. n : T[k] = stack[k] /\ k \in 1 .. Len(stack)
  <2>1. \A k \in 1 .. n : stack[k] \in Frame /\ k \in 1 .. Len(stack)
    BY <1>2, <1>5
  <2>2. /\ SubSeq(stack, 1, n) \in Seq(Frame)
        /\ Len(SubSeq(stack, 1, n)) = IF 1 <= n THEN n - 1 + 1 ELSE 0
        /\ \A k \in 1 .. n - 1 + 1 : SubSeq(stack, 1, n)[k] = stack[1 + k - 1]
    BY <2>1, <1>5, SubSeqProperties
  <2> QED BY <2>1, <2>2, <1>1, <1>5
<1>7. RestOK(Top.node, links, children, valid, NecessaryNodes)
  <2>1. ASSUME NEW k \in 1 .. Len(children[Top.node])
        PROVE  links.parentIndex[Top.node][k] # 0 <=> Top.op = "link"
    <3>1. k < Top.next
      BY <1>1, <1>2, <1>3
    <3> QED BY <3>1, <1>3 DEF FrameOK
  <2> QED BY <2>1, <1>3 DEF RestOK, FrameOK
<1>8. ASSUME NEW m \in Node, ~On(T, m) PROVE RestOK(m, links, children, valid, NecessaryNodes)
  <2>1. CASE On(stack, m)
    <3>1. PICK k \in 1 .. Len(stack) : stack[k].node = m
      BY <2>1 DEF On
    <3>2. k \notin 1 .. n
      BY <3>1, <1>6, <1>8 DEF On
    <3>3. k = Depth
      BY <3>2, <1>5 DEF Depth
    <3> QED BY <3>1, <3>3, <1>7 DEF Top
  <2>2. CASE ~On(stack, m)
    BY <2>2, <1>3 DEF LoopsAgree
  <2> QED BY <2>1, <2>2
<1>9. LoopsAgree({}, T, links, children, valid, NecessaryNodes)
  <2>1. \A k \in 1 .. Len(T) : FrameOK(T[k], links, children, valid, NecessaryNodes)
    BY <1>3, <1>6 DEF LoopsAgree
  <2>2. \A k, l \in 1 .. Len(T) : T[k].op = T[l].op /\ (T[k].node = T[l].node => k = l)
    BY <1>3, <1>6 DEF LoopsAgree
  <2> QED BY <2>1, <2>2, <1>8 DEF LoopsAgree
<1> QED BY <1>1, <1>2, <1>4, <1>6, <1>9, SameEdges DEF T, N2, IInv, TypeOK

\* Calls begin with no loop running; then all but one node's links are already right.
LEMMA IdleBut ==
  ASSUME IInv, stack = <<>>, NEW N, NEW c,
         \A d \in Node : d # c => (d \in N <=> d \in NecessaryNodes)
  PROVE  /\ LoopsAgree({c}, <<>>, links, children, valid, N)
         /\ \A k \in 1 .. Len(stack) : FALSE
         /\ \A n : ~On(stack, n)
<1>1. \A n \in Node : RestOK(n, links, children, valid, NecessaryNodes)
  BY IdleFacts
<1>2. \A n \in Node \ {c} : RestOK(n, links, children, valid, N)
  BY <1>1 DEF RestOK
<1>3. Len(stack) = 0 /\ 1 .. 0 = {}
  OBVIOUS
<1> QED BY <1>2, <1>3, NoLoops DEF On

LEMMA EmptyStack == <<>> \in Seq(Frame)
OBVIOUS

LEMMA ObserveInv == ASSUME IInv, NEW n \in Node, Observe(n) PROVE IInv'
<1> DEFINE N2 == NecessaryNodes'
<1>1. /\ stack = <<>> /\ observed' = observed \union {n}
      /\ stack' = EnterIfWasUnnecessary(stack, n)
      /\ UNCHANGED <<children, edgeIndex, links, forced, valid, panicked>>
  BY DEF Observe, Idle
<1>2. /\ LinksType(links) /\ ChildrenType(children) /\ Agree(links, children)
      /\ valid \in [Node -> BOOLEAN]
  BY InvFacts
<1>3. n \in N2 /\ \A d \in Node : d # n => (d \in N2 <=> d \in NecessaryNodes)
  BY <1>1, NecessaryNext, NecessaryNow
<1> HIDE DEF N2
<1>4. LoopsAgree({n}, stack, links, children, valid, N2) /\ (\A m : ~On(stack, m))
      /\ \A k \in 1 .. Len(stack) : FALSE
  BY <1>1, <1>3, IdleBut
<1>5. RestOK(n, links, children, valid, NecessaryNodes)
  BY <1>1, IdleFacts
<1>6. Necessary(n) => RestOK(n, links, children, valid, N2)
  BY <1>3, <1>5, NecessaryNow DEF RestOK
<1>7. ~Necessary(n) => \A k \in 1 .. Len(children[n]) : links.parentIndex[n][k] = 0
  BY <1>5, NecessaryNow DEF RestOK
<1>8. /\ stack' \in Seq(Frame)
      /\ LoopsAgree({}, stack', links, children, valid, N2)
  BY <1>1, <1>2, <1>3, <1>4, <1>6, <1>7, EmptyStack, EnterLink
<1>9. observed' \in SUBSET Node
  BY <1>1 DEF IInv, TypeOK
<1> QED BY <1>1, <1>2, <1>8, <1>9, SameEdges DEF N2, IInv, TypeOK

\* A node that is no longer necessary lets go of its children, if it is valid.
LEMMA LetGo ==
  ASSUME IInv, stack = <<>>, NEW n \in Node, NEW N,
         \A d \in Node : d # n => (d \in N <=> d \in NecessaryNodes),
         n \in NecessaryNodes, n \notin N
  PROVE  /\ Enter(stack, "unlink", n) \in Seq(Frame)
         /\ LoopsAgree({}, Enter(stack, "unlink", n), links, children, valid, N)
<1> DEFINE f == [op |-> "unlink", node |-> n, next |-> 1]
<1>1. LoopsAgree({n}, stack, links, children, valid, N) /\ (\A m : ~On(stack, m))
      /\ \A k \in 1 .. Len(stack) : FALSE
  BY IdleBut
<1>2. RestOK(n, links, children, valid, NecessaryNodes)
  BY IdleFacts
<1>3. CASE ~valid[n]
  <2>1. RestOK(n, links, children, valid, N)
    BY <1>2, <1>3 DEF RestOK
  <2>2. Enter(stack, "unlink", n) = stack
    BY <1>3 DEF Enter
  <2> QED BY <2>1, <2>2, <1>1, EmptyStack, NothingToEnter
<1>4. CASE valid[n]
  <2>1. f \in Frame /\ f.op = "unlink" /\ f.node = n /\ f.next = 1
    BY DEF Frame
  <2>2. Enter(stack, "unlink", n) = Append(stack, f)
    BY <1>4 DEF Enter
  <2> HIDE DEF f
  <2>3. Len(children[n]) \in Nat /\ \A k \in 1 .. Len(children[n]) : ~(k < 1)
    BY InvFacts
  <2>4. FrameOK(f, links, children, valid, N)
    BY <2>1, <2>3, <1>2, <1>4 DEF FrameOK, RestOK
  <2>5. LoopsAgree({f.node}, stack, links, children, valid, N) /\ stack \in Seq(Frame)
    BY <2>1, <1>1, EmptyStack
  <2>6. ~On(stack, f.node) /\ \A k \in 1 .. Len(stack) : stack[k].op = f.op
    BY <1>1
  <2> QED BY <2>1, <2>2, <2>4, <2>5, <2>6, PushAgrees
<1> QED BY <1>3, <1>4

LEMMA UnobserveInv == ASSUME IInv, NEW n \in Node, Unobserve(n) PROVE IInv'
<1> DEFINE N2 == NecessaryNodes'
<1>1. /\ stack = <<>> /\ forced = NoNode /\ n \in observed /\ observed' = observed \ {n}
      /\ stack' = IF links.parents[n] # <<>> THEN stack ELSE Enter(stack, "unlink", n)
      /\ UNCHANGED <<children, edgeIndex, links, forced, valid, panicked>>
  BY DEF Unobserve, Idle
<1>2. LinksType(links) /\ Agree(links, children)
  BY InvFacts
<1>3. /\ \A d \in Node : d # n => (d \in N2 <=> d \in NecessaryNodes)
      /\ n \in NecessaryNodes
      /\ n \in N2 <=> links.parents[n] # <<>>
  BY <1>1, NecessaryNext, NecessaryNow, KindAssumption
<1> HIDE DEF N2
<1>4. /\ stack' \in Seq(Frame)
      /\ LoopsAgree({}, stack', links, children, valid, N2)
  <2>1. CASE links.parents[n] # <<>>
    <3>1. \A m \in Node : RestOK(m, links, children, valid, N2)
      BY <2>1, <1>1, <1>3, IdleFacts DEF RestOK
    <3> QED BY <3>1, <2>1, <1>1, EmptyStack, NoLoops
  <2>2. CASE ~(links.parents[n] # <<>>)
    BY <2>2, <1>1, <1>3, LetGo
  <2> QED BY <2>1, <2>2
<1>5. observed' \in SUBSET Node
  BY <1>1 DEF IInv, TypeOK
<1> QED BY <1>1, <1>2, <1>4, <1>5, SameEdges DEF N2, IInv, TypeOK

LEMMA UnforceInv == IInv /\ Unforce => IInv'
<1> SUFFICES ASSUME IInv, Unforce PROVE IInv'
  OBVIOUS
<1> DEFINE N2 == NecessaryNodes'
           n == forced
<1>1. /\ stack = <<>> /\ forced # NoNode /\ forced' = NoNode
      /\ stack' = IF links.parents[n] # <<>> \/ n \in observed
                    THEN stack ELSE Enter(stack, "unlink", n)
      /\ UNCHANGED <<children, edgeIndex, links, observed, valid, panicked>>
  BY DEF Unforce
<1>2. LinksType(links) /\ Agree(links, children) /\ n \in Node
  BY <1>1, InvFacts DEF IInv, TypeOK
<1>3. /\ \A d \in Node : d # n => (d \in N2 <=> d \in NecessaryNodes)
      /\ n \in NecessaryNodes
      /\ n \in N2 <=> links.parents[n] # <<>> \/ n \in observed
  BY <1>1, <1>2, NecessaryNext, NecessaryNow, KindAssumption
<1> HIDE DEF N2, n
<1>4. /\ stack' \in Seq(Frame)
      /\ LoopsAgree({}, stack', links, children, valid, N2)
  <2>1. CASE links.parents[n] # <<>> \/ n \in observed
    <3>1. \A m \in Node : RestOK(m, links, children, valid, N2)
      BY <2>1, <1>1, <1>3, IdleFacts DEF RestOK
    <3> QED BY <3>1, <2>1, <1>1, EmptyStack, NoLoops
  <2>2. CASE ~(links.parents[n] # <<>> \/ n \in observed)
    BY <2>2, <1>1, <1>2, <1>3, LetGo
  <2> QED BY <2>1, <2>2
<1> QED BY <1>1, <1>2, <1>4, SameEdges DEF N2, IInv, TypeOK

LEMMA InvalidateNodeInv == ASSUME IInv, NEW n \in Node, InvalidateNode(n) PROVE IInv'
<1> DEFINE N2 == NecessaryNodes'
           f == [op |-> "unlink", node |-> n, next |-> 1]
<1>1. /\ stack = <<>> /\ valid[n] /\ valid' = [valid EXCEPT ![n] = FALSE]
      /\ stack' = IF Necessary(n) THEN Enter(stack, "unlink", n) ELSE stack
      /\ UNCHANGED <<children, edgeIndex, links, observed, forced, panicked>>
  BY DEF InvalidateNode, Idle
<1>2. LinksType(links) /\ Agree(links, children) /\ valid \in [Node -> BOOLEAN]
  BY InvFacts
<1>3. valid' \in [Node -> BOOLEAN] /\ ~valid'[n] /\ \A d \in Node : d # n => valid'[d] = valid[d]
  BY <1>1, <1>2
<1>4. N2 = NecessaryNodes
  BY <1>1 DEF NecessaryNodes, Necessary, NecessaryIn
<1> HIDE DEF N2
<1>5. \A m \in Node : RestOK(m, links, children, valid, NecessaryNodes)
  BY <1>1, IdleFacts
<1>6. \A m \in Node : m # n => RestOK(m, links, children, valid', NecessaryNodes)
  BY <1>3, <1>5 DEF RestOK
<1>7. LoopsAgree({n}, stack, links, children, valid', NecessaryNodes)
  BY <1>1, <1>6, NoLoops
<1>8. /\ stack' \in Seq(Frame)
      /\ LoopsAgree({}, stack', links, children, valid', NecessaryNodes)
  <2>1. CASE Necessary(n)
    <3>1. f \in Frame /\ f.op = "unlink" /\ f.node = n /\ f.next = 1
      BY DEF Frame
    <3>2. stack' = Append(stack, f)
      BY <2>1, <1>1 DEF Enter
    <3> HIDE DEF f
    <3>3. Len(children[n]) \in Nat /\ \A k \in 1 .. Len(children[n]) : ~(k < 1)
      BY InvFacts
    <3>4. \A k \in 1 .. Len(children[n]) : links.parentIndex[n][k] # 0
      BY <2>1, <1>1, <1>5, NecessaryNow DEF RestOK
    <3>5. FrameOK(f, links, children, valid', NecessaryNodes)
      BY <3>1, <3>3, <3>4, <1>3 DEF FrameOK
    <3>6. ~On(stack, n) /\ \A k \in 1 .. Len(stack) : stack[k].op = f.op
      BY <1>1, IdleBut
    <3>7. LoopsAgree({f.node}, stack, links, children, valid', NecessaryNodes)
      BY <3>1, <1>7
    <3>8. stack \in Seq(Frame)
      BY <1>1, EmptyStack
    <3> QED BY <3>1, <3>2, <3>5, <3>6, <3>7, <3>8, PushAgrees
  <2>2. CASE ~Necessary(n)
    <3>1. RestOK(n, links, children, valid', NecessaryNodes)
      BY <2>2, <1>3, <1>5, NecessaryNow DEF RestOK
    <3> QED BY <3>1, <2>2, <1>1, <1>7, EmptyStack, NothingToEnter
  <2> QED BY <2>1, <2>2
<1> QED BY <1>1, <1>2, <1>3, <1>4, <1>8, SameEdges DEF N2, IInv, TypeOK

LEMMA RemoveDependencyPanicsInv ==
  ASSUME IInv, NEW e \in Edge, RemoveDependencyPanics(e) PROVE IInv'
<1>1. /\ panicked' = TRUE
      /\ UNCHANGED <<children, edgeIndex, links, observed, forced, valid, stack>>
  BY DEF RemoveDependencyPanics
<1>2. LinksType(links) /\ Agree(links, children)
  BY InvFacts
<1>3. NecessaryNodes' = NecessaryNodes
  BY <1>1 DEF NecessaryNodes, Necessary, NecessaryIn
<1> QED BY <1>1, <1>2, <1>3, SameEdges DEF IInv, TypeOK

-----------------------------------------------------------------------------
(***************************************************************************)
(* The calls that change the edges of a node.                              *)
(***************************************************************************)
LEMMA OtherEdges ==
  ASSUME IInv, ChildrenInv', EdgeIndicesAgree',
         ChildrenType(children'), edgeIndex' \in [Edge -> 0 .. MaxChildren],
         LinksType(links'), Agree(links', children'),
         forced' \in Node \union {NoNode}, stack' \in Seq(Frame),
         UNCHANGED <<observed, valid, panicked>>,
         LoopsAgree({}, stack', links', children', valid', NecessaryNodes')
  PROVE  IInv'
<1>1. TypeOK'
  BY DEF IInv, TypeOK, LinksType, ChildrenType
<1> QED BY <1>1 DEF IInv

\* The edge e becomes the last one of p, at index i.
Appended(p, i, e) ==
  /\ Len(children'[p]) = i /\ children'[p][i] = e
  /\ \A k \in 1 .. i - 1 : children'[p][k] = children[p][k]
  /\ \A n \in Node : n # p => children'[n] = children[n]

LEMMA EdgeAppended ==
  ASSUME IInv, NEW e \in Edge, edgeIndex[e] = 0,
         Len(children[Owner[e]]) + 1 <= MaxChildren,
         Owner[e] \in BindMain => Len(children[Owner[e]]) + 1 = 2,
         children' = [children EXCEPT ![Owner[e]] = Append(@, e)],
         edgeIndex' = [edgeIndex EXCEPT ![e] = Len(children[Owner[e]]) + 1]
  PROVE  /\ ChildrenInv' /\ EdgeIndicesAgree'
         /\ ChildrenType(children') /\ edgeIndex' \in [Edge -> 0 .. MaxChildren]
         /\ Owner[e] \in Node /\ Len(children[Owner[e]]) + 1 \in Index
         /\ Appended(Owner[e], Len(children[Owner[e]]) + 1, e)
<1> DEFINE p == Owner[e]
           i == Len(children[p]) + 1
<1>1. /\ ChildrenType(children) /\ edgeIndex \in [Edge -> 0 .. MaxChildren] /\ MaxChildren \in Nat
      /\ \A n \in Node : Len(children[n]) \in Nat /\ Len(children[n]) <= MaxChildren
  BY InvFacts DEF IInv, TypeOK
<1>2. p \in Node /\ i \in Nat /\ i > 0 /\ i \in Index
  <2>1. p \in Node
    BY EdgeAssumption
  <2>2. i \in Nat /\ i > 0
    BY <2>1, <1>1
  <2> QED BY <2>1, <2>2, <1>1 DEF Index
<1>3. /\ children' \in [Node -> Seq(Edge)]
      /\ Len(children'[p]) = i /\ children'[p][i] = e
      /\ \A k \in 1 .. i - 1 : children'[p][k] = children[p][k]
      /\ \A n \in Node : n # p => children'[n] = children[n]
  <2> DEFINE s == Append(children[p], e)
  <2>1. children[p] \in Seq(Edge)
    BY <1>1, <1>2 DEF ChildrenType
  <2>2. /\ s \in Seq(Edge) /\ Len(s) = i /\ s[i] = e
        /\ \A k \in 1 .. i - 1 : s[k] = children[p][k]
    BY <2>1
  <2>3. children' = [children EXCEPT ![p] = s]
    OBVIOUS
  <2> HIDE DEF s
  <2> QED BY <2>2, <2>3, <1>1, <1>2 DEF ChildrenType
<1>4. /\ edgeIndex' \in [Edge -> 0 .. MaxChildren]
      /\ edgeIndex'[e] = i
      /\ \A d \in Edge : d # e => edgeIndex'[d] = edgeIndex[d]
  <2>1. i \in 0 .. MaxChildren
    BY <1>1, <1>2
  <2> QED BY <2>1, <1>1
<1>5. ChildrenInv'
  <2>1. ASSUME NEW n \in Node PROVE Len(children'[n]) <= MaxChildren
    BY <1>1, <1>3
  <2>2. ASSUME NEW b \in BindMain PROVE Len(children'[b]) \in {1, 2}
    <3>1. b \in Node
      BY KindAssumption
    <3>2. b # p => children'[b] = children[b]
      BY <3>1, <1>3
    <3> QED BY <3>2, <1>3 DEF IInv, ChildrenInv
  <2> QED BY <2>1, <2>2 DEF ChildrenInv
<1>6. EdgeIndicesAgree'
  <2>1. ASSUME NEW d \in Edge, edgeIndex'[d] # 0
        PROVE  edgeIndex'[d] <= Len(children'[Owner[d]]) /\ children'[Owner[d]][edgeIndex'[d]] = d
    <3>1. CASE d = e
      BY <3>1, <1>2, <1>3, <1>4
    <3>2. CASE d # e
      <4> DEFINE k == edgeIndex[d]
      <4>1. edgeIndex'[d] = k /\ k \in Nat /\ k # 0 /\ Owner[d] \in Node
        BY <3>2, <2>1, <1>1, <1>4, EdgeAssumption
      <4>2. k <= Len(children[Owner[d]]) /\ children[Owner[d]][k] = d
        BY <4>1 DEF IInv, EdgeIndicesAgree
      <4>3. CASE Owner[d] = p
        <5>1. k \in 1 .. i - 1
          BY <4>1, <4>2, <4>3, <1>1
        <5> QED BY <5>1, <4>1, <4>2, <4>3, <1>2, <1>3
      <4>4. CASE Owner[d] # p
        BY <4>1, <4>2, <4>4, <1>3
      <4> QED BY <4>3, <4>4
    <3> QED BY <3>1, <3>2
  <2>2. ASSUME NEW n \in Node, NEW k \in DOMAIN children'[n]
        PROVE  Owner[children'[n][k]] = n /\ edgeIndex'[children'[n][k]] = k
    <3>1. k \in 1 .. Len(children'[n])
      BY <1>3
    <3>2. CASE n = p /\ k = i
      BY <3>2, <1>3, <1>4
    <3>3. CASE ~(n = p /\ k = i)
      <4>1. k \in 1 .. Len(children[n]) /\ children'[n][k] = children[n][k]
        <5>1. CASE n = p
          BY <5>1, <3>1, <3>3, <1>1, <1>2, <1>3
        <5>2. CASE n # p
          BY <5>2, <3>1, <1>3
        <5> QED BY <5>1, <5>2
      <4>2. /\ children[n][k] \in Edge /\ Owner[children[n][k]] = n
            /\ edgeIndex[children[n][k]] = k /\ k # 0
        BY <4>1, PlaceOfEdge
      <4>3. children[n][k] # e
        BY <4>2
      <4> QED BY <4>1, <4>2, <4>3, <1>4
    <3> QED BY <3>2, <3>3
  <2> QED BY <2>1, <2>2 DEF EdgeIndicesAgree
<1>7. Appended(p, i, e)
  BY <1>3 DEF Appended
<1> QED BY <1>2, <1>3, <1>4, <1>5, <1>6, <1>7 DEF ChildrenType

\* Appending an edge disturbs no entry.
LEMMA AgreeAppended ==
  ASSUME IInv, NEW p \in Node, NEW e, Appended(p, Len(children[p]) + 1, e)
  PROVE  Agree(links, children')
<1> USE DEF Appended
<1>1. /\ LinksType(links) /\ Agree(links, children)
      /\ \A n \in Node : Len(children[n]) \in Nat
      /\ \A n \in Node, k \in Index : links.parentIndex[n][k] # 0 => k \in 1 .. Len(children[n])
  BY InvFacts
<1>2. ASSUME NEW q \in Node, NEW k \in Index, links.parentIndex[q][k] # 0
      PROVE  k <= Len(children'[q]) /\ Child[children'[q][k]] = Child[children[q][k]]
  <2>1. k \in 1 .. Len(children[q])
    BY <1>1, <1>2
  <2>2. CASE q = p
    BY <2>1, <2>2, <1>1
  <2>3. CASE q # p
    BY <2>1, <2>3, <1>1
  <2> QED BY <2>2, <2>3
<1>3. SameEnds(links, children, children')
  BY <1>2 DEF SameEnds
<1> QED BY <1>1, <1>3, AgreeWithOtherEdges

\* The edge at index i of p is new; L1 is links without what was at that index.
MayLink(L1, p, i) ==
  /\ i <= Len(children'[p])
  /\ \A n \in Node : n # p => children'[n] = children[n]
  /\ \A k \in 1 .. Len(children'[p]) : k # i => k \in 1 .. Len(children[p])
  /\ L1.parentIndex[p][i] = 0
  /\ \A q \in Node, k \in Index : ~(q = p /\ k = i) =>
       (L1.parentIndex[q][k] # 0 <=> links.parentIndex[q][k] # 0)
  /\ \A d \in Node : d # Child[children'[p][i]] =>
       (L1.parents[d] # <<>> \/ d \in observed' \/ d = forced' <=> d \in NecessaryNodes)

\* A necessary valid node p gets an edge at index i to a child, which becomes
\* necessary if it was not.
LEMMA NewEdge ==
  ASSUME IInv, stack = <<>>, ChildrenType(children'), valid' = valid,
         NEW p \in Node, NEW i \in Index, p \in NecessaryNodes, valid[p],
         NEW L1, LinksType(L1), Agree(L1, children'), MayLink(L1, p, i),
         links' = AddParent(L1, Child[children'[p][i]], i, p),
         stack' = EnterIfWasUnnecessary(stack, Child[children'[p][i]])
  PROVE  /\ LinksType(links') /\ Agree(links', children')
         /\ stack' \in Seq(Frame)
         /\ LoopsAgree({}, stack', links', children', valid', NecessaryNodes')
<1> USE DEF MayLink
<1> DEFINE N2 == NecessaryNodes'
           L2 == links'
           ch == children'
           c == Child[ch[p][i]]
<1>1. c \in Node
  BY ChildIsNode
<1>2. /\ LinksType(L2) /\ L2.parents[c] # <<>> /\ L2.parentIndex[p][i] # 0
      /\ \A d \in Node : d # c => L2.parents[d] = L1.parents[d]
      /\ \A q \in Node, k \in Index : ~(q = p /\ k = i) =>
           L2.parentIndex[q][k] = L1.parentIndex[q][k]
  <2>1. LinksType(AddParent(L1, c, i, p)) /\ Added(L1, AddParent(L1, c, i, p), c, p, i)
    BY <1>1, AddParentAdds
  <2> QED BY <2>1 DEF Added
<1>3. Agree(L2, ch)
  BY AddParentAgrees
<1>4. c \in N2 /\ \A d \in Node : d # c => (d \in N2 <=> d \in NecessaryNodes)
  BY <1>1, <1>2, NecessaryNext
<1>5. \A q \in Node, k \in Index : ~(q = p /\ k = i) =>
        (L2.parentIndex[q][k] # 0 <=> links.parentIndex[q][k] # 0)
  BY <1>2
<1>6. /\ \A m \in Node : RestOK(m, links, children, valid, NecessaryNodes)
      /\ valid \in [Node -> BOOLEAN]
      /\ \A n \in Node : \A k \in 1 .. Len(children[n]) : k \in Index
  BY IdleFacts, InvFacts
<1>7. p \in N2
  BY <1>4
<1> HIDE DEF N2, L2, ch, c
<1>8. ASSUME NEW m \in Node, m # p
      PROVE  \A k \in 1 .. Len(ch[m]) : L2.parentIndex[m][k] # 0 <=> valid[m] /\ m \in NecessaryNodes
  BY <1>5, <1>6, <1>8 DEF RestOK, ch
<1>9. RestOK(p, L2, ch, valid, N2)
  <2>1. ASSUME NEW k \in 1 .. Len(ch[p]) PROVE L2.parentIndex[p][k] # 0
    <3>1. CASE k = i
      BY <3>1, <1>2
    <3>2. CASE k # i
      <4>1. k \in 1 .. Len(children[p]) /\ k \in Index
        BY <3>2, <1>6 DEF ch
      <4>2. links.parentIndex[p][k] # 0
        BY <4>1, <1>6 DEF RestOK
      <4> QED BY <3>2, <4>1, <4>2, <1>5
    <3> QED BY <3>1, <3>2
  <2> QED BY <2>1, <1>7 DEF RestOK
<1>10. ASSUME NEW m \in Node, m # c PROVE RestOK(m, L2, ch, valid, N2)
  BY <1>4, <1>8, <1>9, <1>10 DEF RestOK
<1>11. Necessary(c) => RestOK(c, L2, ch, valid, N2)
  BY <1>1, <1>4, <1>8, <1>9, NecessaryNow DEF RestOK
<1>12. ~Necessary(c) => \A k \in 1 .. Len(ch[c]) : L2.parentIndex[c][k] = 0
  BY <1>1, <1>8, NecessaryNow
<1>13. LoopsAgree({c}, stack, L2, ch, valid, N2) /\ ~On(stack, c)
       /\ \A k \in 1 .. Len(stack) : FALSE
  BY <1>10, NoLoops, IdleBut
<1>14. /\ stack' \in Seq(Frame)
       /\ LoopsAgree({}, stack', L2, ch, valid, N2)
  <2> DEFINE S == stack
  <2>1. S \in Seq(Frame) /\ ChildrenType(ch)
    BY EmptyStack DEF ch
  <2>2. stack' = EnterIfWasUnnecessary(S, c)
    BY DEF c, ch
  <2>3. \A k \in 1 .. Len(S) : S[k].op = "link"
    BY <1>13
  <2>4. Necessary(c) => On(S, c) \/ RestOK(c, L2, ch, valid, N2)
    BY <1>11
  <2>5. ~Necessary(c) => ~On(S, c) /\ \A k \in 1 .. Len(ch[c]) : L2.parentIndex[c][k] = 0
    BY <1>12, <1>13
  <2>6. c \in N2 /\ LoopsAgree({c}, S, L2, ch, valid, N2)
    BY <1>4, <1>13
  <2>7. valid \in [Node -> BOOLEAN]
    BY <1>6
  <2> HIDE DEF MayLink, S
  <2>8. /\ EnterIfWasUnnecessary(S, c) \in Seq(Frame)
        /\ LoopsAgree({}, EnterIfWasUnnecessary(S, c), L2, ch, valid, N2)
    BY <2>1, <2>3, <2>4, <2>5, <2>6, <2>7, <1>1, EnterLink
  <2> QED BY <2>2, <2>8
<1> QED BY <1>2, <1>3, <1>14 DEF N2, L2, ch

LEMMA AddDependencyInv == ASSUME IInv, NEW e \in Edge, AddDependency(e) PROVE IInv'
<1> DEFINE p == Owner[e]
           i == Len(children[p]) + 1
           c == Child[e]
<1>1. /\ stack = <<>> /\ forced = NoNode /\ p \in ExpertNode /\ valid[p]
      /\ edgeIndex[e] = 0 /\ i <= MaxChildren
      /\ children' = [children EXCEPT ![p] = Append(@, e)]
      /\ edgeIndex' = [edgeIndex EXCEPT ![e] = i]
      /\ IF Necessary(p) THEN /\ links' = AddParent(links, c, i, p)
                              /\ stack' = EnterIfWasUnnecessary(stack, c)
                         ELSE UNCHANGED <<links, stack>>
      /\ UNCHANGED <<observed, forced, valid, panicked>>
  BY DEF AddDependency, Idle
<1>2. p \notin BindMain
  BY <1>1, KindAssumption
<1>3. /\ ChildrenInv' /\ EdgeIndicesAgree'
      /\ ChildrenType(children') /\ edgeIndex' \in [Edge -> 0 .. MaxChildren]
      /\ p \in Node /\ i \in Index
      /\ Appended(p, i, e)
  BY <1>1, <1>2, EdgeAppended
<1>4. /\ LinksType(links) /\ valid \in [Node -> BOOLEAN]
      /\ \A n \in Node : Len(children[n]) \in Nat
      /\ \A n \in Node : \A k \in 1 .. Len(children[n]) : k \in Index
      /\ \A n \in Node, k \in Index : links.parentIndex[n][k] # 0 => k \in 1 .. Len(children[n])
      /\ \A n \in Node : RestOK(n, links, children, valid, NecessaryNodes)
  BY <1>1, InvFacts, IdleFacts
<1>5. Agree(links, children')
  BY <1>3, AgreeAppended
<1> USE DEF Appended
<1>6. forced' \in Node \union {NoNode}
  BY <1>1
<1>7. links.parentIndex[p][i] = 0 /\ i \in Nat
      /\ \A k \in 1 .. i : k # i => k \in 1 .. Len(children[p])
  <2>1. i \notin 1 .. Len(children[p]) /\ i \in Nat
    BY <1>3, <1>4
  <2>2. \A k \in 1 .. i : k # i => k \in 1 .. Len(children[p])
    BY <1>3, <1>4
  <2> QED BY <2>1, <2>2, <1>3, <1>4
<1>8. CASE Necessary(p)
  <2>1. p \in NecessaryNodes /\ links' = AddParent(links, c, i, p)
        /\ stack' = EnterIfWasUnnecessary(stack, c) /\ valid' = valid
    BY <1>1, <1>3, <1>8, NecessaryNow
  <2>2. \A d \in Node : d # c =>
          (links.parents[d] # <<>> \/ d \in observed' \/ d = forced' <=> d \in NecessaryNodes)
    BY <1>1, NecessaryNow
  <2>3. c = Child[children'[p][i]] /\ i <= Len(children'[p])
    BY <1>3, <1>7
  <2>4. \A k \in 1 .. Len(children'[p]) : k # i => k \in 1 .. Len(children[p])
    BY <1>3, <1>7
  <2> HIDE DEF p, i, c
  <2>5. MayLink(links, p, i)
    BY <2>2, <2>3, <2>4, <1>3, <1>7 DEF MayLink
  <2>6. valid[p] /\ stack = <<>>
    BY <1>1
  <2> HIDE DEF Appended
  <2>7. /\ LinksType(links') /\ Agree(links', children')
        /\ stack' \in Seq(Frame)
        /\ LoopsAgree({}, stack', links', children', valid', NecessaryNodes')
    BY <2>1, <2>3, <2>5, <2>6, <1>3, <1>4, <1>5, NewEdge
  <2> QED BY <2>7, <1>1, <1>3, <1>6, OtherEdges
<1>9. CASE ~Necessary(p)
  <2>1. UNCHANGED <<links, stack, valid, observed, forced>>
    BY <1>1, <1>9
  <2>2. NecessaryNodes' = NecessaryNodes /\ p \notin NecessaryNodes
    BY <2>1, <1>9 DEF NecessaryNodes, Necessary, NecessaryIn
  <2>3. ASSUME NEW n \in Node PROVE RestOK(n, links, children', valid, NecessaryNodes)
    <3>1. CASE n # p
      BY <3>1, <1>3, <1>4 DEF RestOK
    <3>2. CASE n = p
      <4>1. ASSUME NEW k \in 1 .. i PROVE links.parentIndex[p][k] = 0
        <5>1. CASE k = i
          BY <5>1, <1>7
        <5>2. CASE k # i
          BY <5>2, <1>3, <1>4, <1>7, <2>2 DEF RestOK
        <5> QED BY <5>1, <5>2
      <4> QED BY <3>2, <4>1, <2>2, <1>3 DEF RestOK
    <3> QED BY <3>1, <3>2
  <2>4. LoopsAgree({}, stack', links', children', valid', NecessaryNodes') /\ stack' \in Seq(Frame)
    BY <2>1, <2>2, <2>3, <1>1, NoLoops, EmptyStack
  <2> QED BY <2>1, <2>4, <1>1, <1>3, <1>4, <1>5, <1>6, OtherEdges
<1> QED BY <1>8, <1>9

LEMMA ChangeChildInv == ASSUME IInv, NEW e \in Edge, ChangeChild(e) PROVE IInv'
<1> DEFINE b == Owner[e]
           old == children[b][2]
           oc == Child[old]
           c == Child[e]
<1>1. /\ stack = <<>> /\ forced = NoNode /\ b \in BindMain /\ valid[b] /\ Necessary(b)
      /\ edgeIndex[e] = 0
      /\ Len(children[b]) = 2 => oc # c
      /\ IF Len(children[b]) = 1
            THEN /\ children' = [children EXCEPT ![b] = Append(@, e)]
                 /\ edgeIndex' = [edgeIndex EXCEPT ![e] = 2]
                 /\ links' = AddParent(links, c, 2, b)
                 /\ UNCHANGED forced
            ELSE /\ children' = [children EXCEPT ![b] = [@ EXCEPT ![2] = e]]
                 /\ edgeIndex' = [edgeIndex EXCEPT ![old] = 0, ![e] = 2]
                 /\ links' = AddParent(RemoveParent(links, oc, 2, b), c, 2, b)
                 /\ forced' = oc
      /\ stack' = EnterIfWasUnnecessary(stack, c)
      /\ UNCHANGED <<observed, valid, panicked>>
  BY DEF ChangeChild, Idle
<1>2. /\ LinksType(links) /\ ChildrenType(children) /\ Agree(links, children)
      /\ \A n \in Node : Len(children[n]) \in Nat /\ Len(children[n]) <= MaxChildren
      /\ \A n \in Node, k \in Index : links.parentIndex[n][k] # 0 => k \in 1 .. Len(children[n])
      /\ \A n \in Node : RestOK(n, links, children, valid, NecessaryNodes)
      /\ MaxChildren \in Nat /\ edgeIndex \in [Edge -> 0 .. MaxChildren]
  BY <1>1, InvFacts, IdleFacts DEF IInv, TypeOK
<1>3. /\ b \in Node /\ c \in Node /\ MaxChildren >= 2 /\ 2 \in Index
      /\ Len(children[b]) \in {1, 2} /\ b \in NecessaryNodes
  <2>1. b \in Node /\ c \in Node
    BY EdgeAssumption
  <2>2. MaxChildren >= 2
    BY <1>1, ChildrenAssumption
  <2>3. 2 \in Index
    BY <2>2, <1>2 DEF Index
  <2>4. Len(children[b]) \in {1, 2}
    BY <1>1 DEF IInv, ChildrenInv
  <2> QED BY <2>1, <2>2, <2>3, <2>4, <1>1, NecessaryNow
<1>4. CASE Len(children[b]) = 1
  <2>1. /\ children' = [children EXCEPT ![b] = Append(@, e)]
        /\ edgeIndex' = [edgeIndex EXCEPT ![e] = Len(children[b]) + 1]
        /\ links' = AddParent(links, c, 2, b)
        /\ forced' = forced /\ Len(children[b]) + 1 = 2
    BY <1>1, <1>4
  <2>2. /\ ChildrenInv' /\ EdgeIndicesAgree'
        /\ ChildrenType(children') /\ edgeIndex' \in [Edge -> 0 .. MaxChildren]
        /\ Appended(b, 2, e)
    <3>1. Len(children[b]) + 1 <= MaxChildren /\ edgeIndex[e] = 0
      BY <1>1, <1>3, <1>4
    <3>2. /\ ChildrenInv' /\ EdgeIndicesAgree'
          /\ ChildrenType(children') /\ edgeIndex' \in [Edge -> 0 .. MaxChildren]
          /\ Appended(b, Len(children[b]) + 1, e)
      BY <3>1, <2>1, EdgeAppended
    <3> QED BY <3>2, <2>1
  <2>3. Agree(links, children')
    <3>1. Appended(b, Len(children[b]) + 1, e)
      BY <2>1, <2>2
    <3> QED BY <3>1, <1>3, AgreeAppended
  <2>4. links.parentIndex[b][2] = 0
    <3>1. 2 \notin 1 .. Len(children[b])
      BY <1>4
    <3> QED BY <3>1, <1>2, <1>3
  <2>5. c = Child[children'[b][2]] /\ Len(children'[b]) = 2
    BY <2>2 DEF Appended
  <2>6. \A d \in Node : d # c =>
          (links.parents[d] # <<>> \/ d \in observed' \/ d = forced' <=> d \in NecessaryNodes)
    BY <2>1, <1>1, NecessaryNow
  <2>7. \A k \in 1 .. Len(children'[b]) : k # 2 => k \in 1 .. Len(children[b])
    BY <2>5, <1>4
  <2>8. MayLink(links, b, 2)
    BY <2>2, <2>4, <2>5, <2>6, <2>7 DEF MayLink, Appended
  <2>9. /\ LinksType(links') /\ Agree(links', children')
        /\ stack' \in Seq(Frame)
        /\ LoopsAgree({}, stack', links', children', valid', NecessaryNodes')
    <3>1. valid' = valid /\ valid[b] /\ stack' = EnterIfWasUnnecessary(stack, c) /\ stack = <<>>
      BY <1>1
    <3> HIDE DEF b, c
    <3> QED BY <3>1, <2>1, <2>2, <2>3, <2>5, <2>8, <1>2, <1>3, NewEdge
  <2>10. forced' \in Node \union {NoNode}
    BY <2>1, <1>1
  <2> QED BY <2>2, <2>9, <2>10, <1>1, OtherEdges
<1>5. CASE Len(children[b]) = 2
  <2> DEFINE L1 == RemoveParent(links, oc, 2, b)
             s == [children[b] EXCEPT ![2] = e]
  <2>1. /\ children' = [children EXCEPT ![b] = s]
        /\ edgeIndex' = [edgeIndex EXCEPT ![old] = 0, ![e] = 2]
        /\ links' = AddParent(L1, c, 2, b)
        /\ forced' = oc /\ oc # c
    BY <1>1, <1>5
  <2>2. old \in Edge /\ Owner[old] = b /\ edgeIndex[old] = 2 /\ oc \in Node
    BY <1>3, <1>5, PlaceOfEdge
  <2>3. old # e
    BY <2>2, <1>1
  <2>4. /\ children' \in [Node -> Seq(Edge)]
        /\ Len(children'[b]) = 2 /\ children'[b][2] = e /\ children'[b][1] = children[b][1]
        /\ \A n \in Node : n # b => children'[n] = children[n]
    <3>1. children[b] \in Seq(Edge)
      BY <1>2, <1>3 DEF ChildrenType
    <3>2. s \in Seq(Edge) /\ Len(s) = 2 /\ s[2] = e /\ s[1] = children[b][1]
      BY <3>1, <1>5
    <3> HIDE DEF s
    <3> QED BY <3>2, <2>1, <1>2, <1>3 DEF ChildrenType
  <2>5. /\ edgeIndex' \in [Edge -> 0 .. MaxChildren]
        /\ edgeIndex'[e] = 2 /\ edgeIndex'[old] = 0
        /\ \A d \in Edge : d # e /\ d # old => edgeIndex'[d] = edgeIndex[d]
    <3>1. 2 \in 0 .. MaxChildren /\ 0 \in 0 .. MaxChildren
      BY <1>2, <1>3
    <3> HIDE DEF old
    <3> QED BY <3>1, <2>1, <2>2, <2>3, <1>2
  <2> HIDE DEF L1, s
  <2>6. ChildrenInv'
    <3>1. \A n \in Node : Len(children'[n]) <= MaxChildren
      BY <2>4, <1>2, <1>3
    <3>2. \A m \in BindMain : Len(children'[m]) \in {1, 2}
      BY <2>4, KindAssumption DEF IInv, ChildrenInv
    <3> QED BY <3>1, <3>2 DEF ChildrenInv
  <2>7. EdgeIndicesAgree'
    <3>1. ASSUME NEW d \in Edge, edgeIndex'[d] # 0
          PROVE  edgeIndex'[d] <= Len(children'[Owner[d]]) /\ children'[Owner[d]][edgeIndex'[d]] = d
      <4>1. CASE d = e
        BY <4>1, <2>4, <2>5
      <4>2. CASE d # e
        <5> DEFINE k == edgeIndex[d]
        <5>1. d # old /\ edgeIndex'[d] = k /\ k \in Nat /\ k # 0 /\ Owner[d] \in Node
          BY <4>2, <3>1, <2>5, <1>2, EdgeAssumption
        <5>2. k <= Len(children[Owner[d]]) /\ children[Owner[d]][k] = d
          BY <5>1 DEF IInv, EdgeIndicesAgree
        <5>3. CASE Owner[d] = b
          <6>1. k = 1
            BY <5>1, <5>2, <5>3, <1>5
          <6> QED BY <6>1, <5>1, <5>2, <5>3, <2>4
        <5>4. CASE Owner[d] # b
          BY <5>1, <5>2, <5>4, <2>4
        <5> QED BY <5>3, <5>4
      <4> QED BY <4>1, <4>2
    <3>2. ASSUME NEW n \in Node, NEW k \in DOMAIN children'[n]
          PROVE  Owner[children'[n][k]] = n /\ edgeIndex'[children'[n][k]] = k
      <4>1. k \in 1 .. Len(children'[n])
        BY <2>4
      <4>2. CASE n = b /\ k = 2
        BY <4>2, <2>4, <2>5
      <4>3. CASE ~(n = b /\ k = 2)
        <5>1. k \in 1 .. Len(children[n]) /\ children'[n][k] = children[n][k]
          <6>1. CASE n = b
            <7>1. k = 1
              BY <6>1, <4>1, <4>3, <2>4
            <7> QED BY <6>1, <7>1, <2>4, <1>5
          <6>2. CASE n # b
            BY <6>2, <4>1, <2>4
          <6> QED BY <6>1, <6>2
        <5>2. /\ children[n][k] \in Edge /\ Owner[children[n][k]] = n
              /\ edgeIndex[children[n][k]] = k /\ k # 0
          BY <5>1, PlaceOfEdge
        <5>3. children[n][k] # e /\ children[n][k] # old
          BY <5>2, <4>3, <2>2, <1>1
        <5> QED BY <5>1, <5>2, <5>3, <2>5
      <4> QED BY <4>2, <4>3
    <3> QED BY <3>1, <3>2 DEF EdgeIndicesAgree
  <2>8. links.parentIndex[b][2] # 0
    BY <1>1, <1>2, <1>3, <1>5 DEF RestOK
  <2>9. /\ LinksType(L1)
        /\ L1.parentIndex[b][2] = 0
        /\ \A q \in Node, k \in Index : ~(q = b /\ k = 2) =>
             (L1.parentIndex[q][k] # 0 <=> links.parentIndex[q][k] # 0)
        /\ links.parents[oc] # <<>>
        /\ \A d \in Node : d # oc => L1.parents[d] = links.parents[d]
    <3>1. L1 = RemoveParent(links, Child[children[b][2]], 2, b)
      BY DEF L1
    <3>2. b \in Node /\ 2 \in Index
      BY <1>3
    <3>3. LinksType(links) /\ ChildrenType(children) /\ Agree(links, children)
      BY <1>2, <1>3
    <3> HIDE DEF L1, old, oc, c
    <3>4. /\ LinksType(L1)
          /\ L1.parentIndex[b][2] = 0
          /\ \A q \in Node, k \in Index : ~(q = b /\ k = 2) =>
               (L1.parentIndex[q][k] # 0 <=> links.parentIndex[q][k] # 0)
          /\ links.parents[Child[children[b][2]]] # <<>>
          /\ \A d \in Node : d # Child[children[b][2]] => L1.parents[d] = links.parents[d]
      BY <3>1, <3>2, <3>3, <2>8, LinkedAfterRemove
    <3> QED BY <3>4 DEF oc, old
  <2>10. Agree(L1, children)
    BY <2>8, <1>2, <1>3, RemoveParentAgrees DEF L1
  <2>11. Agree(L1, children')
    <3>1. ASSUME NEW q \in Node, NEW k \in Index, L1.parentIndex[q][k] # 0, k <= Len(children[q])
          PROVE  k <= Len(children'[q]) /\ Child[children'[q][k]] = Child[children[q][k]]
      <4>1. CASE q = b
        <5>1. k = 1
          BY <3>1, <4>1, <2>9, <1>2, <1>5 DEF Index
        <5> QED BY <4>1, <5>1, <2>4
      <4>2. CASE q # b
        BY <3>1, <4>2, <2>4
      <4> QED BY <4>1, <4>2
    <3>2. SameEnds(L1, children, children')
      BY <3>1 DEF SameEnds
    <3> QED BY <3>2, <2>9, <2>10, AgreeWithOtherEdges
  <2>12. c = Child[children'[b][2]]
    BY <2>4
  <2>13. \A d \in Node : d # c =>
          (L1.parents[d] # <<>> \/ d \in observed' \/ d = forced' <=> d \in NecessaryNodes)
    <3> TAKE d \in Node
    <3>1. CASE d = oc
      BY <3>1, <2>1, <2>9, NecessaryNow
    <3>2. CASE d # oc
      BY <3>2, <2>1, <2>9, <1>1, NecessaryNow, KindAssumption
    <3> QED BY <3>1, <3>2
  <2>14. MayLink(L1, b, 2)
    BY <2>4, <2>9, <2>12, <2>13, <1>5 DEF MayLink
  <2>15. ChildrenType(children')
    BY <2>4 DEF ChildrenType
  <2>16. /\ LinksType(links') /\ Agree(links', children')
         /\ stack' \in Seq(Frame)
         /\ LoopsAgree({}, stack', links', children', valid', NecessaryNodes')
    <3>1. valid' = valid /\ valid[b] /\ stack' = EnterIfWasUnnecessary(stack, c) /\ stack = <<>>
      BY <1>1
    <3>2. LinksType(L1) /\ links' = AddParent(L1, c, 2, b)
      BY <2>1, <2>9
    <3> HIDE DEF b, c
    <3> QED BY <3>1, <3>2, <2>11, <2>12, <2>14, <2>15, <1>3, NewEdge
  <2>17. forced' \in Node \union {NoNode}
    BY <2>1, <2>2
  <2> QED BY <2>5, <2>6, <2>7, <2>15, <2>16, <2>17, <1>1, OtherEdges
<1> QED BY <1>3, <1>4, <1>5

\* The last edge of p takes the place of the one at index i.
Exchanged(p, i, last, e) ==
  /\ Len(children'[p]) = last - 1
  /\ \A k \in 1 .. last - 1 :
       children'[p][k] = IF k = i THEN children[p][last] ELSE children[p][k]
  /\ \A n \in Node : n # p => children'[n] = children[n]

LEMMA EdgesExchanged ==
  ASSUME IInv, NEW e \in Edge, edgeIndex[e] # 0, Owner[e] \notin BindMain,
         ExchangeAndPop(Owner[e], edgeIndex[e], Len(children[Owner[e]]))
  PROVE  /\ ChildrenInv' /\ EdgeIndicesAgree'
         /\ ChildrenType(children') /\ edgeIndex' \in [Edge -> 0 .. MaxChildren]
         /\ Exchanged(Owner[e], edgeIndex[e], Len(children[Owner[e]]), e)
<1> DEFINE p == Owner[e]
           i == edgeIndex[e]
           last == Len(children[p])
           end == children[p][last]
           s == [k \in 1 .. last - 1 |-> IF k = i THEN end ELSE children[p][k]]
<1>1. /\ ChildrenType(children) /\ edgeIndex \in [Edge -> 0 .. MaxChildren] /\ MaxChildren \in Nat
      /\ \A n \in Node : Len(children[n]) \in Nat /\ Len(children[n]) <= MaxChildren
  BY InvFacts DEF IInv, TypeOK
<1>2. p \in Node /\ last \in Nat /\ last <= MaxChildren
  BY <1>1, EdgeAssumption
<1>3. i \in 1 .. last /\ children[p][i] = e
  <2>1. i \in Nat /\ i # 0
    BY <1>1
  <2>2. i <= last /\ children[p][i] = e
    BY DEF IInv, EdgeIndicesAgree
  <2> QED BY <2>1, <2>2, <1>2
<1>4. /\ end \in Edge /\ Owner[end] = p /\ edgeIndex[end] = last /\ last \in 1 .. last
  BY <1>2, <1>3, PlaceOfEdge
<1>5. /\ children' = [children EXCEPT ![p] = s]
      /\ edgeIndex' = [edgeIndex EXCEPT ![end] = i, ![e] = 0]
  BY <1>3 DEF ExchangeAndPop
<1>6. s \in Seq(Edge) /\ Len(s) = last - 1
  <2>1. ASSUME NEW k \in 1 .. last - 1 PROVE s[k] \in Edge
    <3>1. k \in 1 .. Len(children[p])
      BY <1>2
    <3>2. children[p][k] \in Edge
      BY <3>1, <1>2, PlaceOfEdge
    <3> QED BY <3>2, <1>4
  <2>2. s \in [1 .. last - 1 -> Edge]
    BY <2>1
  <2>3. last - 1 \in Nat
    BY <1>2, <1>3
  <2> HIDE DEF s
  <2> QED BY <2>2, <2>3, FunctionIsSequence
<1>7. \A k \in 1 .. last - 1 : s[k] = IF k = i THEN end ELSE children[p][k]
  OBVIOUS
<1> HIDE DEF p, i, last, end, s
<1>8. /\ children' \in [Node -> Seq(Edge)] /\ children'[p] = s
      /\ \A n \in Node : n # p => children'[n] = children[n]
  BY <1>1, <1>2, <1>5, <1>6 DEF ChildrenType
<1>9. /\ edgeIndex' \in [Edge -> 0 .. MaxChildren] /\ edgeIndex'[e] = 0
      /\ end # e => edgeIndex'[end] = i
      /\ \A d \in Edge : d # e /\ d # end => edgeIndex'[d] = edgeIndex[d]
  <2> DEFINE M == [edgeIndex EXCEPT ![end] = i]
  <2>1. i \in 0 .. MaxChildren /\ 0 \in 0 .. MaxChildren
    BY <1>1, <1>2, <1>3
  <2>2. /\ M \in [Edge -> 0 .. MaxChildren] /\ M[end] = i
        /\ \A d \in Edge : d # end => M[d] = edgeIndex[d]
    BY <2>1, <1>1, <1>4
  <2>3. edgeIndex' = [M EXCEPT ![e] = 0]
    BY <1>5
  <2> HIDE DEF M
  <2>4. /\ edgeIndex' \in [Edge -> 0 .. MaxChildren] /\ edgeIndex'[e] = 0
        /\ \A d \in Edge : d # e => edgeIndex'[d] = M[d]
    BY <2>1, <2>2, <2>3
  <2> QED BY <2>2, <2>4, <1>4
<1>10. ChildrenInv'
  <2>1. ASSUME NEW n \in Node PROVE Len(children'[n]) <= MaxChildren
    <3>1. CASE n = p
      BY <3>1, <1>1, <1>2, <1>6, <1>8
    <3>2. CASE n # p
      BY <3>2, <1>1, <1>8
    <3> QED BY <3>1, <3>2
  <2>2. \A b \in BindMain : Len(children'[b]) \in {1, 2}
    BY <1>8, KindAssumption DEF IInv, ChildrenInv, p
  <2> QED BY <2>1, <2>2 DEF ChildrenInv
<1>11. ASSUME NEW n \in Node, NEW k \in 1 .. Len(children[n])
       PROVE  /\ children[n][k] \in Edge /\ Owner[children[n][k]] = n
              /\ edgeIndex[children[n][k]] = k /\ k # 0
  BY PlaceOfEdge
<1>12. end = e <=> i = last
  BY <1>3, <1>4 DEF i, end
<1>13. ASSUME NEW d \in Edge, edgeIndex'[d] # 0
       PROVE  edgeIndex'[d] <= Len(children'[Owner[d]]) /\ children'[Owner[d]][edgeIndex'[d]] = d
  <2>1. d # e
    BY <1>9, <1>13
  <2>2. CASE d = end
    <3>1. edgeIndex'[d] = i /\ i \in 1 .. last - 1 /\ Owner[d] = p
      BY <2>1, <2>2, <1>2, <1>3, <1>4, <1>9, <1>12
    <3> QED BY <3>1, <2>2, <1>2, <1>6, <1>7, <1>8
  <2>3. CASE d # end
    <3> DEFINE k == edgeIndex[d]
    <3>1. edgeIndex'[d] = k /\ k \in Nat /\ k # 0 /\ Owner[d] \in Node
      BY <2>1, <2>3, <1>1, <1>9, <1>13, EdgeAssumption
    <3>2. k <= Len(children[Owner[d]]) /\ children[Owner[d]][k] = d
      BY <3>1 DEF IInv, EdgeIndicesAgree
    <3>3. CASE Owner[d] = p
      <4>1. k # i /\ k # last
        BY <3>2, <3>3, <2>1, <2>3, <1>3 DEF end
      <4>2. k \in 1 .. last - 1
        BY <4>1, <3>1, <3>2, <3>3, <1>2 DEF last
      <4> QED BY <4>1, <4>2, <3>1, <3>2, <3>3, <1>2, <1>6, <1>7, <1>8
    <3>4. CASE Owner[d] # p
      BY <3>1, <3>2, <3>4, <1>8
    <3> QED BY <3>3, <3>4
  <2> QED BY <2>2, <2>3
<1>14. ASSUME NEW n \in Node, NEW k \in DOMAIN children'[n]
       PROVE  Owner[children'[n][k]] = n /\ edgeIndex'[children'[n][k]] = k
  <2>1. k \in 1 .. Len(children'[n])
    BY <1>8
  <2>2. CASE n = p /\ k = i
    <3>1. k \in 1 .. last - 1 /\ children'[n][k] = end
      BY <2>1, <2>2, <1>6, <1>7, <1>8
    <3>2. end # e
      BY <3>1, <2>2, <1>2, <1>12
    <3> QED BY <3>1, <3>2, <2>2, <1>4, <1>9
  <2>3. CASE n = p /\ k # i
    <3>1. k \in 1 .. last - 1 /\ children'[n][k] = children[p][k] /\ k # last
      BY <2>1, <2>3, <1>2, <1>6, <1>7, <1>8
    <3>2. k \in 1 .. Len(children[p])
      BY <3>1, <1>2 DEF last
    <3>3. /\ children[p][k] \in Edge /\ Owner[children[p][k]] = p
          /\ edgeIndex[children[p][k]] = k
      BY <3>2, <1>2, <1>11
    <3>4. children[p][k] # e /\ children[p][k] # end
      BY <3>1, <3>3, <2>3, <1>4 DEF i
    <3> QED BY <3>1, <3>3, <3>4, <2>3, <1>9
  <2>4. CASE n # p
    <3>1. children'[n] = children[n] /\ k \in 1 .. Len(children[n])
      BY <2>1, <2>4, <1>8
    <3>2. /\ children[n][k] \in Edge /\ Owner[children[n][k]] = n
          /\ edgeIndex[children[n][k]] = k
      BY <3>1, <1>11
    <3>3. children[n][k] # e /\ children[n][k] # end
      BY <3>2, <2>4, <1>4 DEF p
    <3> QED BY <3>1, <3>2, <3>3, <1>9
  <2> QED BY <2>2, <2>3, <2>4
<1>15. EdgeIndicesAgree'
  BY <1>13, <1>14 DEF EdgeIndicesAgree
<1>16. Exchanged(p, i, last, e)
  BY <1>6, <1>7, <1>8 DEF Exchanged, end
<1> QED BY <1>8, <1>9, <1>10, <1>15, <1>16 DEF ChildrenType, p, i, last

\* The links and the edges when p's edges at i and last have changed places.
ExchangedLinks(p, i, last) ==
  IF i = last THEN links
  ELSE SwapChildren(links, p, Child[children[p][i]], i, Child[children[p][last]], last)

ExchangedEdges(p, i, last) ==
  [children EXCEPT ![p] = [children[p] EXCEPT ![i] = children[p][last], ![last] = children[p][i]]]

\* The edge of p that goes away is the last one, and it is linked.
ReadyToPop(L1, ch1, p, i, last) ==
  /\ LinksType(L1) /\ ChildrenType(ch1) /\ Agree(L1, ch1)
  /\ last \in Index /\ L1.parentIndex[p][last] # 0 /\ ch1[p][last] = children[p][i]
  /\ \A q \in Node : Len(ch1[q]) = Len(children[q])
  /\ \A q \in Node : q # p => ch1[q] = children[q]
  /\ \A k \in 1 .. last - 1 :
       ch1[p][k] = IF k = i THEN children[p][last] ELSE children[p][k]
  /\ SameLinked(links, L1)

LEMMA ExchangeLinked ==
  ASSUME IInv, stack = <<>>, NEW p \in Node, p \in NecessaryNodes, valid[p],
         NEW i \in 1 .. Len(children[p]),
         children[p][i] # children[p][Len(children[p])] =>
           Child[children[p][i]] # Child[children[p][Len(children[p])]]
  PROVE  ReadyToPop(ExchangedLinks(p, i, Len(children[p])),
                    ExchangedEdges(p, i, Len(children[p])), p, i, Len(children[p]))
<1> DEFINE last == Len(children[p])
           e == children[p][i]
           L1 == ExchangedLinks(p, i, last)
           ch1 == ExchangedEdges(p, i, last)
<1>1. /\ LinksType(links) /\ ChildrenType(children) /\ Agree(links, children)
      /\ \A n \in Node : Len(children[n]) \in Nat
      /\ \A n \in Node : \A k \in 1 .. Len(children[n]) : k \in Index
      /\ \A n \in Node : RestOK(n, links, children, valid, NecessaryNodes)
  BY InvFacts, IdleFacts
<1>2. last \in Nat /\ last \in 1 .. Len(children[p]) /\ last \in Index /\ i \in Index
      /\ i \in Nat /\ i <= last
  <2>1. last \in 1 .. Len(children[p]) /\ last \in Nat
    BY <1>1
  <2> QED BY <2>1, <1>1
<1>3. links.parentIndex[p][i] # 0 /\ links.parentIndex[p][last] # 0
  BY <1>1, <1>2 DEF RestOK
<1> DEFINE end == children[p][last]
           s == [children[p] EXCEPT ![i] = end, ![last] = e]
<1>4. children[p] \in Seq(Edge) /\ end \in Edge /\ e \in Edge
  <2>1. children[p] \in Seq(Edge)
    BY <1>1 DEF ChildrenType
  <2> QED BY <2>1, <1>2
<1>5. /\ s \in Seq(Edge) /\ Len(s) = last /\ s[last] = e
      /\ \A k \in 1 .. last : s[k] = IF k = last THEN e ELSE IF k = i THEN end ELSE children[p][k]
  BY <1>2, <1>4
<1>6. ch1 = [children EXCEPT ![p] = s]
  BY DEF ExchangedEdges
<1> HIDE DEF s, end, ch1, L1
<1>7. /\ ChildrenType(ch1) /\ ch1[p] = s /\ \A q \in Node : q # p => ch1[q] = children[q]
  BY <1>1, <1>5, <1>6 DEF ChildrenType
<1>8. \A q \in Node : Len(ch1[q]) = Len(children[q])
  BY <1>5, <1>7
<1>9. ch1[p][last] = e /\ \A k \in 1 .. last - 1 :
        ch1[p][k] = IF k = i THEN children[p][last] ELSE children[p][k]
  BY <1>2, <1>5, <1>7 DEF end
<1>10. ASSUME i = last
       PROVE  /\ LinksType(L1) /\ Agree(L1, ch1) /\ SameLinked(links, L1)
              /\ L1.parentIndex[p][last] # 0
  <2>1. SameEnds(links, children, ch1)
    <3> SUFFICES ASSUME NEW q \in Node, NEW k \in Index, k <= Len(children[q])
                 PROVE  k <= Len(ch1[q]) /\ Child[ch1[q][k]] = Child[children[q][k]]
      BY DEF SameEnds
    <3>1. CASE q = p
      <4>1. ASSUME k <= Len(children[q]) PROVE ch1[q][k] = children[q][k]
        <5>1. k \in 1 .. last
          BY <3>1, <4>1, <1>2 DEF Index
        <5> QED BY <5>1, <3>1, <1>5, <1>7, <1>10
      <4> QED BY <4>1, <1>8
    <3>2. CASE q # p
      BY <3>2, <1>7
    <3> QED BY <3>1, <3>2
  <2>2. Agree(links, ch1)
    BY <2>1, <1>1, AgreeWithOtherEdges
  <2>3. L1 = links
    BY <1>10 DEF L1, ExchangedLinks
  <2>4. SameLinked(links, L1)
    BY <2>3 DEF SameLinked
  <2> QED BY <2>2, <2>3, <2>4, <1>1, <1>3
<1>11. ASSUME i # last
       PROVE  /\ LinksType(L1) /\ Agree(L1, ch1) /\ SameLinked(links, L1)
              /\ L1.parentIndex[p][last] # 0
  <2>1. L1 = SwapChildren(links, p, Child[children[p][i]], i, Child[children[p][last]], last)
    BY <1>11 DEF L1, ExchangedLinks
  <2>2. e # end
    <3>1. edgeIndex[children[p][i]] = i /\ edgeIndex[children[p][last]] = last
      BY <1>2, PlaceOfEdge
    <3> QED BY <3>1, <1>11 DEF end
  <2>3. Child[children[p][i]] # Child[children[p][last]]
    BY <2>2 DEF end
  <2>4. EdgesSwapped(children, ch1, p, i, last)
    <3> SUFFICES ASSUME NEW q \in Node, NEW k \in Index, k <= Len(children[q])
                 PROVE  ch1[q][k] = IF q = p /\ k = i THEN children[p][last]
                                    ELSE IF q = p /\ k = last THEN children[p][i]
                                    ELSE children[q][k]
      BY <1>8 DEF EdgesSwapped
    <3>1. CASE q = p
      <4>1. ASSUME k <= Len(children[q])
            PROVE  k \in 1 .. last
        BY <3>1, <4>1, <1>2 DEF Index
      <4> QED BY <4>1, <3>1, <1>5, <1>7, <1>11 DEF end
    <3>2. CASE q # p
      BY <3>2, <1>7
    <3> QED BY <3>1, <3>2
  <2>5. MaySwap(links, children, ch1, p, i, last)
    BY <2>3, <2>4, <1>1, <1>3, <1>11 DEF MaySwap
  <2>6. Agree(L1, ch1) /\ LinksType(L1) /\ SameLinked(links, L1)
    BY <2>1, <2>5, <1>2, SwapChildrenAgrees
  <2>7. L1.parentIndex[p][last] # 0
    BY <2>6, <1>2, <1>3 DEF SameLinked
  <2> QED BY <2>6, <2>7
<1>12. /\ LinksType(L1) /\ Agree(L1, ch1) /\ SameLinked(links, L1)
       /\ L1.parentIndex[p][last] # 0
  BY <1>10, <1>11
<1>13. ReadyToPop(L1, ch1, p, i, last)
  <2> HIDE DEF last
  <2> QED BY <1>12, <1>2, <1>7, <1>8, <1>9 DEF ReadyToPop
<1> QED BY <1>13 DEF L1, ch1

LEMMA RemoveDependencyInv == ASSUME IInv, NEW e \in Edge, RemoveDependency(e) PROVE IInv'
<1> DEFINE p == Owner[e]
           i == edgeIndex[e]
           last == Len(children[p])
           c == Child[e]
           L2 == links'
           N2 == NecessaryNodes'
<1>1. /\ stack = <<>> /\ p \in ExpertNode /\ valid[p] /\ i # 0
      /\ Necessary(p) => ~BorrowedTwice(p, e)
      /\ ExchangeAndPop(p, i, last)
      /\ UNCHANGED <<observed, forced, valid, panicked>>
      /\ ~Necessary(p) => links' = links /\ stack' = stack
  BY DEF RemoveDependency, Idle
<1>2. /\ LinksType(links) /\ ChildrenType(children) /\ Agree(links, children)
      /\ valid \in [Node -> BOOLEAN]
      /\ \A n \in Node : Len(children[n]) \in Nat /\ Len(children[n]) <= MaxChildren
      /\ \A n \in Node : \A k \in 1 .. Len(children[n]) : k \in Index
      /\ \A n \in Node, k \in Index : links.parentIndex[n][k] # 0 => k \in 1 .. Len(children[n])
      /\ \A n \in Node : RestOK(n, links, children, valid, NecessaryNodes)
      /\ \A m : ~On(stack, m)
      /\ \A k \in 1 .. Len(stack) : FALSE
  BY <1>1, InvFacts, IdleFacts, IdleBut
<1>3. /\ p \in Node /\ c \in Node /\ last \in Nat /\ i \in 1 .. last /\ children[p][i] = e
  <2>1. p \in Node /\ c \in Node
    BY EdgeAssumption
  <2>2. i \in Nat
    BY DEF IInv, TypeOK
  <2>3. i <= last /\ children[p][i] = e
    BY <1>1 DEF IInv, EdgeIndicesAgree
  <2> QED BY <2>1, <2>2, <2>3, <1>1, <1>2
<1>4. /\ ChildrenInv' /\ EdgeIndicesAgree'
      /\ ChildrenType(children') /\ edgeIndex' \in [Edge -> 0 .. MaxChildren]
      /\ Exchanged(p, i, last, e)
  BY <1>1, EdgesExchanged, KindAssumption
<1>5. ASSUME NEW n \in Node, NEW k \in 1 .. Len(children'[n])
      PROVE  /\ k \in 1 .. Len(children[n]) /\ k \in Index /\ ~(n = p /\ k = last)
  <2>1. CASE n = p
    <3>1. k \in 1 .. last - 1
      BY <2>1, <1>4 DEF Exchanged
    <3>2. k \in 1 .. last /\ k # last
      BY <3>1, <1>3
    <3> QED BY <3>2, <2>1, <1>2
  <2>2. CASE n # p
    BY <2>2, <1>2, <1>4 DEF Exchanged
  <2> QED BY <2>1, <2>2
<1>6. CASE ~Necessary(p)
  <2>1. links' = links /\ stack' = stack
    BY <1>1, <1>6
  <2>2. N2 = NecessaryNodes
    BY <2>1, <1>1 DEF NecessaryNodes, Necessary, NecessaryIn
  <2>3. ASSUME NEW n \in Node PROVE RestOK(n, links, children', valid, NecessaryNodes)
    BY <1>2, <1>5 DEF RestOK
  <2>4. LoopsAgree({}, <<>>, links, children', valid, NecessaryNodes)
    BY <2>3, NoLoops
  <2>5. ASSUME NEW q \in Node, NEW k \in Index, links.parentIndex[q][k] # 0
        PROVE  q # p
    BY <2>5, <1>2, <1>6, NecessaryNow DEF RestOK
  <2>6. SameEnds(links, children, children')
    BY <2>5, <1>4 DEF SameEnds, Exchanged
  <2>7. Agree(links, children')
    BY <2>6, <1>2, AgreeWithOtherEdges
  <2>8. forced' \in Node \union {NoNode}
    BY <1>1 DEF IInv, TypeOK
  <2>9. stack' = <<>> /\ valid' = valid
    BY <2>1, <1>1
  <2> QED BY <2>1, <2>2, <2>4, <2>7, <2>8, <2>9, <1>1, <1>2, <1>4, EmptyStack, OtherEdges
<1>7. CASE Necessary(p)
  <2> DEFINE L1 == ExchangedLinks(p, i, last)
             ch1 == ExchangedEdges(p, i, last)
  <2>1. /\ L2 = RemoveParent(L1, c, last, p)
        /\ stack' = EnterUnlessNecessary(stack, L2, c)
    BY <1>1, <1>3, <1>7 DEF RemoveDependency, ExchangedLinks
  <2>2. ReadyToPop(L1, ch1, p, i, last)
    <3>1. e # children[p][last] => c # Child[children[p][last]]
      BY <1>1, <1>7 DEF BorrowedTwice
    <3>2. p \in NecessaryNodes
      BY <1>3, <1>7, NecessaryNow
    <3> HIDE DEF c, L1, ch1, p, i
    <3>3. children[p][i] # children[p][last] => Child[children[p][i]] # Child[children[p][last]]
      BY <3>1, <1>3 DEF c
    <3>4. stack = <<>> /\ valid[p]
      BY <1>1
    <3> QED BY <3>2, <3>3, <3>4, <1>3, ExchangeLinked DEF L1, ch1
  <2> HIDE DEF L1, ch1, L2, p, i
  <2>3. /\ LinksType(L1) /\ ChildrenType(ch1) /\ Agree(L1, ch1)
        /\ last \in Index /\ L1.parentIndex[p][last] # 0 /\ c = Child[ch1[p][last]]
    BY <2>2, <1>3 DEF ReadyToPop
  <2> HIDE DEF last, c
  <2>4. /\ LinksType(L2)
        /\ L2.parentIndex[p][last] = 0
        /\ \A q \in Node, k \in Index : ~(q = p /\ k = last) =>
             (L2.parentIndex[q][k] # 0 <=> L1.parentIndex[q][k] # 0)
        /\ L1.parents[c] # <<>>
        /\ \A d \in Node : d # c => L2.parents[d] = L1.parents[d]
    <3>1. L2 = RemoveParent(L1, Child[ch1[p][last]], last, p)
      BY <2>1, <2>3
    <3> QED BY <3>1, <2>3, <1>3, LinkedAfterRemove
  <2>5. Agree(L2, ch1)
    <3>1. Agree(RemoveParent(L1, Child[ch1[p][last]], last, p), ch1)
      BY <2>3, <1>3, RemoveParentAgrees
    <3> QED BY <3>1, <2>1, <2>3
  <2>6. SameEnds(L2, ch1, children')
    <3> SUFFICES ASSUME NEW q \in Node, NEW k \in Index, L2.parentIndex[q][k] # 0,
                        k <= Len(ch1[q])
                 PROVE  k <= Len(children'[q]) /\ Child[children'[q][k]] = Child[ch1[q][k]]
      BY DEF SameEnds
    <3>1. CASE q = p
      <4>1. k # last /\ k <= last
        BY <3>1, <2>2, <2>4, <1>3 DEF ReadyToPop, last
      <4>2. k \in 1 .. last - 1
        BY <4>1, <1>3 DEF Index
      <4> QED BY <4>2, <3>1, <2>2, <1>3, <1>4 DEF ReadyToPop, Exchanged
    <3>2. CASE q # p
      BY <3>2, <2>2, <1>4 DEF ReadyToPop, Exchanged
    <3> QED BY <3>1, <3>2
  <2>7. Agree(L2, children')
    BY <2>4, <2>5, <2>6, AgreeWithOtherEdges
  <2>8. SameLinked(links, L1)
    BY <2>2 DEF ReadyToPop
  <2>9. /\ \A d \in Node : d # c => (d \in N2 <=> d \in NecessaryNodes)
        /\ c \in NecessaryNodes
        /\ c \in N2 <=> NecessaryIn(L2, c)
    BY <2>4, <2>8, <1>1, <1>3, NecessaryNext, NecessaryNow DEF SameLinked, L2, NecessaryIn
  <2> HIDE DEF N2
  <2>10. ASSUME NEW n \in Node PROVE RestOK(n, L2, children', valid, NecessaryNodes)
    <3> SUFFICES ASSUME NEW k \in 1 .. Len(children'[n])
                 PROVE  L2.parentIndex[n][k] # 0 <=> valid[n] /\ n \in NecessaryNodes
      BY DEF RestOK
    <3>1. k \in 1 .. Len(children[n]) /\ k \in Index /\ ~(n = p /\ k = last)
      BY <1>5
    <3>2. L2.parentIndex[n][k] # 0 <=> links.parentIndex[n][k] # 0
      BY <3>1, <2>4, <2>8 DEF SameLinked
    <3> QED BY <3>1, <3>2, <1>2 DEF RestOK
  <2>11. LoopsAgree({c}, stack, L2, children', valid, N2)
    <3>1. \A n \in Node \ {c} : RestOK(n, L2, children', valid, N2)
      BY <2>9, <2>10 DEF RestOK
    <3> QED BY <3>1, <1>1, NoLoops
  <2>12. NecessaryIn(L2, c) \/ ~valid[c] => RestOK(c, L2, children', valid, N2)
    BY <2>9, <2>10, <1>3 DEF RestOK
  <2>13. ~NecessaryIn(L2, c) /\ valid[c] =>
           \A k \in 1 .. Len(children'[c]) : L2.parentIndex[c][k] # 0
    BY <2>9, <2>10, <1>3 DEF RestOK
  <2>14. stack' \in Seq(Frame) /\ LoopsAgree({}, stack', L2, children', valid, N2)
    <3>1. stack \in Seq(Frame)
      BY <1>1, EmptyStack
    <3> QED BY <3>1, <2>1, <2>9, <2>11, <2>12, <2>13, <1>2, <1>3, <1>4, EnterUnlink
  <2>15. forced' \in Node \union {NoNode} /\ valid' = valid
    BY <1>1 DEF IInv, TypeOK
  <2> QED BY <2>4, <2>7, <2>14, <2>15, <1>1, <1>4, OtherEdges DEF L2, N2
<1> QED BY <1>6, <1>7

-----------------------------------------------------------------------------
(***************************************************************************)
(* The theorems.                                                           *)
(***************************************************************************)
LEMMA StutterInv == IInv /\ UNCHANGED vars => IInv'
<1> SUFFICES ASSUME IInv, UNCHANGED vars PROVE IInv'
  OBVIOUS
<1>1. UNCHANGED <<children, edgeIndex, links, observed, forced, valid, stack, panicked>>
  BY DEF vars
<1>2. NecessaryNodes' = NecessaryNodes
  BY <1>1 DEF NecessaryNodes, Necessary, NecessaryIn
<1>3. LinksType(links) /\ Agree(links, children)
  BY InvFacts
<1> QED BY <1>1, <1>2, <1>3, SameEdges DEF IInv, TypeOK

LEMMA NextInv == IInv /\ [Next]_vars => IInv'
<1> SUFFICES ASSUME IInv, Next PROVE IInv'
  BY StutterInv
<1>1. ASSUME NEW n \in Node, Observe(n) \/ Unobserve(n) \/ InvalidateNode(n) PROVE IInv'
  BY <1>1, ObserveInv, UnobserveInv, InvalidateNodeInv
<1>2. ASSUME NEW e \in Edge, AddDependency(e) \/ RemoveDependency(e)
                               \/ RemoveDependencyPanics(e) \/ ChangeChild(e)
      PROVE  IInv'
  BY <1>2, AddDependencyInv, RemoveDependencyInv, RemoveDependencyPanicsInv, ChangeChildInv
<1> QED BY <1>1, <1>2, UnforceInv, LinkChildInv, UnlinkChildInv, LoopEndsInv DEF Next

\* The invariant holds from the start and through every turn of every loop.
THEOREM Invariance == Spec => []IInv
<1>1. Init => IInv
  BY InitInv
<1>2. IInv /\ [Next]_vars => IInv'
  BY NextInv
<1> QED BY <1>1, <1>2, PTL DEF Spec

\* The fields of the nodes and edges keep their types.
THEOREM TypeCorrect == Spec => []TypeOK
<1>1. IInv => TypeOK
  BY DEF IInv
<1> QED BY <1>1, Invariance, PTL

LEMMA AgreeIsLinksAgree == IInv => LinksAgree
<1> SUFFICES ASSUME IInv PROVE LinksAgree
  OBVIOUS
<1>1. LinksType(links) /\ Agree(links, children)
  BY InvFacts
<1>2. EdgesHaveEntries
  BY <1>1 DEF EdgesHaveEntries, Linked, Agree, EdgeHasEntry
<1>3. ASSUME NEW c \in Node, NEW j \in DOMAIN links.parents[c]
      PROVE  EntryHasEdge(links, children, c, j)
  <2>1. links.parents[c] \in Seq(Link)
    BY <1>1 DEF LinksType
  <2>2. j \in 1 .. Len(links.parents[c])
    BY <2>1
  <2> QED BY <2>2, <1>1 DEF Agree
<1>4. EntriesHaveEdges
  BY <1>3 DEF EntriesHaveEdges, EntryHasEdge
<1> QED BY <1>2, <1>4 DEF LinksAgree

\* An edge that says where it is in its child's parents is there, and every
\* entry there is an edge's: what remove_parent and child_changed index by.
THEOREM IndicesNeverDangle == Spec => []LinksAgree
BY AgreeIsLinksAgree, Invariance, PTL

\* An Expert node's edges know their places.
THEOREM EdgesKnowTheirPlaces == Spec => []EdgeIndicesAgree
<1>1. IInv => EdgeIndicesAgree
  BY DEF IInv
<1> QED BY <1>1, Invariance, PTL

LEMMA IdleIsLinked == IInv => LinkedWhenNecessary
<1> SUFFICES ASSUME IInv, stack = <<>>, NEW n \in Node
             PROVE  Linked(n) = IF valid[n] /\ Necessary(n) THEN 1 .. Len(children[n]) ELSE {}
  BY DEF LinkedWhenNecessary, Idle
<1>1. RestOK(n, links, children, valid, NecessaryNodes)
  BY IdleFacts
<1>2. \A k \in Index : links.parentIndex[n][k] # 0 => k \in 1 .. Len(children[n])
  BY InvFacts
<1>3. \A k \in 1 .. Len(children[n]) : k \in Index
  BY InvFacts
<1>4. \A k \in 1 .. Len(children[n]) :
         links.parentIndex[n][k] # 0 <=> valid[n] /\ Necessary(n)
  BY <1>1, NecessaryNow DEF RestOK
<1>5. CASE valid[n] /\ Necessary(n)
  BY <1>2, <1>3, <1>4, <1>5 DEF Linked
<1>6. CASE ~(valid[n] /\ Necessary(n))
  BY <1>2, <1>4, <1>6 DEF Linked
<1> QED BY <1>5, <1>6

\* Between calls, exactly the children of necessary valid nodes know them.
THEOREM NecessaryNodesAreLinked == Spec => []LinkedWhenNecessary
BY IdleIsLinked, Invariance, PTL
=============================================================================
