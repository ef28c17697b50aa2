---------------------------- MODULE SymmetricFold ----------------------------
(***************************************************************************)
(* Sorted maps and their differences (src/incremental-map/src/             *)
(* symmetric_fold.rs).  A map is a function on a set of keys; an iterator  *)
(* is the sequence that it yields.  An element of a difference has the     *)
(* value that the key had and the one that it has: `DiffElement::Left` is  *)
(* one without a new value, `Right` one without an old one, `Unequal` has  *)
(* both.                                                                   *)
(***************************************************************************)
EXTENDS Naturals, SequencesExt

CONSTANTS Key,    \* the keys, numbers for their order
          Value,  \* the values
          None    \* Option::None

ASSUME KeyAssumption == Key \subseteq Nat /\ IsFiniteSet(Key)
ASSUME NoneAssumption == None \notin Value

Maps == UNION {[keys -> Value] : keys \in SUBSET Key}
EmptyMap == [k \in {} |-> None]

MapGet(map, k) == IF k \in DOMAIN map THEN map[k] ELSE None
MapInsert(map, k, v) == [x \in DOMAIN map \union {k} |-> IF x = k THEN v ELSE map[x]]
MapRemove(map, k) == Restrict(map, DOMAIN map \ {k})
Sorted(keys) == CHOOSE s \in [1 .. Cardinality(keys) -> keys] :
                  \A i, j \in DOMAIN s : i < j => s[i] < s[j]
Keys(map) == Sorted(DOMAIN map)

\* Fault: the merge drops the other key whenever it takes one.
MergeOnceDropping(a, b) ==
  LET Turns == (1 .. Len(a) + 2) \X (1 .. Len(b) + 2)
      merged[t \in Turns] ==
        LET i == t[1]
            j == t[2]
            aFirst == i <= Len(a) /\ (j > Len(b) \/ a[i] <= b[j])
        IN  IF i > Len(a) /\ j > Len(b) THEN <<>>
            ELSE IF aFirst THEN <<a[i]>> \o merged[<<i + 1, IF j <= Len(b) THEN j + 1 ELSE j>>]
            ELSE <<b[j]>> \o merged[<<i, j + 1>>]
  IN  merged[<<1, 1>>]

\* Two sorted sequences in one, common elements once.
MergeOnce(a, b) ==
  LET Turns == (1 .. Len(a) + 1) \X (1 .. Len(b) + 1)
      merged[t \in Turns] ==
        LET i == t[1]
            j == t[2]
            aFirst == i <= Len(a) /\ (j > Len(b) \/ a[i] <= b[j])
            both == i <= Len(a) /\ j <= Len(b) /\ a[i] = b[j]
        IN  IF i > Len(a) /\ j > Len(b) THEN <<>>
            ELSE IF aFirst THEN <<a[i]>> \o merged[<<i + 1, IF both THEN j + 1 ELSE j>>]
            ELSE <<b[j]>> \o merged[<<i, j + 1>>]
  IN  merged[<<1, 1>>]

\* The same for sequences of elements with keys, which keeps both of a pair.
MergeOnceWith(a, b) ==
  LET Turns == (1 .. Len(a) + 1) \X (1 .. Len(b) + 1)
      merged[t \in Turns] ==
        LET i == t[1]
            j == t[2]
            isLess == i <= Len(a) /\ (j > Len(b) \/ a[i].key < b[j].key)
            isGreater == j <= Len(b) /\ (i > Len(a) \/ b[j].key < a[i].key)
        IN  IF i > Len(a) /\ j > Len(b) THEN <<>>
            ELSE IF isLess THEN <<[key |-> a[i].key, left |-> <<a[i]>>, right |-> <<>>]>>
                                \o merged[<<i + 1, j>>]
            ELSE IF isGreater THEN <<[key |-> b[j].key, left |-> <<>>, right |-> <<b[j]>>]>>
                                   \o merged[<<i, j + 1>>]
            ELSE <<[key |-> a[i].key, left |-> <<a[i]>>, right |-> <<b[j]>>]>>
                 \o merged[<<i + 1, j + 1>>]
  IN  merged[<<1, 1>>]

DiffElement(self, other, k) == [key |-> k, old |-> MapGet(self, k), new |-> MapGet(other, k)]

\* The iterator over references: the merged keys, looked up in both maps.
SymmetricDiff(self, other) ==
  FoldLeft(LAMBDA diff, k : IF MapGet(self, k) = MapGet(other, k) THEN diff
                            ELSE Append(diff, DiffElement(self, other, k)),
           <<>>, MergeOnce(Keys(self), Keys(other)))

\* The iterator over owned maps: both are consumed side by side.
SymmetricDiffOwned(self, other) ==
  LET a == Keys(self)
      b == Keys(other)
      Turns == (1 .. Len(a) + 1) \X (1 .. Len(b) + 1)
      rest[t \in Turns] ==
        LET i == t[1]
            j == t[2]
            isLess == i <= Len(a) /\ (j > Len(b) \/ a[i] < b[j])
            isGreater == j <= Len(b) /\ (i > Len(a) \/ b[j] < a[i])
        IN  IF i > Len(a) /\ j > Len(b) THEN <<>>
            ELSE IF isLess THEN <<[key |-> a[i], old |-> self[a[i]], new |-> None]>>
                                \o rest[<<i + 1, j>>]
            ELSE IF isGreater THEN <<[key |-> b[j], old |-> None, new |-> other[b[j]]]>>
                                   \o rest[<<i, j + 1>>]
            ELSE (IF self[a[i]] # other[b[j]]
                  THEN <<[key |-> a[i], old |-> self[a[i]], new |-> other[b[j]]]>>
                  ELSE <<>>) \o rest[<<i + 1, j + 1>>]
  IN  rest[<<1, 1>>]

KeysOf(diff) == {diff[i].key : i \in DOMAIN diff}

\* What a difference is: the keys whose values differ, in order, once each.
ChangedKeys(self, other) ==
  {k \in DOMAIN self \union DOMAIN other : MapGet(self, k) # MapGet(other, k)}
IsDiff(diff, self, other) ==
  diff = [i \in 1 .. Cardinality(ChangedKeys(self, other)) |->
            DiffElement(self, other, Sorted(ChangedKeys(self, other))[i])]
=============================================================================
