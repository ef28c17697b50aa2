------------------------ MODULE IncrementalMapProofs ------------------------
(***************************************************************************)
(* What IncrementalMap promises, for any keys, values and closures.  The   *)
(* two iterators over a difference yield what a difference is; each        *)
(* operator's loop over it turns the operator's output for the old input   *)
(* into that for the new one; so the output is right after any sequence of *)
(* inputs.  Last, the nodes of incr_filter_mapi_.                          *)
(*                                                                         *)
(* The loops are FoldLeft with one of the model's operators.  An operator  *)
(* cannot be the parameter of a lemma, so that there is one lemma about    *)
(* its loop for each; the common part is Loops and LoopOf.                 *)
(***************************************************************************)
EXTENDS IncrementalMap, FiniteSetTheorems, WellFoundedInduction, TLAPS

(***************************************************************************)
(* Induction, for sets instead of predicates: what holds of 0 and passes   *)
(* from each number to the next holds of all up to n.                      *)
(***************************************************************************)
LEMMA LeastElement ==
  ASSUME NEW T \in SUBSET Nat, T # {}
  PROVE  \E x \in T : \A y \in T : x <= y
<1> DEFINE R == OpToRel(<, Nat)
<1>0. T \subseteq Nat
  OBVIOUS
<1>1. IsWellFoundedOn(R, Nat)
  BY NatLessThanWellFounded, Zenon
<1>2. \A x, y \in Nat : y < x => <<y, x>> \in R
  <2> SUFFICES ASSUME NEW x \in Nat, NEW y \in Nat, y < x
               PROVE  <<y, x>> \in {ss \in Nat \X Nat : ss[1] < ss[2]}
    BY Zenon DEF OpToRel
  <2> QED OBVIOUS
<1> HIDE DEF R
<1>3. PICK x \in T : \A y \in T : <<y, x>> \notin R
  BY <1>1, <1>0, WFMin, Zenon
<1>4. \A y \in T : ~(y < x)
  BY <1>0, <1>2, <1>3, Zenon
<1>5. \A y \in T : x <= y
  BY <1>0, <1>4
<1> QED BY <1>5

LEMMA Induction ==
  ASSUME NEW n \in Nat, NEW P, 0 \in P, \A i \in 0 .. n - 1 : i \in P => i + 1 \in P
  PROVE  \A i \in 0 .. n : i \in P
<1> DEFINE T == {i \in 0 .. n : i \notin P}
<1>1. SUFFICES ASSUME T # {} PROVE FALSE
  OBVIOUS
<1>2. PICK x \in T : \A y \in T : x <= y
  <2>1. T \in SUBSET Nat
    OBVIOUS
  <2> HIDE DEF T
  <2> QED BY <1>1, <2>1, LeastElement
<1>3. x - 1 \in 0 .. n - 1
  BY <1>2
<1>4. x - 1 \in P
  BY <1>2, <1>3
<1>5. (x - 1) + 1 \in P /\ (x - 1) + 1 = x
  BY <1>3, <1>4
<1> QED BY <1>2, <1>5

-----------------------------------------------------------------------------
(***************************************************************************)
(* FoldLeft, which is a recursion on sets of indices, is the loop over the *)
(* sequence.                                                               *)
(***************************************************************************)
LEMMA MaxUpTo == \A i \in Nat \ {0} : Max(1 .. i) = i
<1> SUFFICES ASSUME NEW i \in Nat \ {0} PROVE Max(1 .. i) = i
  OBVIOUS
<1> DEFINE IsMax(x) == x \in 1 .. i /\ \A y \in 1 .. i : x >= y
<1>1. IsMax(i)
  OBVIOUS
<1>2. Max(1 .. i) = CHOOSE x \in 1 .. i : \A y \in 1 .. i : x >= y
  BY Zenon DEF Max
<1>3. IsMax(Max(1 .. i))
  BY <1>1, <1>2, Zenon
<1> QED BY <1>3

LEMMA MaxIn ==
  \A n \in Nat : \A s \in SUBSET (1 .. n) :
    s # {} => /\ Max(s) \in s /\ \A y \in s : Max(s) >= y
              /\ Max(s) \in 1 .. n /\ s \ {Max(s)} \in SUBSET (1 .. n)
<1> SUFFICES ASSUME NEW n \in Nat, NEW s \in SUBSET (1 .. n), s # {}
             PROVE  Max(s) \in s /\ \A y \in s : Max(s) >= y
  OBVIOUS
<1> DEFINE IsMax(x) == x \in s /\ \A y \in s : x >= y
           T == {i \in 0 .. n : n - i \in s}
<1>1. \A y \in s : n - y \in T /\ T \in SUBSET Nat
  OBVIOUS
<1>2. PICK x \in T : \A y \in T : x <= y
  <2> HIDE DEF T
  <2> QED BY <1>1, LeastElement
<1>3. IsMax(n - x)
  BY <1>1, <1>2
<1>4. Max(s) = CHOOSE y \in s : \A z \in s : y >= z
  BY Zenon DEF Max
<1>5. IsMax(Max(s))
  BY <1>3, <1>4, Zenon
<1> QED BY <1>5

\* The recursion of FoldLeft, and the loop, for a step that stays in the set S.
Recurs(h, n, S, base, step) ==
  /\ h[{}] = base
  /\ \A s \in SUBSET (1 .. n) :
       s # {} /\ h[s \ {Max(s)}] \in S => h[s] = step[<<h[s \ {Max(s)}], Max(s)>>]

Loops(f, n, base, step) == f[0] = base /\ \A i \in 1 .. n : f[i] = step[<<f[i - 1], i>>]

LEMMA FoldExists ==
  ASSUME NEW n \in Nat, NEW S, NEW base \in S, NEW step \in [S \X (1 .. n) -> S]
  PROVE  \E g \in [SUBSET (1 .. n) -> S] : Recurs(g, n, S, base, step)
<1> DEFINE Solves(g, i) ==
             \A s \in SUBSET (1 .. i) :
               g[s] = IF s = {} THEN base ELSE step[<<g[s \ {Max(s)}], Max(s)>>]
           P == {i \in 0 .. n : \E g \in [SUBSET (1 .. i) -> S] : Solves(g, i)}
<1>1. 0 \in P
  <2> DEFINE g0 == [s \in SUBSET (1 .. 0) |-> base]
  <2>1. \A s \in SUBSET (1 .. 0) : s = {} /\ g0[s] = base
    OBVIOUS
  <2>2. g0 \in [SUBSET (1 .. 0) -> S]
    OBVIOUS
  <2> HIDE DEF g0
  <2>3. Solves(g0, 0)
    BY <2>1, Zenon
  <2>4. \E g \in [SUBSET (1 .. 0) -> S] : Solves(g, 0)
    BY <2>2, <2>3, Zenon
  <2>5. 0 \in 0 .. n
    OBVIOUS
  <2> QED BY <2>4, <2>5, Zenon
<1>2. ASSUME NEW i \in 0 .. n - 1, i \in P PROVE i + 1 \in P
  <2>1. PICK g \in [SUBSET (1 .. i) -> S] : Solves(g, i)
    BY <1>2
  <2> DEFINE G == [s \in SUBSET (1 .. i + 1) |->
                     IF i + 1 \in s THEN step[<<g[s \ {i + 1}], i + 1>>] ELSE g[s]]
  <2>2. \A s \in SUBSET (1 .. i + 1) : s \ {i + 1} \in SUBSET (1 .. i) /\ (i + 1 \notin s => s \in SUBSET (1 .. i))
    OBVIOUS
  <2>3. G \in [SUBSET (1 .. i + 1) -> S]
    BY <2>1, <2>2
  <2>4. ASSUME NEW s \in SUBSET (1 .. i + 1)
        PROVE  G[s] = IF s = {} THEN base ELSE step[<<G[s \ {Max(s)}], Max(s)>>]
    <3>1. CASE i + 1 \in s
      <4>1. Max(s) = i + 1
        <5>1. Max(s) \in s /\ \A y \in s : Max(s) >= y
          <6>1. i + 1 \in Nat /\ s # {}
            BY <3>1
          <6> QED BY <6>1, MaxIn
        <5>2. Max(s) \in 1 .. i + 1 /\ Max(s) >= i + 1
          BY <3>1, <5>1
        <5> QED BY <5>2
      <4>2. s \ {i + 1} \in SUBSET (1 .. i + 1) /\ i + 1 \notin s \ {i + 1}
        OBVIOUS
      <4>3. G[s \ {i + 1}] = g[s \ {i + 1}]
        BY <4>2
      <4> HIDE DEF G
      <4>4. G[s] = step[<<g[s \ {i + 1}], i + 1>>]
        BY <3>1 DEF G
      <4> QED BY <3>1, <4>1, <4>3, <4>4
    <3>2. CASE i + 1 \notin s
      <4>1. s \in SUBSET (1 .. i) /\ s \ {Max(s)} \in SUBSET (1 .. i)
        BY <3>2, <2>2
      <4>2. G[s] = g[s] /\ G[s \ {Max(s)}] = g[s \ {Max(s)}]
        BY <3>2, <4>1, \A t \in SUBSET (1 .. i) : t \in SUBSET (1 .. i + 1) /\ i + 1 \notin t
      <4> HIDE DEF G
      <4> QED BY <2>1, <4>1, <4>2
    <3> QED BY <3>1, <3>2
  <2>5. Solves(G, i + 1)
    BY <2>4
  <2> HIDE DEF G, Solves
  <2> QED BY <2>3, <2>5, i + 1 \in 0 .. n
<1>3. n \in P
  <2> HIDE DEF P
  <2> QED BY <1>1, <1>2, Induction
<1>4. PICK g \in [SUBSET (1 .. n) -> S] : Solves(g, n)
  BY <1>3
<1>5. Recurs(g, n, S, base, step)
  BY <1>4 DEF Recurs
<1> QED BY <1>5

LEMMA UpTo ==
  \A n \in Nat : \A i \in 1 .. n :
    /\ 1 .. i \in SUBSET (1 .. n) /\ 1 .. i # {}
    /\ Max(1 .. i) = i
    /\ (1 .. i) \ {i} = 1 .. i - 1
<1> SUFFICES ASSUME NEW n \in Nat, NEW i \in 1 .. n
             PROVE  /\ 1 .. i \in SUBSET (1 .. n) /\ 1 .. i # {}
                    /\ Max(1 .. i) = i
                    /\ (1 .. i) \ {i} = 1 .. i - 1
  OBVIOUS
<1> QED BY MaxUpTo

\* What has been accumulated after i turns, for a solution h of that recursion.
LEMMA LoopOf ==
  ASSUME NEW n \in Nat, NEW S, NEW base \in S, NEW step \in [S \X (1 .. n) -> S],
         NEW h, Recurs(h, n, S, base, step)
  PROVE  \E f \in [0 .. n -> S] : f[n] = h[1 .. n] /\ Loops(f, n, base, step)
<1> DEFINE P == {i \in 0 .. n : h[1 .. i] \in S}
           f == [i \in 0 .. n |-> h[1 .. i]]
<1>1. 1 .. 0 = {} /\ h[1 .. 0] = base
  BY DEF Recurs
<1>2. ASSUME NEW i \in 1 .. n, h[1 .. i - 1] \in S
      PROVE  h[1 .. i] = step[<<h[1 .. i - 1], i>>]
  BY <1>2, UpTo DEF Recurs
<1>3. \A i \in 0 .. n - 1 : i \in P => i + 1 \in P
  <2> SUFFICES ASSUME NEW i \in 0 .. n - 1, h[1 .. i] \in S PROVE h[1 .. i + 1] \in S
    OBVIOUS
  <2>1. i + 1 \in 1 .. n /\ (i + 1) - 1 = i
    OBVIOUS
  <2>2. h[1 .. i + 1] = step[<<h[1 .. i], i + 1>>]
    BY <1>2, <2>1
  <2> QED BY <2>1, <2>2
<1>4. \A i \in 0 .. n : h[1 .. i] \in S
  <2>1. 0 \in P
    BY <1>1
  <2>2. \A i \in 0 .. n : i \in P
    <3> HIDE DEF P
    <3> QED BY <1>3, <2>1, Induction
  <2> QED BY <2>2
<1>5. f \in [0 .. n -> S] /\ f[0] = base /\ f[n] = h[1 .. n]
  BY <1>1, <1>4
<1>6. Loops(f, n, base, step)
  BY <1>2, <1>4, <1>5 DEF Loops
<1> QED BY <1>5, <1>6

(***************************************************************************)
(* One lemma for each loop: `f[i]` is what has been accumulated after i    *)
(* turns.                                                                  *)
(***************************************************************************)
FilterMapClosed(S, E) == \A s \in S, e \in E : FilterMapStep(s, e) \in S
FilterMapFold(base, seq) == FoldLeft(FilterMapStep, base, seq)

LEMMA FilterMapLoop ==
  ASSUME NEW S, NEW E, NEW base \in S, NEW seq \in Seq(E),
         FilterMapClosed(S, E)
  PROVE  \E f \in [0 .. Len(seq) -> S] :
           /\ f[0] = base /\ f[Len(seq)] = FilterMapFold(base, seq)
           /\ \A i \in 1 .. Len(seq) : f[i] = FilterMapStep(f[i - 1], seq[i])
<1> DEFINE n == Len(seq)
           Eq(g) == g = [s \in SUBSET DOMAIN seq |->
                           IF s = {} THEN base ELSE FilterMapStep(g[s \ {Max(s)}], seq[Max(s)])]
           step == [p \in S \X (1 .. n) |-> FilterMapStep(p[1], seq[p[2]])]
<1>1. /\ n \in Nat /\ DOMAIN seq = 1 .. n /\ step \in [S \X (1 .. n) -> S]
      /\ \A s \in S, i \in 1 .. n : step[<<s, i>>] = FilterMapStep(s, seq[i])
  BY DEF FilterMapClosed
<1> HIDE DEF step, n
<1>2. PICK g \in [SUBSET (1 .. n) -> S] : Recurs(g, n, S, base, step)
  BY <1>1, FoldExists
<1>3. Eq(g)
  <2>1. \A s \in SUBSET (1 .. n) :
          g[s] = IF s = {} THEN base ELSE FilterMapStep(g[s \ {Max(s)}], seq[Max(s)])
    BY <1>1, <1>2, MaxIn DEF Recurs
  <2> QED BY <1>1, <1>2, <2>1
<1> DEFINE h == CHOOSE g0 : Eq(g0)
<1>4. Eq(h)
  BY <1>3, Zenon
<1>5. FilterMapFold(base, seq) = h[DOMAIN seq]
  BY Zenon DEF FilterMapFold, FoldLeft, MapThenFoldSet
<1> HIDE DEF h
<1>6. Recurs(h, n, S, base, step)
  <2>1. \A s \in SUBSET (1 .. n) :
          h[s] = IF s = {} THEN base ELSE FilterMapStep(h[s \ {Max(s)}], seq[Max(s)])
    BY <1>1, <1>4
  <2> QED BY <1>1, <2>1, MaxIn DEF Recurs
<1>7. PICK f \in [0 .. n -> S] : f[n] = h[1 .. n] /\ Loops(f, n, base, step)
  BY <1>1, <1>6, LoopOf
<1>8. \A i \in 1 .. n : i - 1 \in 0 .. n
  BY <1>1
<1>9. \A i \in 1 .. n : f[i] = FilterMapStep(f[i - 1], seq[i])
  BY <1>1, <1>7, <1>8 DEF Loops
<1>10. f[0] = base /\ f[n] = FilterMapFold(base, seq)
  BY <1>1, <1>5, <1>7 DEF Loops
<1> QED BY <1>7, <1>9, <1>10, Zenon DEF n

DiffStep(self, other, diff, k) ==
  IF MapGet(self, k) = MapGet(other, k) THEN diff ELSE Append(diff, DiffElement(self, other, k))
DiffClosed(self, other, S, E) == \A s \in S, e \in E : DiffStep(self, other, s, e) \in S
DiffFold(self, other, base, seq) == FoldLeft(LAMBDA diff, k : IF MapGet(self, k) = MapGet(other, k) THEN diff
                            ELSE Append(diff, DiffElement(self, other, k)), base, seq)

LEMMA DiffLoop ==
  ASSUME NEW S, NEW E, NEW base \in S, NEW seq \in Seq(E), NEW self, NEW other,
         DiffClosed(self, other, S, E)
  PROVE  \E f \in [0 .. Len(seq) -> S] :
           /\ f[0] = base /\ f[Len(seq)] = DiffFold(self, other, base, seq)
           /\ \A i \in 1 .. Len(seq) : f[i] = DiffStep(self, other, f[i - 1], seq[i])
<1> DEFINE n == Len(seq)
           Eq(g) == g = [s \in SUBSET DOMAIN seq |->
                           IF s = {} THEN base ELSE DiffStep(self, other, g[s \ {Max(s)}], seq[Max(s)])]
           step == [p \in S \X (1 .. n) |-> DiffStep(self, other, p[1], seq[p[2]])]
<1>1. /\ n \in Nat /\ DOMAIN seq = 1 .. n /\ step \in [S \X (1 .. n) -> S]
      /\ \A s \in S, i \in 1 .. n : step[<<s, i>>] = DiffStep(self, other, s, seq[i])
  BY DEF DiffClosed
<1> HIDE DEF step, n
<1>2. PICK g \in [SUBSET (1 .. n) -> S] : Recurs(g, n, S, base, step)
  BY <1>1, FoldExists
<1>3. Eq(g)
  <2>1. \A s \in SUBSET (1 .. n) :
          g[s] = IF s = {} THEN base ELSE DiffStep(self, other, g[s \ {Max(s)}], seq[Max(s)])
    BY <1>1, <1>2, MaxIn DEF Recurs
  <2> QED BY <1>1, <1>2, <2>1
<1> DEFINE h == CHOOSE g0 : Eq(g0)
<1>4. Eq(h)
  BY <1>3, Zenon
<1>5. DiffFold(self, other, base, seq) = h[DOMAIN seq]
  BY Zenon DEF DiffFold, DiffStep, FoldLeft, MapThenFoldSet
<1> HIDE DEF h
<1>6. Recurs(h, n, S, base, step)
  <2>1. \A s \in SUBSET (1 .. n) :
          h[s] = IF s = {} THEN base ELSE DiffStep(self, other, h[s \ {Max(s)}], seq[Max(s)])
    BY <1>1, <1>4
  <2> QED BY <1>1, <2>1, MaxIn DEF Recurs
<1>7. PICK f \in [0 .. n -> S] : f[n] = h[1 .. n] /\ Loops(f, n, base, step)
  BY <1>1, <1>6, LoopOf
<1>8. \A i \in 1 .. n : i - 1 \in 0 .. n
  BY <1>1
<1>9. \A i \in 1 .. n : f[i] = DiffStep(self, other, f[i - 1], seq[i])
  BY <1>1, <1>7, <1>8 DEF Loops
<1>10. f[0] = base /\ f[n] = DiffFold(self, other, base, seq)
  BY <1>1, <1>5, <1>7 DEF Loops
<1> QED BY <1>7, <1>9, <1>10, Zenon DEF n

AddClosed(map, S, E) == \A s \in S, e \in E : Add(s, e, map[e]) \in S
AddFold(map, base, seq) == FoldLeft(LAMBDA a, k : Add(a, k, map[k]), base, seq)

LEMMA AddLoop ==
  ASSUME NEW S, NEW E, NEW base \in S, NEW seq \in Seq(E), NEW map,
         AddClosed(map, S, E)
  PROVE  \E f \in [0 .. Len(seq) -> S] :
           /\ f[0] = base /\ f[Len(seq)] = AddFold(map, base, seq)
           /\ \A i \in 1 .. Len(seq) : f[i] = Add(f[i - 1], seq[i], map[seq[i]])
<1> DEFINE n == Len(seq)
           Eq(g) == g = [s \in SUBSET DOMAIN seq |->
                           IF s = {} THEN base ELSE Add(g[s \ {Max(s)}], seq[Max(s)], map[seq[Max(s)]])]
           step == [p \in S \X (1 .. n) |-> Add(p[1], seq[p[2]], map[seq[p[2]]])]
<1>1. /\ n \in Nat /\ DOMAIN seq = 1 .. n /\ step \in [S \X (1 .. n) -> S]
      /\ \A s \in S, i \in 1 .. n : step[<<s, i>>] = Add(s, seq[i], map[seq[i]])
  BY DEF AddClosed
<1> HIDE DEF step, n
<1>2. PICK g \in [SUBSET (1 .. n) -> S] : Recurs(g, n, S, base, step)
  BY <1>1, FoldExists
<1>3. Eq(g)
  <2>1. \A s \in SUBSET (1 .. n) :
          g[s] = IF s = {} THEN base ELSE Add(g[s \ {Max(s)}], seq[Max(s)], map[seq[Max(s)]])
    BY <1>1, <1>2, MaxIn DEF Recurs
  <2> QED BY <1>1, <1>2, <2>1
<1> DEFINE h == CHOOSE g0 : Eq(g0)
<1>4. Eq(h)
  BY <1>3, Zenon
<1>5. AddFold(map, base, seq) = h[DOMAIN seq]
  BY Zenon DEF AddFold, FoldLeft, MapThenFoldSet
<1> HIDE DEF h
<1>6. Recurs(h, n, S, base, step)
  <2>1. \A s \in SUBSET (1 .. n) :
          h[s] = IF s = {} THEN base ELSE Add(h[s \ {Max(s)}], seq[Max(s)], map[seq[Max(s)]])
    BY <1>1, <1>4
  <2> QED BY <1>1, <2>1, MaxIn DEF Recurs
<1>7. PICK f \in [0 .. n -> S] : f[n] = h[1 .. n] /\ Loops(f, n, base, step)
  BY <1>1, <1>6, LoopOf
<1>8. \A i \in 1 .. n : i - 1 \in 0 .. n
  BY <1>1
<1>9. \A i \in 1 .. n : f[i] = Add(f[i - 1], seq[i], map[seq[i]])
  BY <1>1, <1>7, <1>8 DEF Loops
<1>10. f[0] = base /\ f[n] = AddFold(map, base, seq)
  BY <1>1, <1>5, <1>7 DEF Loops
<1> QED BY <1>7, <1>9, <1>10, Zenon DEF n

FoldClosed(S, E) == \A s \in S, e \in E : FoldStep(s, e) \in S
FoldFold(base, seq) == FoldLeft(FoldStep, base, seq)

LEMMA FoldLoop ==
  ASSUME NEW S, NEW E, NEW base \in S, NEW seq \in Seq(E),
         FoldClosed(S, E)
  PROVE  \E f \in [0 .. Len(seq) -> S] :
           /\ f[0] = base /\ f[Len(seq)] = FoldFold(base, seq)
           /\ \A i \in 1 .. Len(seq) : f[i] = FoldStep(f[i - 1], seq[i])
<1> DEFINE n == Len(seq)
           Eq(g) == g = [s \in SUBSET DOMAIN seq |->
                           IF s = {} THEN base ELSE FoldStep(g[s \ {Max(s)}], seq[Max(s)])]
           step == [p \in S \X (1 .. n) |-> FoldStep(p[1], seq[p[2]])]
<1>1. /\ n \in Nat /\ DOMAIN seq = 1 .. n /\ step \in [S \X (1 .. n) -> S]
      /\ \A s \in S, i \in 1 .. n : step[<<s, i>>] = FoldStep(s, seq[i])
  BY DEF FoldClosed
<1> HIDE DEF step, n
<1>2. PICK g \in [SUBSET (1 .. n) -> S] : Recurs(g, n, S, base, step)
  BY <1>1, FoldExists
<1>3. Eq(g)
  <2>1. \A s \in SUBSET (1 .. n) :
          g[s] = IF s = {} THEN base ELSE FoldStep(g[s \ {Max(s)}], seq[Max(s)])
    BY <1>1, <1>2, MaxIn DEF Recurs
  <2> QED BY <1>1, <1>2, <2>1
<1> DEFINE h == CHOOSE g0 : Eq(g0)
<1>4. Eq(h)
  BY <1>3, Zenon
<1>5. FoldFold(base, seq) = h[DOMAIN seq]
  BY Zenon DEF FoldFold, FoldLeft, MapThenFoldSet
<1> HIDE DEF h
<1>6. Recurs(h, n, S, base, step)
  <2>1. \A s \in SUBSET (1 .. n) :
          h[s] = IF s = {} THEN base ELSE FoldStep(h[s \ {Max(s)}], seq[Max(s)])
    BY <1>1, <1>4
  <2> QED BY <1>1, <2>1, MaxIn DEF Recurs
<1>7. PICK f \in [0 .. n -> S] : f[n] = h[1 .. n] /\ Loops(f, n, base, step)
  BY <1>1, <1>6, LoopOf
<1>8. \A i \in 1 .. n : i - 1 \in 0 .. n
  BY <1>1
<1>9. \A i \in 1 .. n : f[i] = FoldStep(f[i - 1], seq[i])
  BY <1>1, <1>7, <1>8 DEF Loops
<1>10. f[0] = base /\ f[n] = FoldFold(base, seq)
  BY <1>1, <1>5, <1>7 DEF Loops
<1> QED BY <1>7, <1>9, <1>10, Zenon DEF n

MergeClosed(S, E) == \A s \in S, e \in E : MergeStep(s, e) \in S
MergeFold(base, seq) == FoldLeft(MergeStep, base, seq)

LEMMA MergeLoop ==
  ASSUME NEW S, NEW E, NEW base \in S, NEW seq \in Seq(E),
         MergeClosed(S, E)
  PROVE  \E f \in [0 .. Len(seq) -> S] :
           /\ f[0] = base /\ f[Len(seq)] = MergeFold(base, seq)
           /\ \A i \in 1 .. Len(seq) : f[i] = MergeStep(f[i - 1], seq[i])
<1> DEFINE n == Len(seq)
           Eq(g) == g = [s \in SUBSET DOMAIN seq |->
                           IF s = {} THEN base ELSE MergeStep(g[s \ {Max(s)}], seq[Max(s)])]
           step == [p \in S \X (1 .. n) |-> MergeStep(p[1], seq[p[2]])]
<1>1. /\ n \in Nat /\ DOMAIN seq = 1 .. n /\ step \in [S \X (1 .. n) -> S]
      /\ \A s \in S, i \in 1 .. n : step[<<s, i>>] = MergeStep(s, seq[i])
  BY DEF MergeClosed
<1> HIDE DEF step, n
<1>2. PICK g \in [SUBSET (1 .. n) -> S] : Recurs(g, n, S, base, step)
  BY <1>1, FoldExists
<1>3. Eq(g)
  <2>1. \A s \in SUBSET (1 .. n) :
          g[s] = IF s = {} THEN base ELSE MergeStep(g[s \ {Max(s)}], seq[Max(s)])
    BY <1>1, <1>2, MaxIn DEF Recurs
  <2> QED BY <1>1, <1>2, <2>1
<1> DEFINE h == CHOOSE g0 : Eq(g0)
<1>4. Eq(h)
  BY <1>3, Zenon
<1>5. MergeFold(base, seq) = h[DOMAIN seq]
  BY Zenon DEF MergeFold, FoldLeft, MapThenFoldSet
<1> HIDE DEF h
<1>6. Recurs(h, n, S, base, step)
  <2>1. \A s \in SUBSET (1 .. n) :
          h[s] = IF s = {} THEN base ELSE MergeStep(h[s \ {Max(s)}], seq[Max(s)])
    BY <1>1, <1>4
  <2> QED BY <1>1, <2>1, MaxIn DEF Recurs
<1>7. PICK f \in [0 .. n -> S] : f[n] = h[1 .. n] /\ Loops(f, n, base, step)
  BY <1>1, <1>6, LoopOf
<1>8. \A i \in 1 .. n : i - 1 \in 0 .. n
  BY <1>1
<1>9. \A i \in 1 .. n : f[i] = MergeStep(f[i - 1], seq[i])
  BY <1>1, <1>7, <1>8 DEF Loops
<1>10. f[0] = base /\ f[n] = MergeFold(base, seq)
  BY <1>1, <1>5, <1>7 DEF Loops
<1> QED BY <1>7, <1>9, <1>10, Zenon DEF n

LhsClosed(S, E) == \A s \in S, e \in E : LhsStep(s, e) \in S
LhsFold(base, seq) == FoldLeft(LhsStep, base, seq)

LEMMA LhsLoop ==
  ASSUME NEW S, NEW E, NEW base \in S, NEW seq \in Seq(E),
         LhsClosed(S, E)
  PROVE  \E f \in [0 .. Len(seq) -> S] :
           /\ f[0] = base /\ f[Len(seq)] = LhsFold(base, seq)
           /\ \A i \in 1 .. Len(seq) : f[i] = LhsStep(f[i - 1], seq[i])
<1> DEFINE n == Len(seq)
           Eq(g) == g = [s \in SUBSET DOMAIN seq |->
                           IF s = {} THEN base ELSE LhsStep(g[s \ {Max(s)}], seq[Max(s)])]
           step == [p \in S \X (1 .. n) |-> LhsStep(p[1], seq[p[2]])]
<1>1. /\ n \in Nat /\ DOMAIN seq = 1 .. n /\ step \in [S \X (1 .. n) -> S]
      /\ \A s \in S, i \in 1 .. n : step[<<s, i>>] = LhsStep(s, seq[i])
  BY DEF LhsClosed
<1> HIDE DEF step, n
<1>2. PICK g \in [SUBSET (1 .. n) -> S] : Recurs(g, n, S, base, step)
  BY <1>1, FoldExists
<1>3. Eq(g)
  <2>1. \A s \in SUBSET (1 .. n) :
          g[s] = IF s = {} THEN base ELSE LhsStep(g[s \ {Max(s)}], seq[Max(s)])
    BY <1>1, <1>2, MaxIn DEF Recurs
  <2> QED BY <1>1, <1>2, <2>1
<1> DEFINE h == CHOOSE g0 : Eq(g0)
<1>4. Eq(h)
  BY <1>3, Zenon
<1>5. LhsFold(base, seq) = h[DOMAIN seq]
  BY Zenon DEF LhsFold, FoldLeft, MapThenFoldSet
<1> HIDE DEF h
<1>6. Recurs(h, n, S, base, step)
  <2>1. \A s \in SUBSET (1 .. n) :
          h[s] = IF s = {} THEN base ELSE LhsStep(h[s \ {Max(s)}], seq[Max(s)])
    BY <1>1, <1>4
  <2> QED BY <1>1, <2>1, MaxIn DEF Recurs
<1>7. PICK f \in [0 .. n -> S] : f[n] = h[1 .. n] /\ Loops(f, n, base, step)
  BY <1>1, <1>6, LoopOf
<1>8. \A i \in 1 .. n : i - 1 \in 0 .. n
  BY <1>1
<1>9. \A i \in 1 .. n : f[i] = LhsStep(f[i - 1], seq[i])
  BY <1>1, <1>7, <1>8 DEF Loops
<1>10. f[0] = base /\ f[n] = LhsFold(base, seq)
  BY <1>1, <1>5, <1>7 DEF Loops
<1> QED BY <1>7, <1>9, <1>10, Zenon DEF n

ResultClosed(S, E) == \A s \in S, e \in E : OnInnerChange(s, e, mapped[e]) \in S
ResultFold(base, seq) == FoldLeft(LAMBDA a, k : OnInnerChange(a, k, mapped[k]), base, seq)

LEMMA ResultLoop ==
  ASSUME NEW S, NEW E, NEW base \in S, NEW seq \in Seq(E),
         ResultClosed(S, E)
  PROVE  \E f \in [0 .. Len(seq) -> S] :
           /\ f[0] = base /\ f[Len(seq)] = ResultFold(base, seq)
           /\ \A i \in 1 .. Len(seq) : f[i] = OnInnerChange(f[i - 1], seq[i], mapped[seq[i]])
<1> DEFINE n == Len(seq)
           Eq(g) == g = [s \in SUBSET DOMAIN seq |->
                           IF s = {} THEN base ELSE OnInnerChange(g[s \ {Max(s)}], seq[Max(s)], mapped[seq[Max(s)]])]
           step == [p \in S \X (1 .. n) |-> OnInnerChange(p[1], seq[p[2]], mapped[seq[p[2]]])]
<1>1. /\ n \in Nat /\ DOMAIN seq = 1 .. n /\ step \in [S \X (1 .. n) -> S]
      /\ \A s \in S, i \in 1 .. n : step[<<s, i>>] = OnInnerChange(s, seq[i], mapped[seq[i]])
  BY DEF ResultClosed
<1> HIDE DEF step, n
<1>2. PICK g \in [SUBSET (1 .. n) -> S] : Recurs(g, n, S, base, step)
  BY <1>1, FoldExists
<1>3. Eq(g)
  <2>1. \A s \in SUBSET (1 .. n) :
          g[s] = IF s = {} THEN base ELSE OnInnerChange(g[s \ {Max(s)}], seq[Max(s)], mapped[seq[Max(s)]])
    BY <1>1, <1>2, MaxIn DEF Recurs
  <2> QED BY <1>1, <1>2, <2>1
<1> DEFINE h == CHOOSE g0 : Eq(g0)
<1>4. Eq(h)
  BY <1>3, Zenon
<1>5. ResultFold(base, seq) = h[DOMAIN seq]
  BY Zenon DEF ResultFold, FoldLeft, MapThenFoldSet
<1> HIDE DEF h
<1>6. Recurs(h, n, S, base, step)
  <2>1. \A s \in SUBSET (1 .. n) :
          h[s] = IF s = {} THEN base ELSE OnInnerChange(h[s \ {Max(s)}], seq[Max(s)], mapped[seq[Max(s)]])
    BY <1>1, <1>4
  <2> QED BY <1>1, <2>1, MaxIn DEF Recurs
<1>7. PICK f \in [0 .. n -> S] : f[n] = h[1 .. n] /\ Loops(f, n, base, step)
  BY <1>1, <1>6, LoopOf
<1>8. \A i \in 1 .. n : i - 1 \in 0 .. n
  BY <1>1
<1>9. \A i \in 1 .. n : f[i] = OnInnerChange(f[i - 1], seq[i], mapped[seq[i]])
  BY <1>1, <1>7, <1>8 DEF Loops
<1>10. f[0] = base /\ f[n] = ResultFold(base, seq)
  BY <1>1, <1>5, <1>7 DEF Loops
<1> QED BY <1>7, <1>9, <1>10, Zenon DEF n
-----------------------------------------------------------------------------
(***************************************************************************)
(* Keys in order.                                                          *)
(***************************************************************************)
Increasing(s) == \A i, j \in DOMAIN s : i < j => s[i] < s[j]

Enumerates(s, K) ==
  /\ s \in [1 .. Cardinality(K) -> K] /\ Increasing(s)
  /\ \A k \in K : \E i \in 1 .. Cardinality(K) : s[i] = k

LEMMA KeysAreFinite ==
  \A K \in SUBSET Key : K \subseteq Nat /\ IsFiniteSet(K) /\ Cardinality(K) \in Nat
BY KeyAssumption, FS_Subset, FS_CardinalityType

LEMMA IncreasingExists ==
  \A K \in SUBSET Key : \E s \in [1 .. Cardinality(K) -> K] : Increasing(s)
<1> DEFINE P == {n \in Nat : \A K \in SUBSET Key :
                   Cardinality(K) = n => \E s \in [1 .. n -> K] : Increasing(s)}
<1>1. 0 \in P
  <2> SUFFICES ASSUME NEW K \in SUBSET Key PROVE \E s \in [1 .. 0 -> K] : Increasing(s)
    OBVIOUS
  <2> DEFINE s == [i \in 1 .. 0 |-> i]
  <2>1. s \in [1 .. 0 -> K] /\ Increasing(s)
    BY DEF Increasing
  <2> QED BY <2>1
<1>2. ASSUME NEW n \in Nat, n \in P PROVE n + 1 \in P
  <2> SUFFICES ASSUME NEW K \in SUBSET Key, Cardinality(K) = n + 1
               PROVE  \E s \in [1 .. n + 1 -> K] : Increasing(s)
    OBVIOUS
  <2>1. K # {} /\ IsFiniteSet(K) /\ K \in SUBSET Nat
    BY KeysAreFinite, FS_EmptySet
  <2>2. PICK x \in K : \A y \in K : x <= y
    BY <2>1, LeastElement
  <2>3. Cardinality(K \ {x}) = n
    BY <2>1, <2>2, FS_RemoveElement
  <2>4. PICK s \in [1 .. n -> K \ {x}] : Increasing(s)
    BY <1>2, <2>3
  <2> DEFINE u == [i \in 1 .. n + 1 |-> IF i = 1 THEN x ELSE s[i - 1]]
  <2>5. u \in [1 .. n + 1 -> K]
    BY <2>2, <2>4
  <2>6. ASSUME NEW i \in 1 .. n + 1, NEW j \in 1 .. n + 1, i < j PROVE u[i] < u[j]
    <3>1. j - 1 \in 1 .. n /\ s[j - 1] \in K \ {x} /\ u[j] = s[j - 1]
      BY <2>4, <2>6
    <3>2. CASE i = 1
      <4>1. u[i] = x /\ x <= s[j - 1] /\ x # s[j - 1] /\ x \in Nat /\ s[j - 1] \in Nat
        BY <2>1, <2>2, <3>1, <3>2
      <4> QED BY <3>1, <4>1
    <3>3. CASE i # 1
      <4>1. i - 1 \in 1 .. n /\ i - 1 < j - 1 /\ u[i] = s[i - 1]
        BY <2>6, <3>3
      <4> QED BY <2>4, <3>1, <4>1 DEF Increasing
    <3> QED BY <3>2, <3>3
  <2>7. Increasing(u)
    <3> HIDE DEF u
    <3> QED BY <2>5, <2>6 DEF Increasing
  <2> HIDE DEF u
  <2> QED BY <2>5, <2>7
<1> SUFFICES ASSUME NEW K \in SUBSET Key
             PROVE  \E s \in [1 .. Cardinality(K) -> K] : Increasing(s)
  OBVIOUS
<1>3. Cardinality(K) \in P
  <2>1. Cardinality(K) \in Nat
    BY KeysAreFinite
  <2> HIDE DEF P
  <2>2. \A i \in 0 .. Cardinality(K) - 1 : i \in P => i + 1 \in P
    BY <1>2, <2>1
  <2> QED BY <1>1, <2>1, <2>2, Induction
<1> QED BY <1>3

LEMMA SortedEnumerates == \A K \in SUBSET Key : Enumerates(Sorted(K), K)
<1> SUFFICES ASSUME NEW K \in SUBSET Key PROVE Enumerates(Sorted(K), K)
  OBVIOUS
<1> DEFINE n == Cardinality(K)
           s == Sorted(K)
<1>1. n \in Nat /\ IsFiniteSet(K) /\ K \subseteq Nat
  BY KeysAreFinite
<1>2. s \in [1 .. n -> K] /\ Increasing(s)
  <2>1. PICK u \in [1 .. n -> K] : Increasing(u)
    BY IncreasingExists
  <2> QED BY <2>1, Zenon DEF Sorted, Increasing
<1>3. s \in Injection(1 .. n, K)
  <2> HIDE DEF n, s
  <2>1. ASSUME NEW i \in 1 .. n, NEW j \in 1 .. n, s[i] = s[j] PROVE i = j
    <3>1. i < j \/ j < i \/ i = j
      BY <1>1
    <3>2. s[i] \in Nat /\ s[j] \in Nat
      BY <1>1, <1>2
    <3> QED BY <1>2, <2>1, <3>1, <3>2 DEF Increasing
  <2> QED BY <1>2, <2>1 DEF Injection, IsInjective
<1>4. s \in Surjection(1 .. n, K)
  <2>1. Cardinality(1 .. n) = n
    BY <1>1, FS_Interval
  <2> HIDE DEF n, s
  <2> QED BY <1>1, <1>3, <2>1, FS_Injection DEF n
<1> QED BY <1>2, <1>4 DEF Enumerates, Surjection

\* There is no other enumeration.
LEMMA EnumerationUnique ==
  ASSUME NEW K \in SUBSET Key, NEW n \in Nat, NEW s \in [1 .. n -> K], Increasing(s),
         \A k \in K : \E i \in 1 .. n : s[i] = k
  PROVE  s = Sorted(K) /\ n = Cardinality(K)
<1> DEFINE u == Sorted(K)
           c == Cardinality(K)
           T == {i \in 1 .. n : i <= c /\ s[i] # u[i]}
<1>1. c \in Nat /\ K \subseteq Nat /\ Enumerates(u, K)
  BY KeysAreFinite, SortedEnumerates
<1> HIDE DEF u, c
<1>2. u \in [1 .. c -> K] /\ Increasing(u) /\ \A k \in K : \E i \in 1 .. c : u[i] = k
  BY <1>1 DEF Enumerates, c
<1>3. T = {}
  <2> SUFFICES ASSUME T # {} PROVE FALSE
    OBVIOUS
  <2>1. T \in SUBSET Nat
    OBVIOUS
  <2>2. PICK i \in T : \A j \in T : i <= j
    <3> HIDE DEF T
    <3> QED BY <2>1, LeastElement
  <2>3. i \in 1 .. n /\ i \in 1 .. c /\ s[i] # u[i] /\ s[i] \in K /\ u[i] \in K
    BY <1>1, <1>2, <2>2
  <2>4. \A j \in 1 .. i - 1 : s[j] = u[j] /\ j \in 1 .. n /\ j \in 1 .. c
    BY <1>1, <2>2, <2>3
  <2>5. PICK x \in 1 .. n : s[x] = u[i]
    BY <2>3
  <2>6. PICK y \in 1 .. c : u[y] = s[i]
    BY <1>2, <2>3
  <2>7. x > i
    <3>1. x # i
      BY <2>3, <2>5
    <3>2. ASSUME x < i PROVE FALSE
      <4>1. u[x] = u[i] /\ u[x] < u[i]
        BY <1>2, <2>3, <2>4, <2>5, <3>2 DEF Increasing
      <4>2. u[i] \in Nat
        BY <1>1, <2>3
      <4> QED BY <4>1, <4>2
    <3> QED BY <2>3, <3>1, <3>2
  <2>8. y > i
    <3>1. y # i
      BY <2>3, <2>6
    <3>2. ASSUME y < i PROVE FALSE
      <4>1. s[y] = s[i] /\ s[y] < s[i]
        BY <1>2, <2>3, <2>4, <2>6, <3>2 DEF Increasing
      <4>2. s[i] \in Nat
        BY <1>1, <2>3
      <4> QED BY <4>1, <4>2
    <3> QED BY <1>1, <2>3, <3>1, <3>2
  <2>9. s[i] < u[i]
    BY <2>3, <2>5, <2>7 DEF Increasing
  <2>10. u[i] < s[i]
    BY <1>2, <2>3, <2>6, <2>8 DEF Increasing
  <2>11. s[i] \in Nat /\ u[i] \in Nat
    BY <1>1, <2>3
  <2> QED BY <2>9, <2>10, <2>11
<1>4. n = c
  <2>1. ASSUME n < c PROVE FALSE
    <3>1. n + 1 \in 1 .. c /\ u[n + 1] \in K
      BY <1>1, <1>2, <2>1
    <3>2. PICK i \in 1 .. n : s[i] = u[n + 1]
      BY <3>1
    <3>3. u[i] = u[n + 1] /\ u[i] < u[n + 1]
      BY <1>1, <1>2, <1>3, <2>1, <3>1, <3>2 DEF Increasing
    <3>4. u[n + 1] \in Nat
      BY <1>1, <3>1
    <3> QED BY <3>3, <3>4
  <2>2. ASSUME c < n PROVE FALSE
    <3>1. c + 1 \in 1 .. n /\ s[c + 1] \in K
      BY <1>1, <2>2
    <3>2. PICK i \in 1 .. c : u[i] = s[c + 1]
      BY <1>2, <3>1
    <3>3. s[i] = s[c + 1] /\ s[i] < s[c + 1]
      BY <1>1, <1>3, <2>2, <3>1, <3>2 DEF Increasing
    <3>4. s[c + 1] \in Nat
      BY <1>1, <3>1
    <3> QED BY <3>3, <3>4
  <2> QED BY <1>1, <2>1, <2>2
<1>5. \A i \in 1 .. n : s[i] = u[i]
  BY <1>3, <1>4
<1>6. s = u
  BY <1>2, <1>4, <1>5
<1> QED BY <1>4, <1>6 DEF u, c

(***************************************************************************)
(* The sequence of el[k] for the keys of a set, in their order.            *)
(***************************************************************************)
Listing(K, el) == [i \in 1 .. Cardinality(K) |-> el[Sorted(K)[i]]]

LEMMA ListingType ==
  ASSUME NEW E, NEW el, NEW K \in SUBSET Key, \A k \in K : el[k] \in E
  PROVE  /\ Listing(K, el) \in Seq(E) /\ Len(Listing(K, el)) = Cardinality(K)
         /\ \A i \in 1 .. Cardinality(K) : Listing(K, el)[i] = el[Sorted(K)[i]] /\ Sorted(K)[i] \in K
<1>1. Cardinality(K) \in Nat /\ Sorted(K) \in [1 .. Cardinality(K) -> K]
  BY KeysAreFinite, SortedEnumerates DEF Enumerates
<1> QED BY <1>1 DEF Listing

LEMMA ListingItems ==
  ASSUME NEW K \in SUBSET Key, NEW el
  PROVE  /\ Len(Listing(K, el)) = Cardinality(K)
         /\ \A i \in 1 .. Cardinality(K) : Listing(K, el)[i] = el[Sorted(K)[i]] /\ Sorted(K)[i] \in K
<1>1. Cardinality(K) \in Nat /\ Sorted(K) \in [1 .. Cardinality(K) -> K]
  BY KeysAreFinite, SortedEnumerates DEF Enumerates
<1> QED BY <1>1 DEF Listing

LEMMA ListingSame ==
  ASSUME NEW K \in SUBSET Key, NEW e, NEW f, \A k \in K : e[k] = f[k]
  PROVE  Listing(K, e) = Listing(K, f)
<1>1. Cardinality(K) \in Nat /\ Sorted(K) \in [1 .. Cardinality(K) -> K]
  BY KeysAreFinite, SortedEnumerates DEF Enumerates
<1> QED BY <1>1 DEF Listing

LEMMA ListingEmpty == \A el : Listing({}, el) = <<>>
BY FS_EmptySet DEF Listing

LEMMA ListingFirst ==
  ASSUME NEW el, NEW K \in SUBSET Key, NEW x \in Key, \A k \in K : x < k
  PROVE  Listing(K \union {x}, el) = <<el[x]>> \o Listing(K, el)
<1> DEFINE E == {el[k] : k \in Key}
           n == Cardinality(K)
           s == Sorted(K)
           u == [i \in 1 .. n + 1 |-> IF i = 1 THEN x ELSE s[i - 1]]
<1>1. /\ n \in Nat /\ s \in [1 .. n -> K] /\ Increasing(s)
      /\ \A k \in K : \E i \in 1 .. n : s[i] = k
      /\ K \subseteq Nat /\ x \in Nat
  BY KeysAreFinite, KeyAssumption, SortedEnumerates DEF Enumerates
<1> HIDE DEF n, s
<1>2. u \in [1 .. n + 1 -> K \union {x}]
  BY <1>1
<1>3. ASSUME NEW i \in 1 .. n + 1, NEW j \in 1 .. n + 1, i < j PROVE u[i] < u[j]
  <2>1. j - 1 \in 1 .. n /\ s[j - 1] \in K /\ u[j] = s[j - 1]
    BY <1>1, <1>3
  <2>2. CASE i = 1
    BY <2>1, <2>2
  <2>3. CASE i # 1
    <3>1. i - 1 \in 1 .. n /\ i - 1 < j - 1 /\ u[i] = s[i - 1]
      BY <1>1, <1>3, <2>3
    <3> QED BY <1>1, <2>1, <3>1 DEF Increasing
  <2> QED BY <2>2, <2>3
<1>4. \A k \in K \union {x} : \E i \in 1 .. n + 1 : u[i] = k
  <2> SUFFICES ASSUME NEW k \in K \union {x} PROVE \E i \in 1 .. n + 1 : u[i] = k
    OBVIOUS
  <2>1. CASE k = x
    <3>1. 1 \in 1 .. n + 1 /\ u[1] = x
      BY <1>1
    <3> QED BY <2>1, <3>1
  <2>2. CASE k \in K
    <3>1. PICK i \in 1 .. n : s[i] = k
      BY <1>1, <2>2
    <3>2. i + 1 \in 1 .. n + 1 /\ u[i + 1] = k
      BY <1>1, <3>1
    <3> QED BY <3>2
  <2> QED BY <2>1, <2>2
<1>5. u = Sorted(K \union {x}) /\ n + 1 = Cardinality(K \union {x})
  <2>1. Increasing(u)
    <3> HIDE DEF u
    <3> QED BY <1>2, <1>3 DEF Increasing
  <2>2. n + 1 \in Nat /\ K \union {x} \in SUBSET Key
    BY <1>1
  <2> HIDE DEF u
  <2> QED BY <1>2, <1>4, <2>1, <2>2, EnumerationUnique
<1>6. Listing(K \union {x}, el) = [i \in 1 .. n + 1 |-> el[u[i]]]
  <2> HIDE DEF u
  <2> QED BY <1>5 DEF Listing
<1>7. Listing(K, el) = [i \in 1 .. n |-> el[s[i]]]
  BY DEF Listing, n, s
<1>8. <<el[x]>> \o Listing(K, el) = [i \in 1 .. n + 1 |-> el[u[i]]]
  <2> DEFINE l == Listing(K, el)
             lhs == <<el[x]>> \o l
  <2>1. l \in Seq(E) /\ Len(l) = n
    BY ListingType DEF n
  <2>2. lhs \in Seq(E) /\ Len(lhs) = n + 1 /\ lhs[1] = el[x] /\ \A i \in 2 .. n + 1 : lhs[i] = l[i - 1]
    <3> HIDE DEF l
    <3> QED BY <1>1, <2>1
  <2>3. \A i \in 2 .. n + 1 : l[i - 1] = el[s[i - 1]] /\ u[i] = s[i - 1]
    BY <1>1, <1>7
  <2>4. u[1] = x /\ \A i \in 1 .. n + 1 : i = 1 \/ i \in 2 .. n + 1
    BY <1>1
  <2> HIDE DEF l, lhs, u
  <2>5. \A i \in 1 .. n + 1 : lhs[i] = el[u[i]]
    BY <2>2, <2>3, <2>4
  <2>6. lhs = [i \in 1 .. n + 1 |-> lhs[i]]
    BY <2>2
  <2> QED BY <2>5, <2>6 DEF lhs, l
<1> QED BY <1>6, <1>8

LEMMA ListingLast ==
  ASSUME NEW el, NEW K \in SUBSET Key, NEW x \in Key, \A k \in K : k < x
  PROVE  Listing(K \union {x}, el) = Append(Listing(K, el), el[x])
<1> DEFINE E == {el[k] : k \in Key}
           n == Cardinality(K)
           s == Sorted(K)
           u == [i \in 1 .. n + 1 |-> IF i = n + 1 THEN x ELSE s[i]]
<1>1. /\ n \in Nat /\ s \in [1 .. n -> K] /\ Increasing(s)
      /\ \A k \in K : \E i \in 1 .. n : s[i] = k
      /\ K \subseteq Nat /\ x \in Nat
  BY KeysAreFinite, KeyAssumption, SortedEnumerates DEF Enumerates
<1> HIDE DEF n, s
<1>2. u \in [1 .. n + 1 -> K \union {x}]
  BY <1>1
<1>3. ASSUME NEW i \in 1 .. n + 1, NEW j \in 1 .. n + 1, i < j PROVE u[i] < u[j]
  <2>1. i \in 1 .. n /\ s[i] \in K /\ u[i] = s[i]
    BY <1>1, <1>3
  <2>2. CASE j = n + 1
    BY <1>1, <2>1, <2>2
  <2>3. CASE j # n + 1
    <3>1. j \in 1 .. n /\ u[j] = s[j]
      BY <1>1, <2>3
    <3> QED BY <1>1, <1>3, <2>1, <3>1 DEF Increasing
  <2> QED BY <2>2, <2>3
<1>4. \A k \in K \union {x} : \E i \in 1 .. n + 1 : u[i] = k
  <2> SUFFICES ASSUME NEW k \in K \union {x} PROVE \E i \in 1 .. n + 1 : u[i] = k
    OBVIOUS
  <2>1. CASE k = x
    <3>1. n + 1 \in 1 .. n + 1 /\ u[n + 1] = x
      BY <1>1
    <3> QED BY <2>1, <3>1
  <2>2. CASE k \in K
    <3>1. PICK i \in 1 .. n : s[i] = k
      BY <1>1, <2>2
    <3>2. i \in 1 .. n + 1 /\ u[i] = k
      BY <1>1, <3>1
    <3> QED BY <3>2
  <2> QED BY <2>1, <2>2
<1>5. u = Sorted(K \union {x}) /\ n + 1 = Cardinality(K \union {x})
  <2>1. Increasing(u)
    <3> HIDE DEF u
    <3> QED BY <1>2, <1>3 DEF Increasing
  <2>2. n + 1 \in Nat /\ K \union {x} \in SUBSET Key
    BY <1>1
  <2> HIDE DEF u
  <2> QED BY <1>2, <1>4, <2>1, <2>2, EnumerationUnique
<1>6. Listing(K \union {x}, el) = [i \in 1 .. n + 1 |-> el[u[i]]]
  <2> HIDE DEF u
  <2> QED BY <1>5 DEF Listing
<1>7. Listing(K, el) = [i \in 1 .. n |-> el[s[i]]]
  BY DEF Listing, n, s
<1>8. Append(Listing(K, el), el[x]) = [i \in 1 .. n + 1 |-> el[u[i]]]
  BY <1>1, <1>7
<1> QED BY <1>6, <1>8

-----------------------------------------------------------------------------
(***************************************************************************)
(* The merging iterators.  All of them go through the keys of A and B, in  *)
(* order, at turn t past the first t[1] - 1 of A and t[2] - 1 of B, and    *)
(* yield el[<<k, side>>] for a key k that is in A, in B or in both, unless *)
(* they skip it.                                                           *)
(***************************************************************************)
Turns(A, B) == (1 .. Cardinality(A) + 1) \X (1 .. Cardinality(B) + 1)
From(A, i) == {Sorted(A)[x] : x \in i .. Cardinality(A)}

Ended(A, B, t) == t[1] > Cardinality(A) /\ t[2] > Cardinality(B)
TakesLeft(A, B, t) ==
  t[1] <= Cardinality(A) /\ (t[2] > Cardinality(B) \/ Sorted(A)[t[1]] <= Sorted(B)[t[2]])
TakesRight(A, B, t) ==
  t[2] <= Cardinality(B) /\ (t[1] > Cardinality(A) \/ Sorted(B)[t[2]] <= Sorted(A)[t[1]])

KeyAt(A, B, t) == IF TakesLeft(A, B, t) THEN Sorted(A)[t[1]] ELSE Sorted(B)[t[2]]
SideAt(A, B, t) == IF ~TakesRight(A, B, t) THEN "left"
                   ELSE IF ~TakesLeft(A, B, t) THEN "right" ELSE "both"
After(A, B, t) == <<IF TakesLeft(A, B, t) THEN t[1] + 1 ELSE t[1],
                    IF TakesRight(A, B, t) THEN t[2] + 1 ELSE t[2]>>

\* The pairs of C are those that are not skipped.
Yield(C, el, k, side) == IF <<k, side>> \in C THEN <<el[<<k, side>>]>> ELSE <<>>

Then(s, rest) == s \o rest

\* r[t] is what is yielded from turn t on.
Yields(r, A, B, C, el) ==
  \A t \in Turns(A, B) :
    r[t] = IF Ended(A, B, t) THEN <<>>
           ELSE Then(Yield(C, el, KeyAt(A, B, t), SideAt(A, B, t)), r[After(A, B, t)])

Sides == {"left", "right", "both"}
Side(A, B, k) == IF k \notin B THEN "left" ELSE IF k \notin A THEN "right" ELSE "both"
Yielded(A, B, C, el) ==
  Listing({k \in A \union B : <<k, Side(A, B, k)>> \in C}, [k \in Key |-> el[<<k, Side(A, B, k)>>]])

Without(K, x) == K \ {x}
IsLeast(x, K) == x \in K /\ \A k \in K \ {x} : x < k

\* The least key is yielded first.
LEMMA LeastFirst ==
  ASSUME NEW A \in SUBSET Key, NEW B \in SUBSET Key, NEW C, NEW el,
         NEW x, IsLeast(x, A \union B)
  PROVE  Yielded(A, B, C, el) =
           Then(Yield(C, el, x, Side(A, B, x)), Yielded(A \ {x}, B \ {x}, C, el))
<1> DEFINE E == {el[p] : p \in Key \X Sides}
           A1 == A \ {x}
           B1 == B \ {x}
           e == [k \in Key |-> el[<<k, Side(A, B, k)>>]]
           e1 == [k \in Key |-> el[<<k, Side(A1, B1, k)>>]]
           K == {k \in A \union B : <<k, Side(A, B, k)>> \in C}
           K1 == {k \in A1 \union B1 : <<k, Side(A1, B1, k)>> \in C}
<1>1. \A k \in Key : k # x => Side(A1, B1, k) = Side(A, B, k)
  BY DEF Side
<1>2. \A k \in Key : Side(A, B, k) \in Sides /\ Side(A1, B1, k) \in Sides
  BY DEF Side, Sides
<1>3. e \in [Key -> E] /\ K1 \in SUBSET Key /\ x \in Key
  BY <1>2 DEF IsLeast
<1>4. Listing(K1, e1) = Listing(K1, e)
  <2>1. \A k \in K1 : e1[k] = e[k]
    BY <1>1
  <2> HIDE DEF K1, e, e1
  <2> QED BY <1>3, <2>1, ListingSame
<1>5. \A k \in K1 : x < k
  BY DEF IsLeast
<1>6. Listing(K1, e) \in Seq(E)
  <2> HIDE DEF K1, e, e1
  <2> QED BY <1>3, ListingType
<1>7. CASE <<x, Side(A, B, x)>> \in C
  <2>1. K = K1 \union {x}
    BY <1>1, <1>7 DEF IsLeast
  <2>2. e[x] = el[<<x, Side(A, B, x)>>]
    BY <1>3
  <2> HIDE DEF K, K1, e, e1
  <2>3. Listing(K, e) = <<e[x]>> \o Listing(K1, e)
    BY <1>3, <1>5, <2>1, ListingFirst
  <2> QED BY <1>4, <1>7, <2>2, <2>3, Zenon DEF Yield, Then, Yielded, K, K1, e, e1
<1>8. CASE <<x, Side(A, B, x)>> \notin C
  <2>1. K = K1
    BY <1>1, <1>8
  <2> HIDE DEF K, K1, e, e1
  <2>2. <<>> \o Listing(K1, e) = Listing(K1, e)
    BY <1>6
  <2> QED BY <1>4, <1>8, <2>1, <2>2, Zenon DEF Yield, Then, Yielded, K, K1, e, e1
<1> QED BY <1>7, <1>8

\* One turn.
LEMMA TurnTakesLeast ==
  ASSUME NEW A \in SUBSET Key, NEW B \in SUBSET Key, NEW t \in Turns(A, B), ~Ended(A, B, t)
  PROVE  /\ From(A, t[1]) \in SUBSET Key /\ From(B, t[2]) \in SUBSET Key
         /\ IsLeast(KeyAt(A, B, t), From(A, t[1]) \union From(B, t[2]))
         /\ Side(From(A, t[1]), From(B, t[2]), KeyAt(A, B, t)) = SideAt(A, B, t)
         /\ After(A, B, t) \in Turns(A, B)
         /\ After(A, B, t)[1] + After(A, B, t)[2] > t[1] + t[2]
         /\ From(A, After(A, B, t)[1]) = Without(From(A, t[1]), KeyAt(A, B, t))
         /\ From(B, After(A, B, t)[2]) = Without(From(B, t[2]), KeyAt(A, B, t))
<1> DEFINE m == Cardinality(A)
           n == Cardinality(B)
           a == Sorted(A)
           b == Sorted(B)
           i == t[1]
           j == t[2]
           A1 == From(A, i)
           B1 == From(B, j)
           x == KeyAt(A, B, t)
           t1 == After(A, B, t)
<1>1. /\ m \in Nat /\ a \in [1 .. m -> A] /\ Increasing(a) /\ A \subseteq Nat
      /\ n \in Nat /\ b \in [1 .. n -> B] /\ Increasing(b) /\ B \subseteq Nat
  BY KeysAreFinite, SortedEnumerates DEF Enumerates
<1>2. i \in 1 .. m + 1 /\ j \in 1 .. n + 1 /\ (i <= m \/ j <= n)
  BY <1>1 DEF Turns, Ended
<1>3. /\ A1 = {a[y] : y \in i .. m} /\ B1 = {b[y] : y \in j .. n}
      /\ TakesLeft(A, B, t) <=> i <= m /\ (j > n \/ a[i] <= b[j])
      /\ TakesRight(A, B, t) <=> j <= n /\ (i > m \/ b[j] <= a[i])
      /\ x = IF TakesLeft(A, B, t) THEN a[i] ELSE b[j]
      /\ t1 = <<IF TakesLeft(A, B, t) THEN i + 1 ELSE i, IF TakesRight(A, B, t) THEN j + 1 ELSE j>>
  BY DEF From, TakesLeft, TakesRight, KeyAt, After
<1>4. From(A, i + 1) = {a[y] : y \in i + 1 .. m} /\ From(B, j + 1) = {b[y] : y \in j + 1 .. n}
  BY DEF From
<1> HIDE DEF m, n, a, b, i, j, A1, B1, x, t1
<1>5. \A y \in i .. m : y \in 1 .. m /\ a[y] \in Nat /\ a[y] \in A /\ (y # i => a[i] < a[y])
  <2> SUFFICES ASSUME NEW y \in i .. m
               PROVE  y \in 1 .. m /\ a[y] \in Nat /\ a[y] \in A /\ (y # i => a[i] < a[y])
    OBVIOUS
  <2>1. y \in 1 .. m /\ i \in 1 .. m /\ (y # i => i < y)
    BY <1>1, <1>2
  <2> QED BY <1>1, <2>1 DEF Increasing
<1>6. \A y \in j .. n : y \in 1 .. n /\ b[y] \in Nat /\ b[y] \in B /\ (y # j => b[j] < b[y])
  <2> SUFFICES ASSUME NEW y \in j .. n
               PROVE  y \in 1 .. n /\ b[y] \in Nat /\ b[y] \in B /\ (y # j => b[j] < b[y])
    OBVIOUS
  <2>1. y \in 1 .. n /\ j \in 1 .. n /\ (y # j => j < y)
    BY <1>1, <1>2
  <2> QED BY <1>1, <2>1 DEF Increasing
<1>7. A1 \in SUBSET A /\ B1 \in SUBSET B
  BY <1>3, <1>5, <1>6
<1>8. /\ i <= m => /\ a[i] \in A1 /\ a[i] \in Nat /\ \A k \in A1 \ {a[i]} : a[i] < k
                   /\ From(A, i + 1) = A1 \ {a[i]}
      /\ i > m => A1 = {}
  <2>1. CASE i <= m
    <3>1. i \in i .. m /\ \A y \in i .. m : y = i \/ y \in i + 1 .. m
      BY <1>1, <1>2, <2>1
    <3>2. i + 1 .. m \subseteq i .. m /\ i \notin i + 1 .. m
      BY <1>1, <1>2
    <3>3. \A y \in i + 1 .. m : a[y] # a[i]
      BY <1>5, <3>1, <3>2
    <3> QED BY <1>1, <1>2, <1>3, <1>4, <1>5, <2>1, <3>1, <3>2, <3>3
  <2> QED BY <1>1, <1>2, <1>3, <2>1
<1>9. /\ j <= n => /\ b[j] \in B1 /\ b[j] \in Nat /\ \A k \in B1 \ {b[j]} : b[j] < k
                   /\ From(B, j + 1) = B1 \ {b[j]}
      /\ j > n => B1 = {}
  <2>1. CASE j <= n
    <3>1. j \in j .. n /\ \A y \in j .. n : y = j \/ y \in j + 1 .. n
      BY <1>1, <1>2, <2>1
    <3>2. j + 1 .. n \subseteq j .. n /\ j \notin j + 1 .. n
      BY <1>1, <1>2
    <3>3. \A y \in j + 1 .. n : b[y] # b[j]
      BY <1>6, <3>1, <3>2
    <3> QED BY <1>1, <1>2, <1>3, <1>4, <1>6, <2>1, <3>1, <3>2, <3>3
  <2> QED BY <1>1, <1>2, <1>3, <2>1
<1>10. A1 \subseteq Nat /\ B1 \subseteq Nat
  BY <1>1, <1>7
<1>11. /\ x \in A1 \union B1 /\ \A k \in (A1 \union B1) \ {x} : x < k
       /\ x \in A1 <=> TakesLeft(A, B, t)
       /\ x \in B1 <=> TakesRight(A, B, t)
       /\ TakesLeft(A, B, t) => x = a[i]
       /\ TakesRight(A, B, t) => x = b[j]
       /\ TakesLeft(A, B, t) \/ TakesRight(A, B, t)
  <2>1. CASE i <= m /\ j <= n
    <3>1. a[i] < b[j] \/ b[j] < a[i] \/ a[i] = b[j]
      BY <1>8, <1>9, <2>1
    <3>2. CASE a[i] < b[j]
      BY <1>3, <1>8, <1>9, <1>10, <2>1, <3>2
    <3>3. CASE b[j] < a[i]
      BY <1>3, <1>8, <1>9, <1>10, <2>1, <3>3
    <3>4. CASE a[i] = b[j]
      BY <1>3, <1>8, <1>9, <1>10, <2>1, <3>4
    <3> QED BY <3>1, <3>2, <3>3, <3>4
  <2>2. CASE i > m
    BY <1>1, <1>2, <1>3, <1>8, <1>9, <2>2
  <2>3. CASE j > n
    BY <1>1, <1>2, <1>3, <1>8, <1>9, <2>3
  <2> QED BY <1>1, <1>2, <2>1, <2>2, <2>3
<1>12. Side(A1, B1, x) = SideAt(A, B, t)
  BY <1>11 DEF Side, SideAt
<1>13. t1 \in Turns(A, B) /\ t1[1] + t1[2] > t[1] + t[2]
  <2>1. i = t[1] /\ j = t[2] /\ Turns(A, B) = (1 .. m + 1) \X (1 .. n + 1)
    BY DEF i, j, m, n, Turns
  <2>2. /\ t1[1] = IF TakesLeft(A, B, t) THEN i + 1 ELSE i
        /\ t1[2] = IF TakesRight(A, B, t) THEN j + 1 ELSE j
    BY <1>3
  <2>3. t1 = <<t1[1], t1[2]>>
    BY <1>3
  <2>4. t1[1] \in 1 .. m + 1 /\ t1[2] \in 1 .. n + 1
    <3>1. /\ m \in Nat /\ n \in Nat
          /\ TakesLeft(A, B, t) => i <= m
          /\ TakesRight(A, B, t) => j <= n
      BY <1>1, <1>3
    <3> HIDE DEF m, n, i, j, t1
    <3> QED BY <1>2, <2>2, <3>1
  <2>5. t1[1] + t1[2] > i + j
    BY <1>1, <1>2, <1>11, <2>2
  <2> QED BY <2>1, <2>3, <2>4, <2>5
<1>14. From(A, t1[1]) = A1 \ {x} /\ From(B, t1[2]) = B1 \ {x}
  <2>1. TakesLeft(A, B, t) => i <= m /\ t1[1] = i + 1
    BY <1>3
  <2>2. ~TakesLeft(A, B, t) => t1[1] = i /\ From(A, i) = A1
    BY <1>3 DEF A1
  <2>3. TakesRight(A, B, t) => j <= n /\ t1[2] = j + 1
    BY <1>3
  <2>4. ~TakesRight(A, B, t) => t1[2] = j /\ From(B, j) = B1
    BY <1>3 DEF B1
  <2>5. From(A, t1[1]) = A1 \ {x}
    BY <1>8, <1>11, <2>1, <2>2
  <2>6. From(B, t1[2]) = B1 \ {x}
    BY <1>9, <1>11, <2>3, <2>4
  <2> QED BY <2>5, <2>6
<1>15. IsLeast(x, A1 \union B1) /\ A1 \in SUBSET Key /\ B1 \in SUBSET Key
  BY <1>7, <1>11 DEF IsLeast
<1> QED BY <1>12, <1>13, <1>14, <1>15 DEF A1, B1, x, t1, i, j, Without

\* What remains at a turn, and the rest of the iterator.
RestAt(A, B, C, el, t) == Yielded(From(A, t[1]), From(B, t[2]), C, el)

LEMMA RestAtEnd ==
  ASSUME NEW A \in SUBSET Key, NEW B \in SUBSET Key, NEW C, NEW el,
         NEW t \in Turns(A, B), Ended(A, B, t)
  PROVE  RestAt(A, B, C, el, t) = <<>>
<1>1. From(A, t[1]) = {} /\ From(B, t[2]) = {}
  BY KeysAreFinite DEF From, Turns, Ended
<1>2. {k \in {} \union {} : <<k, Side({}, {}, k)>> \in C} = {}
  OBVIOUS
<1> QED BY <1>1, <1>2, ListingEmpty DEF RestAt, Yielded

LEMMA RestAtTurn ==
  ASSUME NEW A \in SUBSET Key, NEW B \in SUBSET Key, NEW C, NEW el,
         NEW t \in Turns(A, B), ~Ended(A, B, t)
  PROVE  RestAt(A, B, C, el, t) =
           Then(Yield(C, el, KeyAt(A, B, t), SideAt(A, B, t)), RestAt(A, B, C, el, After(A, B, t)))
<1> DEFINE A1 == From(A, t[1])
           B1 == From(B, t[2])
           x == KeyAt(A, B, t)
           t1 == After(A, B, t)
<1>1. A1 \in SUBSET Key /\ B1 \in SUBSET Key
  BY TurnTakesLeast, Zenon
<1>3. IsLeast(x, A1 \union B1)
  BY TurnTakesLeast, Zenon
<1>4. Side(A1, B1, x) = SideAt(A, B, t)
  BY TurnTakesLeast, Zenon
<1>5. From(A, t1[1]) = Without(A1, x) /\ From(B, t1[2]) = Without(B1, x)
  BY TurnTakesLeast, Zenon
<1> HIDE DEF A1, B1, x, t1
<1>2. Yielded(A1, B1, C, el) =
           Then(Yield(C, el, x, Side(A1, B1, x)), Yielded(A1 \ {x}, B1 \ {x}, C, el))
  BY <1>1, <1>3, LeastFirst
<1> QED BY <1>2, <1>4, <1>5, Zenon DEF Without, RestAt, A1, B1, x, t1

LEMMA RestYields ==
  ASSUME NEW A \in SUBSET Key, NEW B \in SUBSET Key, NEW C, NEW el
  PROVE  Yields([t \in Turns(A, B) |-> RestAt(A, B, C, el, t)], A, B, C, el)
<1> DEFINE r == [t \in Turns(A, B) |-> RestAt(A, B, C, el, t)]
<1> SUFFICES ASSUME NEW t \in Turns(A, B)
             PROVE  r[t] = IF Ended(A, B, t) THEN <<>>
                           ELSE Then(Yield(C, el, KeyAt(A, B, t), SideAt(A, B, t)), r[After(A, B, t)])
  BY DEF Yields
<1>1. r[t] = RestAt(A, B, C, el, t)
  OBVIOUS
<1>2. CASE Ended(A, B, t)
  BY <1>1, <1>2, RestAtEnd
<1>3. CASE ~Ended(A, B, t)
  <2>1. After(A, B, t) \in Turns(A, B)
    BY <1>3, TurnTakesLeast
  <2>2. r[After(A, B, t)] = RestAt(A, B, C, el, After(A, B, t))
    BY <2>1
  <2> HIDE DEF r
  <2>3. r[t] = Then(Yield(C, el, KeyAt(A, B, t), SideAt(A, B, t)), r[After(A, B, t)])
    BY <1>1, <1>3, <2>2, RestAtTurn
  <2> QED BY <1>3, <2>3, Zenon
<1> QED BY <1>2, <1>3

\* Any iterator of this kind yields them all, from the first turn.
LEMMA YieldsAll ==
  ASSUME NEW A \in SUBSET Key, NEW B \in SUBSET Key, NEW C, NEW el,
         NEW r, Yields(r, A, B, C, el)
  PROVE  r[<<1, 1>>] = Yielded(A, B, C, el)
<1> DEFINE N == Cardinality(A) + Cardinality(B) + 2
           P == {d \in Nat : \A t \in Turns(A, B) : N <= t[1] + t[2] + d => r[t] = RestAt(A, B, C, el, t)}
<1>1. Cardinality(A) \in Nat /\ Cardinality(B) \in Nat /\ N \in Nat
  BY KeysAreFinite
<1>2. \A t \in Turns(A, B) : t[1] \in 1 .. Cardinality(A) + 1 /\ t[2] \in 1 .. Cardinality(B) + 1
  BY DEF Turns
<1>3. ASSUME NEW t \in Turns(A, B), Ended(A, B, t) PROVE r[t] = RestAt(A, B, C, el, t)
  BY <1>3, RestAtEnd DEF Yields
<1>4. 0 \in P
  <2> SUFFICES ASSUME NEW t \in Turns(A, B), N <= t[1] + t[2] PROVE r[t] = RestAt(A, B, C, el, t)
    BY <1>2
  <2>1. Ended(A, B, t)
    BY <1>1, <1>2 DEF Ended
  <2> QED BY <1>3, <2>1
<1>5. ASSUME NEW d \in 0 .. N - 1, d \in P PROVE d + 1 \in P
  <2> SUFFICES ASSUME NEW t \in Turns(A, B), N <= t[1] + t[2] + (d + 1), ~Ended(A, B, t)
               PROVE  r[t] = RestAt(A, B, C, el, t)
    BY <1>3
  <2>1. After(A, B, t) \in Turns(A, B) /\ After(A, B, t)[1] + After(A, B, t)[2] > t[1] + t[2]
    BY TurnTakesLeast
  <2>2. N <= After(A, B, t)[1] + After(A, B, t)[2] + d
    <3>1. /\ After(A, B, t)[1] \in Nat /\ After(A, B, t)[2] \in Nat /\ t[1] \in Nat /\ t[2] \in Nat
      BY <1>1, <1>2, <2>1
    <3> HIDE DEF N
    <3> QED BY <1>1, <2>1, <3>1
  <2>3. r[After(A, B, t)] = RestAt(A, B, C, el, After(A, B, t))
    BY <1>5, <2>1, <2>2
  <2>4. r[t] = Then(Yield(C, el, KeyAt(A, B, t), SideAt(A, B, t)), r[After(A, B, t)])
    BY Zenon DEF Yields
  <2> QED BY <2>3, <2>4, RestAtTurn
<1>6. N \in P
  <2> HIDE DEF P, N
  <2> QED BY <1>1, <1>4, <1>5, Induction
<1>7. <<1, 1>> \in Turns(A, B)
  BY <1>1 DEF Turns
<1>8. r[<<1, 1>>] = RestAt(A, B, C, el, <<1, 1>>)
  BY <1>1, <1>6, <1>7
<1>9. From(A, 1) = A /\ From(B, 1) = B
  <2>1. \A K \in SUBSET Key : From(K, 1) = K
    <3> SUFFICES ASSUME NEW K \in SUBSET Key PROVE {Sorted(K)[x] : x \in 1 .. Cardinality(K)} = K
      BY DEF From
    <3>1. Enumerates(Sorted(K), K)
      BY SortedEnumerates
    <3> QED BY <3>1 DEF Enumerates
  <2> QED BY <2>1
<1> QED BY <1>8, <1>9 DEF RestAt

-----------------------------------------------------------------------------
(***************************************************************************)
(* The iterators of the model are of this kind.                            *)
(***************************************************************************)
LEMMA TurnFacts ==
  ASSUME NEW A \in SUBSET Key, NEW B \in SUBSET Key, NEW t \in Turns(A, B)
  PROVE  /\ Cardinality(A) \in Nat /\ Cardinality(B) \in Nat /\ t[1] \in Nat /\ t[2] \in Nat
         /\ t[1] >= 1 /\ t[2] >= 1
         /\ Len(Sorted(A)) = Cardinality(A) /\ Len(Sorted(B)) = Cardinality(B)
         /\ t[1] <= Cardinality(A) => Sorted(A)[t[1]] \in A /\ Sorted(A)[t[1]] \in Nat
         /\ t[2] <= Cardinality(B) => Sorted(B)[t[2]] \in B /\ Sorted(B)[t[2]] \in Nat
<1> DEFINE m == Cardinality(A)
           n == Cardinality(B)
           a == Sorted(A)
           b == Sorted(B)
<1>1. /\ m \in Nat /\ a \in [1 .. m -> A] /\ A \subseteq Nat
      /\ n \in Nat /\ b \in [1 .. n -> B] /\ B \subseteq Nat
  BY KeysAreFinite, SortedEnumerates DEF Enumerates
<1>2. t \in (1 .. m + 1) \X (1 .. n + 1)
  BY DEF Turns
<1> HIDE DEF m, n, a, b
<1>3. Len(a) = m /\ Len(b) = n
  BY <1>1
<1>4. t[1] \in 1 .. m + 1 /\ t[2] \in 1 .. n + 1
  BY <1>2
<1>5. \A i \in 1 .. m : a[i] \in A /\ a[i] \in Nat
  BY <1>1
<1>6. \A j \in 1 .. n : b[j] \in B /\ b[j] \in Nat
  BY <1>1
<1>7. t[1] <= m => t[1] \in 1 .. m
  BY <1>1, <1>4
<1>8. t[2] <= n => t[2] \in 1 .. n
  BY <1>1, <1>4
<1>9. t[1] \in Nat /\ t[2] \in Nat /\ t[1] >= 1 /\ t[2] >= 1
  BY <1>1, <1>4
<1>10. t[1] <= m => a[t[1]] \in A /\ a[t[1]] \in Nat
  BY <1>7, <1>5, Zenon
<1>11. t[2] <= n => b[t[2]] \in B /\ b[t[2]] \in Nat
  BY <1>8, <1>6, Zenon
<1> QED BY <1>1, <1>3, <1>9, <1>10, <1>11, Zenon DEF m, n, a, b

LEMMA LengthOfSorted == \A A \in SUBSET Key : Len(Sorted(A)) = Cardinality(A)
BY KeysAreFinite, SortedEnumerates DEF Enumerates

LEMMA KeysMerged ==
  ASSUME NEW A \in SUBSET Key, NEW B \in SUBSET Key
  PROVE  MergeOnce(Sorted(A), Sorted(B)) = Sorted(A \union B)
<1> DEFINE a == Sorted(A)
           b == Sorted(B)
           C == Key \X Sides
           el == [p \in C |-> p[1]]
           T == (1 .. Len(a) + 1) \X (1 .. Len(b) + 1)
           Body(merged, t) ==
             LET i == t[1]
                 j == t[2]
                 aFirst == i <= Len(a) /\ (j > Len(b) \/ a[i] <= b[j])
                 both == i <= Len(a) /\ j <= Len(b) /\ a[i] = b[j]
             IN  IF i > Len(a) /\ j > Len(b) THEN <<>>
                 ELSE IF aFirst THEN <<a[i]>> \o merged[<<i + 1, IF both THEN j + 1 ELSE j>>]
                 ELSE <<b[j]>> \o merged[<<i, j + 1>>]
           Eq(merged) == merged = [t \in T |-> Body(merged, t)]
           h == CHOOSE merged : Eq(merged)
<1>1. MergeOnce(a, b) = h[<<1, 1>>]
  BY Zenon DEF MergeOnce
<1>2. T = Turns(A, B)
  BY LengthOfSorted DEF Turns
<1>3. ASSUME NEW r, NEW t \in Turns(A, B)
      PROVE  Body(r, t) = IF Ended(A, B, t) THEN <<>>
                          ELSE Then(Yield(C, el, KeyAt(A, B, t), SideAt(A, B, t)), r[After(A, B, t)])
  <2> DEFINE i == t[1]
             j == t[2]
             m == Cardinality(A)
             n == Cardinality(B)
  <2>1. /\ m \in Nat /\ n \in Nat /\ i \in Nat /\ j \in Nat
        /\ Len(a) = m /\ Len(b) = n
        /\ i <= m => a[i] \in Key /\ a[i] \in Nat
        /\ j <= n => b[j] \in Key /\ b[j] \in Nat
    BY TurnFacts
  <2>2. /\ Ended(A, B, t) <=> i > m /\ j > n
        /\ TakesLeft(A, B, t) <=> i <= m /\ (j > n \/ a[i] <= b[j])
        /\ TakesRight(A, B, t) <=> j <= n /\ (i > m \/ b[j] <= a[i])
    BY DEF Ended, TakesLeft, TakesRight
  <2> DEFINE both == i <= m /\ j <= n /\ a[i] = b[j]
  <2>3. Body(r, t) = IF Ended(A, B, t) THEN <<>>
                     ELSE IF TakesLeft(A, B, t) THEN Then(<<a[i]>>, r[<<i + 1, IF both THEN j + 1 ELSE j>>])
                     ELSE Then(<<b[j]>>, r[<<i, j + 1>>])
    BY <2>1, <2>2, Zenon DEF Then
  <2>4. ASSUME ~Ended(A, B, t)
        PROVE  Yield(C, el, KeyAt(A, B, t), SideAt(A, B, t)) = <<KeyAt(A, B, t)>>
    <3>1. KeyAt(A, B, t) \in Key
      BY <2>1, <2>2, <2>4 DEF KeyAt
    <3>2. SideAt(A, B, t) \in Sides
      BY DEF SideAt, Sides
    <3> QED BY <3>1, <3>2 DEF Yield
  <2>5. TakesLeft(A, B, t) /\ TakesRight(A, B, t) <=> both
    BY <2>1, <2>2
  <2>6. ~Ended(A, B, t) /\ ~TakesLeft(A, B, t) => TakesRight(A, B, t)
    BY <2>1, <2>2
  <2>7. TakesLeft(A, B, t) => After(A, B, t) = <<i + 1, IF both THEN j + 1 ELSE j>> /\ KeyAt(A, B, t) = a[i]
    BY <2>5, Zenon DEF After, KeyAt
  <2>8. ~Ended(A, B, t) /\ ~TakesLeft(A, B, t) => After(A, B, t) = <<i, j + 1>> /\ KeyAt(A, B, t) = b[j]
    BY <2>6, Zenon DEF After, KeyAt
  <2> HIDE DEF Body, el, C, both, i, j, a, b
  <2> QED BY <2>3, <2>4, <2>7, <2>8, Zenon
<1>4. ASSUME NEW r, Eq(r) PROVE Yields(r, A, B, C, el)
  <2>1. \A t \in Turns(A, B) : r[t] = Body(r, t)
    <3> HIDE DEF Body
    <3> QED BY <1>2, <1>4, Zenon
  <2> HIDE DEF Body, el, C
  <2> QED BY <1>3, <2>1, Zenon DEF Yields
<1>5. Eq([t \in Turns(A, B) |-> RestAt(A, B, C, el, t)])
  <2> DEFINE r == [t \in Turns(A, B) |-> RestAt(A, B, C, el, t)]
  <2>1. Yields(r, A, B, C, el)
    <3> HIDE DEF el, C
    <3> QED BY RestYields, Zenon
  <2>2. \A t \in Turns(A, B) : r[t] = Body(r, t)
    <3> HIDE DEF Body, el, C, r
    <3> QED BY <1>3, <2>1, Zenon DEF Yields
  <2>3. r = [t \in Turns(A, B) |-> r[t]]
    OBVIOUS
  <2> HIDE DEF r, Body
  <2>4. r = [t \in T |-> Body(r, t)]
    BY <1>2, <2>2, <2>3, Zenon
  <2> QED BY <2>4 DEF r
<1>6. Yields(h, A, B, C, el)
  <2>1. Eq(h)
    <3> HIDE DEF Body, T
    <3> QED BY <1>5, Zenon
  <2> HIDE DEF Body, T, h
  <2> QED BY <1>4, <2>1, Zenon
<1>7. h[<<1, 1>>] = Yielded(A, B, C, el)
  <2> HIDE DEF h, C, el
  <2> QED BY <1>6, YieldsAll
<1>8. Yielded(A, B, C, el) = Sorted(A \union B)
  <2>1. \A k \in Key : Side(A, B, k) \in Sides
    BY DEF Side, Sides
  <2>2. {k \in A \union B : <<k, Side(A, B, k)>> \in C} = A \union B
    BY <2>1
  <2>3. \A k \in A \union B : [x \in Key |-> el[<<x, Side(A, B, x)>>]][k] = k
    BY <2>1
  <2> DEFINE e == [x \in Key |-> el[<<x, Side(A, B, x)>>]]
             K == A \union B
             n == Cardinality(K)
  <2>4. Sorted(K) \in [1 .. n -> K]
    BY SortedEnumerates DEF Enumerates
  <2>5. Yielded(A, B, C, el) = Listing(K, e)
    BY <2>2, Zenon DEF Yielded
  <2>6. \A i \in 1 .. n : e[Sorted(K)[i]] = Sorted(K)[i]
    BY <2>3, <2>4
  <2> HIDE DEF e, K, n, C, el
  <2>7. Listing(K, e) = Sorted(K)
    BY <2>4, <2>6 DEF Listing, n
  <2> QED BY <2>5, <2>7 DEF K
<1> QED BY <1>1, <1>7, <1>8, Zenon

LEMMA TurnKinds ==
  ASSUME NEW A \in SUBSET Key, NEW B \in SUBSET Key, NEW t \in Turns(A, B), ~Ended(A, B, t)
  PROVE  /\ TakesLeft(A, B, t) \/ TakesRight(A, B, t)
         /\ TakesLeft(A, B, t) => /\ t[1] <= Cardinality(A) /\ Sorted(A)[t[1]] \in A
                                  /\ KeyAt(A, B, t) = Sorted(A)[t[1]]
         /\ TakesRight(A, B, t) => /\ t[2] <= Cardinality(B) /\ Sorted(B)[t[2]] \in B
                                   /\ KeyAt(A, B, t) = Sorted(B)[t[2]]
         /\ TakesLeft(A, B, t) /\ ~TakesRight(A, B, t) =>
              SideAt(A, B, t) = "left" /\ After(A, B, t) = <<t[1] + 1, t[2]>>
         /\ ~TakesLeft(A, B, t) /\ TakesRight(A, B, t) =>
              SideAt(A, B, t) = "right" /\ After(A, B, t) = <<t[1], t[2] + 1>>
         /\ TakesLeft(A, B, t) /\ TakesRight(A, B, t) =>
              SideAt(A, B, t) = "both" /\ After(A, B, t) = <<t[1] + 1, t[2] + 1>>
<1> DEFINE i == t[1]
           j == t[2]
           m == Cardinality(A)
           n == Cardinality(B)
           a == Sorted(A)
           b == Sorted(B)
<1>1. /\ m \in Nat /\ n \in Nat /\ i \in Nat /\ j \in Nat
      /\ i <= m => a[i] \in A /\ a[i] \in Nat
      /\ j <= n => b[j] \in B /\ b[j] \in Nat
  BY TurnFacts
<1>2. /\ Ended(A, B, t) <=> i > m /\ j > n
      /\ TakesLeft(A, B, t) <=> i <= m /\ (j > n \/ a[i] <= b[j])
      /\ TakesRight(A, B, t) <=> j <= n /\ (i > m \/ b[j] <= a[i])
  BY DEF Ended, TakesLeft, TakesRight
<1>3. /\ KeyAt(A, B, t) = IF TakesLeft(A, B, t) THEN a[i] ELSE b[j]
      /\ After(A, B, t) = <<IF TakesLeft(A, B, t) THEN i + 1 ELSE i,
                            IF TakesRight(A, B, t) THEN j + 1 ELSE j>>
      /\ SideAt(A, B, t) = IF ~TakesRight(A, B, t) THEN "left"
                           ELSE IF ~TakesLeft(A, B, t) THEN "right" ELSE "both"
  BY Zenon DEF KeyAt, After, SideAt
<1> HIDE DEF i, j, m, n, a, b
<1>4. TakesLeft(A, B, t) \/ TakesRight(A, B, t)
  BY <1>1, <1>2
<1>5. /\ TakesLeft(A, B, t) => i <= m /\ a[i] \in A
      /\ TakesRight(A, B, t) => j <= n /\ b[j] \in B
  BY <1>1, <1>2
<1>6. TakesLeft(A, B, t) /\ TakesRight(A, B, t) => a[i] = b[j]
  BY <1>1, <1>2
<1>7. TakesRight(A, B, t) => KeyAt(A, B, t) = b[j]
  BY <1>3, <1>6, Zenon
<1>8. TakesLeft(A, B, t) => KeyAt(A, B, t) = a[i]
  BY <1>3, Zenon
<1>9. /\ TakesLeft(A, B, t) /\ ~TakesRight(A, B, t) =>
           SideAt(A, B, t) = "left" /\ After(A, B, t) = <<i + 1, j>>
      /\ ~TakesLeft(A, B, t) /\ TakesRight(A, B, t) =>
           SideAt(A, B, t) = "right" /\ After(A, B, t) = <<i, j + 1>>
      /\ TakesLeft(A, B, t) /\ TakesRight(A, B, t) =>
           SideAt(A, B, t) = "both" /\ After(A, B, t) = <<i + 1, j + 1>>
  BY <1>3, Zenon
<1> QED BY <1>4, <1>5, <1>7, <1>8, <1>9, Zenon DEF i, j, m, n, a, b

\* A map's values, and the difference of two maps.
LEMMA MapFacts ==
  ASSUME NEW map \in Maps
  PROVE  /\ DOMAIN map \in SUBSET Key
         /\ \A k \in DOMAIN map : map[k] \in Value /\ MapGet(map, k) = map[k] /\ map[k] # None
         /\ \A k : k \notin DOMAIN map => MapGet(map, k) = None
         /\ map = [k \in DOMAIN map |-> map[k]]
<1>1. PICK K \in SUBSET Key : map \in [K -> Value]
  BY DEF Maps
<1> QED BY <1>1, NoneAssumption DEF MapGet

Diff(self, other) == Listing(ChangedKeys(self, other), [k \in Key |-> DiffElement(self, other, k)])

LEMMA DiffIsDiff ==
  ASSUME NEW self \in Maps, NEW other \in Maps, NEW diff, diff = Diff(self, other)
  PROVE  IsDiff(diff, self, other)
<1> DEFINE K == ChangedKeys(self, other)
           e == [k \in Key |-> DiffElement(self, other, k)]
<1>1. K \in SUBSET Key
  BY MapFacts DEF ChangedKeys
<1>2. Cardinality(K) \in Nat /\ Sorted(K) \in [1 .. Cardinality(K) -> K]
  BY <1>1, KeysAreFinite, SortedEnumerates DEF Enumerates
<1> HIDE DEF K
<1>3. \A i \in 1 .. Cardinality(K) : e[Sorted(K)[i]] = DiffElement(self, other, Sorted(K)[i])
  BY <1>1, <1>2
<1> HIDE DEF e
<1>4. Listing(K, e) = [i \in 1 .. Cardinality(K) |-> DiffElement(self, other, Sorted(K)[i])]
  BY <1>3, Zenon DEF Listing
<1> QED BY <1>4, Zenon DEF IsDiff, Diff, K, e

LEMMA OwnedDiff ==
  ASSUME NEW self \in Maps, NEW other \in Maps
  PROVE  SymmetricDiffOwned(self, other) = Diff(self, other)
<1> DEFINE A == DOMAIN self
           B == DOMAIN other
           a == Sorted(A)
           b == Sorted(B)
           C == {p \in Key \X Sides : p[2] = "both" => self[p[1]] # other[p[1]]}
           el == [p \in Key \X Sides |->
                    [key |-> p[1], old |-> IF p[2] = "right" THEN None ELSE self[p[1]],
                     new |-> IF p[2] = "left" THEN None ELSE other[p[1]]]]
           T == (1 .. Len(a) + 1) \X (1 .. Len(b) + 1)
           Body(rest, t) ==
             LET i == t[1]
                 j == t[2]
                 isLess == i <= Len(a) /\ (j > Len(b) \/ a[i] < b[j])
                 isGreater == j <= Len(b) /\ (i > Len(a) \/ b[j] < a[i])
             IN  IF i > Len(a) /\ j > Len(b) THEN <<>>
                 ELSE IF isLess THEN <<[key |-> a[i], old |-> self[a[i]], new |-> None]>>
                                     \o rest[<<i + 1, j>>]
                 ELSE IF isGreater THEN <<[key |-> b[j], old |-> None, new |-> other[b[j]]]>>
                                        \o rest[<<i, j + 1>>]
                 ELSE (IF self[a[i]] # other[b[j]]
                       THEN <<[key |-> a[i], old |-> self[a[i]], new |-> other[b[j]]]>>
                       ELSE <<>>) \o rest[<<i + 1, j + 1>>]
           Eq(rest) == rest = [t \in T |-> Body(rest, t)]
           h == CHOOSE rest : Eq(rest)
<1>1. SymmetricDiffOwned(self, other) = h[<<1, 1>>]
  BY Zenon DEF SymmetricDiffOwned, Keys
<1>2. T = Turns(A, B) /\ A \in SUBSET Key /\ B \in SUBSET Key
  BY MapFacts, LengthOfSorted DEF Turns
<1>3. ASSUME NEW r, NEW t \in Turns(A, B)
      PROVE  Body(r, t) = IF Ended(A, B, t) THEN <<>>
                          ELSE Then(Yield(C, el, KeyAt(A, B, t), SideAt(A, B, t)), r[After(A, B, t)])
  <2> DEFINE i == t[1]
             j == t[2]
             m == Cardinality(A)
             n == Cardinality(B)
             isLess == i <= m /\ (j > n \/ a[i] < b[j])
             isGreater == j <= n /\ (i > m \/ b[j] < a[i])
  <2>1. /\ m \in Nat /\ n \in Nat /\ i \in Nat /\ j \in Nat
        /\ Len(a) = m /\ Len(b) = n
        /\ i <= m => a[i] \in Nat
        /\ j <= n => b[j] \in Nat
    BY <1>2, TurnFacts
  <2>2. /\ Ended(A, B, t) <=> i > m /\ j > n
        /\ TakesLeft(A, B, t) <=> i <= m /\ (j > n \/ a[i] <= b[j])
        /\ TakesRight(A, B, t) <=> j <= n /\ (i > m \/ b[j] <= a[i])
    BY DEF Ended, TakesLeft, TakesRight
  <2>3. Body(r, t) =
          IF Ended(A, B, t) THEN <<>>
          ELSE IF isLess THEN Then(<<[key |-> a[i], old |-> self[a[i]], new |-> None]>>, r[<<i + 1, j>>])
          ELSE IF isGreater THEN Then(<<[key |-> b[j], old |-> None, new |-> other[b[j]]]>>, r[<<i, j + 1>>])
          ELSE Then(IF self[a[i]] # other[b[j]]
                    THEN <<[key |-> a[i], old |-> self[a[i]], new |-> other[b[j]]]>> ELSE <<>>,
                    r[<<i + 1, j + 1>>])
    BY <2>1, <2>2, Zenon DEF Then
  <2>4. ~Ended(A, B, t) =>
          /\ isLess <=> TakesLeft(A, B, t) /\ ~TakesRight(A, B, t)
          /\ isGreater <=> TakesRight(A, B, t) /\ ~TakesLeft(A, B, t)
    BY <2>1, <2>2
  <2>5. \A k \in Key :
          /\ <<k, "left">> \in Key \X Sides /\ <<k, "right">> \in Key \X Sides /\ <<k, "both">> \in Key \X Sides
          /\ <<k, "left">> \in C /\ <<k, "right">> \in C
          /\ <<k, "both">> \in C <=> self[k] # other[k]
    BY DEF Sides
  <2>6. \A k \in Key :
          /\ el[<<k, "left">>] = [key |-> k, old |-> self[k], new |-> None]
          /\ el[<<k, "right">>] = [key |-> k, old |-> None, new |-> other[k]]
          /\ el[<<k, "both">>] = [key |-> k, old |-> self[k], new |-> other[k]]
    BY <2>5
  <2> HIDE DEF C, el, Body, isLess, isGreater, i, j, m, n, a, b, A, B
  <2>7. \A k \in Key :
          /\ Yield(C, el, k, "left") = <<[key |-> k, old |-> self[k], new |-> None]>>
          /\ Yield(C, el, k, "right") = <<[key |-> k, old |-> None, new |-> other[k]]>>
          /\ Yield(C, el, k, "both") =
               IF self[k] # other[k] THEN <<[key |-> k, old |-> self[k], new |-> other[k]]>> ELSE <<>>
    BY <2>5, <2>6, Zenon DEF Yield
  <2>8. CASE Ended(A, B, t)
    BY <2>3, <2>8, Zenon
  <2>9. ASSUME ~Ended(A, B, t), TakesLeft(A, B, t), ~TakesRight(A, B, t)
        PROVE  Body(r, t) = Then(Yield(C, el, KeyAt(A, B, t), SideAt(A, B, t)), r[After(A, B, t)])
    <3>1. KeyAt(A, B, t) = a[i] /\ a[i] \in Key /\ SideAt(A, B, t) = "left" /\ After(A, B, t) = <<i + 1, j>>
      BY <1>2, <2>9, TurnKinds DEF a, i, j
    <3>2. Body(r, t) = Then(<<[key |-> a[i], old |-> self[a[i]], new |-> None]>>, r[<<i + 1, j>>])
      BY <2>3, <2>4, <2>9, Zenon
    <3> QED BY <2>7, <3>1, <3>2, Zenon
  <2>10. ASSUME ~Ended(A, B, t), ~TakesLeft(A, B, t), TakesRight(A, B, t)
        PROVE  Body(r, t) = Then(Yield(C, el, KeyAt(A, B, t), SideAt(A, B, t)), r[After(A, B, t)])
    <3>1. KeyAt(A, B, t) = b[j] /\ b[j] \in Key /\ SideAt(A, B, t) = "right" /\ After(A, B, t) = <<i, j + 1>>
      BY <1>2, <2>10, TurnKinds DEF b, i, j
    <3>2. Body(r, t) = Then(<<[key |-> b[j], old |-> None, new |-> other[b[j]]]>>, r[<<i, j + 1>>])
      BY <2>3, <2>4, <2>10, Zenon
    <3> QED BY <2>7, <3>1, <3>2, Zenon
  <2>11. ASSUME ~Ended(A, B, t), TakesLeft(A, B, t), TakesRight(A, B, t)
        PROVE  Body(r, t) = Then(Yield(C, el, KeyAt(A, B, t), SideAt(A, B, t)), r[After(A, B, t)])
    <3>1. KeyAt(A, B, t) = a[i] /\ a[i] \in Key /\ a[i] = b[j] /\ SideAt(A, B, t) = "both" /\ After(A, B, t) = <<i + 1, j + 1>>
      BY <1>2, <2>11, TurnKinds DEF a, b, i, j
    <3>2. Body(r, t) = Then(IF self[a[i]] # other[b[j]]
                            THEN <<[key |-> a[i], old |-> self[a[i]], new |-> other[b[j]]]>> ELSE <<>>,
                            r[<<i + 1, j + 1>>])
      BY <2>3, <2>4, <2>11, Zenon
    <3>3. Body(r, t) = Then(IF self[a[i]] # other[a[i]]
                            THEN <<[key |-> a[i], old |-> self[a[i]], new |-> other[a[i]]]>> ELSE <<>>,
                            r[<<i + 1, j + 1>>])
      BY <3>1, <3>2
    <3>4. Body(r, t) = Then(Yield(C, el, a[i], "both"), r[<<i + 1, j + 1>>])
      BY <2>7, <3>1, <3>3
    <3> QED BY <3>1, <3>4
  <2>12. ~Ended(A, B, t) => TakesLeft(A, B, t) \/ TakesRight(A, B, t)
    BY <1>2, TurnKinds
  <2> QED BY <2>8, <2>9, <2>10, <2>11, <2>12, Zenon
<1>4. ASSUME NEW r, Eq(r) PROVE Yields(r, A, B, C, el)
  <2>1. \A t \in Turns(A, B) : r[t] = Body(r, t)
    <3> HIDE DEF Body
    <3> QED BY <1>2, <1>4, Zenon
  <2> HIDE DEF Body, el, C
  <2> QED BY <1>3, <2>1, Zenon DEF Yields
<1>5. Eq([t \in Turns(A, B) |-> RestAt(A, B, C, el, t)])
  <2> DEFINE r == [t \in Turns(A, B) |-> RestAt(A, B, C, el, t)]
  <2>1. Yields(r, A, B, C, el)
    <3> HIDE DEF el, C, A, B
    <3> QED BY <1>2, RestYields, Zenon
  <2>2. \A t \in Turns(A, B) : r[t] = Body(r, t)
    <3> HIDE DEF Body, el, C, r
    <3> QED BY <1>3, <2>1, Zenon DEF Yields
  <2>3. r = [t \in Turns(A, B) |-> r[t]]
    OBVIOUS
  <2> HIDE DEF r, Body
  <2>4. r = [t \in T |-> Body(r, t)]
    BY <1>2, <2>2, <2>3, Zenon
  <2> QED BY <2>4 DEF r
<1>6. Yields(h, A, B, C, el)
  <2>1. Eq(h)
    <3> HIDE DEF Body, T
    <3> QED BY <1>5, Zenon
  <2> HIDE DEF Body, T, h
  <2> QED BY <1>4, <2>1, Zenon
<1>7. h[<<1, 1>>] = Yielded(A, B, C, el)
  <2> HIDE DEF h, C, el, A, B
  <2> QED BY <1>2, <1>6, YieldsAll
<1>8. Yielded(A, B, C, el) = Diff(self, other)
  <2> DEFINE K == {k \in A \union B : <<k, Side(A, B, k)>> \in C}
             e == [k \in Key |-> el[<<k, Side(A, B, k)>>]]
             f == [k \in Key |-> DiffElement(self, other, k)]
  <2>1. \A k \in Key : <<k, Side(A, B, k)>> \in Key \X Sides
    BY DEF Side, Sides
  <2>2. ASSUME NEW k \in A \union B
        PROVE  /\ <<k, Side(A, B, k)>> \in C <=> MapGet(self, k) # MapGet(other, k)
               /\ k \in Key /\ e[k] = f[k]
    <3>1. k \in Key
      BY <1>2, <2>2
    <3>2. e[k] = el[<<k, Side(A, B, k)>>] /\ f[k] = [key |-> k, old |-> MapGet(self, k), new |-> MapGet(other, k)]
      BY <3>1 DEF DiffElement
    <3>3. el[<<k, Side(A, B, k)>>] = [key |-> k, old |-> IF Side(A, B, k) = "right" THEN None ELSE self[k],
                     new |-> IF Side(A, B, k) = "left" THEN None ELSE other[k]]
      BY <2>1, <3>1
    <3>4. <<k, Side(A, B, k)>> \in C <=> (Side(A, B, k) = "both" => self[k] # other[k])
      BY <2>1, <3>1
    <3> HIDE DEF C, e, f, el
    <3>5. CASE k \notin B
      BY <3>1, <3>2, <3>3, <3>4, <3>5, MapFacts DEF Side
    <3>6. CASE k \notin A
      BY <3>1, <3>2, <3>3, <3>4, <3>6, MapFacts DEF Side
    <3>7. CASE k \in A /\ k \in B
      BY <3>1, <3>2, <3>3, <3>4, <3>7, MapFacts DEF Side
    <3> QED BY <3>5, <3>6, <3>7
  <2>3. K = ChangedKeys(self, other)
    BY <2>2 DEF ChangedKeys
  <2>4. K \in SUBSET Key /\ \A k \in K : e[k] = f[k]
    BY <2>2
  <2>5. Yielded(A, B, C, el) = Listing(K, e)
    BY Zenon DEF Yielded
  <2> HIDE DEF K, e, f
  <2>6. Listing(K, e) = Listing(K, f)
    BY <2>4, ListingSame
  <2> QED BY <2>3, <2>5, <2>6, Zenon DEF Diff, f
<1> QED BY <1>1, <1>7, <1>8, Zenon

\* The first i keys of a set.
FirstKeys(K, i) == {Sorted(K)[x] : x \in 1 .. i}

LEMMA KeyByKey ==
  ASSUME NEW K \in SUBSET Key
  PROVE  /\ FirstKeys(K, 0) = {} /\ FirstKeys(K, Cardinality(K)) = K
         /\ \A i \in 1 .. Cardinality(K) :
              /\ Sorted(K)[i] \in K
              /\ FirstKeys(K, i) = FirstKeys(K, i - 1) \union {Sorted(K)[i]}
              /\ FirstKeys(K, i - 1) \in SUBSET K
              /\ \A k \in FirstKeys(K, i - 1) : k < Sorted(K)[i]
<1> DEFINE n == Cardinality(K)
           s == Sorted(K)
<1>1. /\ n \in Nat /\ s \in [1 .. n -> K] /\ Increasing(s)
      /\ \A k \in K : \E i \in 1 .. n : s[i] = k
  BY KeysAreFinite, SortedEnumerates DEF Enumerates
<1>2. \A i : FirstKeys(K, i) = {s[x] : x \in 1 .. i}
  BY DEF FirstKeys
<1> HIDE DEF n, s
<1>3. FirstKeys(K, 0) = {} /\ FirstKeys(K, n) = K
  <2>1. FirstKeys(K, 0) = {}
    BY <1>2
  <2>2. {s[x] : x \in 1 .. n} = K
    BY <1>1
  <2> QED BY <1>2, <2>1, <2>2, Zenon
<1>4. ASSUME NEW i \in 1 .. n
      PROVE  /\ s[i] \in K
             /\ FirstKeys(K, i) = FirstKeys(K, i - 1) \union {s[i]}
             /\ FirstKeys(K, i - 1) \in SUBSET K
             /\ \A k \in FirstKeys(K, i - 1) : k < s[i]
  <2>1. \A x \in 1 .. i - 1 : x \in 1 .. n /\ x < i /\ x \in 1 .. i
    BY <1>1
  <2>2. i \in 1 .. i /\ \A x \in 1 .. i : x = i \/ x \in 1 .. i - 1
    BY <1>1
  <2>3. \A x \in 1 .. i - 1 : s[x] < s[i] /\ s[x] \in K
    BY <1>1, <2>1 DEF Increasing
  <2> QED BY <1>1, <1>2, <2>1, <2>2, <2>3
<1> QED BY <1>3, <1>4 DEF n, s

LEMMA ReferencedDiff ==
  ASSUME NEW self \in Maps, NEW other \in Maps
  PROVE  SymmetricDiff(self, other) = Diff(self, other)
<1> DEFINE K == DOMAIN self \union DOMAIN other
           E == {DiffElement(self, other, k) : k \in Key}
           e == [k \in Key |-> DiffElement(self, other, k)]
           s == Sorted(K)
           n == Cardinality(K)
           Changed(k) == MapGet(self, k) # MapGet(other, k)
           Seen(i) == {k \in FirstKeys(K, i) : Changed(k)}
<1>1. DOMAIN self \in SUBSET Key /\ DOMAIN other \in SUBSET Key /\ K \in SUBSET Key
  BY MapFacts
<1>2. n \in Nat /\ s \in [1 .. n -> K] /\ s \in Seq(K) /\ Len(s) = n
  <2>1. n \in Nat /\ s \in [1 .. n -> K]
    BY <1>1, KeysAreFinite, SortedEnumerates DEF Enumerates
  <2> HIDE DEF n, s, K
  <2> QED BY <2>1
<1>3. PICK f \in [0 .. n -> Seq(E)] :
        /\ f[0] = <<>> /\ f[n] = SymmetricDiff(self, other)
        /\ \A i \in 1 .. n : f[i] = DiffStep(self, other, f[i - 1], s[i])
  <2>1. SymmetricDiff(self, other) = DiffFold(self, other, <<>>, s)
    BY <1>1, KeysMerged, Zenon DEF SymmetricDiff, Keys, DiffFold
  <2>2. \A d \in Seq(E), k \in K : DiffStep(self, other, d, k) \in Seq(E)
    BY <1>1 DEF DiffStep
  <2>3. <<>> \in Seq(E)
    OBVIOUS
  <2> DEFINE T == Seq(E)
             base == <<>>
  <2> HIDE DEF E, K, s, n, T, base
  <2>4. DiffClosed(self, other, T, K)
    BY <2>2 DEF T, DiffClosed
  <2>5. base \in T /\ s \in Seq(K)
    BY <1>2, <2>3 DEF T, base
  <2>6. \E f \in [0 .. Len(s) -> T] :
           /\ f[0] = base /\ f[Len(s)] = DiffFold(self, other, base, s)
           /\ \A i \in 1 .. Len(s) : f[i] = DiffStep(self, other, f[i - 1], s[i])
    BY <2>4, <2>5, DiffLoop
  <2> QED BY <1>2, <2>1, <2>6, Zenon DEF T, base
<1> HIDE DEF K, s, n, E, e
<1> DEFINE P == {i \in 0 .. n : f[i] = Listing(Seen(i), e)}
<1>4. 0 \in P
  <2>1. Seen(0) = {}
    BY <1>1, KeyByKey
  <2>2. f[0] = Listing(Seen(0), e)
    BY <1>3, <2>1, ListingEmpty, Zenon
  <2> HIDE DEF Seen
  <2> QED BY <1>2, <2>2
<1>5. ASSUME NEW i \in 0 .. n - 1, i \in P PROVE i + 1 \in P
  <2> DEFINE x == s[i + 1]
  <2>1. i + 1 \in 1 .. n /\ (i + 1) - 1 = i
    BY <1>2
  <2>2. /\ x \in K /\ FirstKeys(K, i + 1) = FirstKeys(K, i) \union {x}
        /\ FirstKeys(K, i) \in SUBSET K
        /\ \A k \in FirstKeys(K, i) : k < x
    BY <1>1, <2>1, KeyByKey DEF s, n
  <2>3. Seen(i) \in SUBSET Key /\ \A k \in Seen(i) : k < x
    BY <1>1, <2>2
  <2>4. f[i + 1] = IF Changed(x) THEN Append(f[i], DiffElement(self, other, x)) ELSE f[i]
    BY <1>3, <2>1 DEF DiffStep
  <2>5. x \in Key /\ e[x] = DiffElement(self, other, x)
    BY <1>1, <2>2 DEF e
  <2>8. f[i] = Listing(Seen(i), e)
    BY <1>5
  <2> HIDE DEF P
  <2>9. SUFFICES f[i + 1] = Listing(Seen(i + 1), e)
    BY <1>2, <2>1 DEF P
  <2>6. CASE Changed(x)
    <3>1. Seen(i + 1) = Seen(i) \union {x}
      BY <2>2, <2>6
    <3> HIDE DEF Seen, x
    <3>2. Listing(Seen(i) \union {x}, e) = Append(Listing(Seen(i), e), e[x])
      BY <2>3, <2>5, ListingLast
    <3> QED BY <2>4, <2>5, <2>6, <2>8, <3>1, <3>2, Zenon
  <2>7. CASE ~Changed(x)
    <3>1. Seen(i + 1) = Seen(i)
      BY <2>2, <2>7
    <3> HIDE DEF Seen, x
    <3> QED BY <2>4, <2>7, <2>8, <3>1, Zenon
  <2> QED BY <2>6, <2>7
<1>6. n \in P
  <2> HIDE DEF P
  <2>1. n \in Nat
    BY <1>2
  <2>2. \A i \in 0 .. n : i \in P
    BY <1>4, <1>5, <2>1, Induction
  <2> QED BY <2>1, <2>2
<1>7. Seen(n) = ChangedKeys(self, other)
  BY <1>1, KeyByKey DEF ChangedKeys, K, n
<1> QED BY <1>3, <1>6, <1>7 DEF Diff, e

\* Two listings of elements with keys, merged.
Pairs(A, B, e1, e2) ==
  [k \in Key |-> [key |-> k, left |-> IF k \in A THEN <<e1[k]>> ELSE <<>>,
                  right |-> IF k \in B THEN <<e2[k]>> ELSE <<>>]]
HaveKeys(K, e) == \A k \in K : e[k].key = k

LEMMA ListingsMerged ==
  ASSUME NEW A \in SUBSET Key, NEW B \in SUBSET Key, NEW e1, NEW e2,
         HaveKeys(A, e1), HaveKeys(B, e2)
  PROVE  MergeOnceWith(Listing(A, e1), Listing(B, e2)) = Listing(A \union B, Pairs(A, B, e1, e2))
<1> DEFINE a == Listing(A, e1)
           b == Listing(B, e2)
           sa == Sorted(A)
           sb == Sorted(B)
           C == Key \X Sides
           el == [p \in Key \X Sides |->
                    [key |-> p[1], left |-> IF p[2] = "right" THEN <<>> ELSE <<e1[p[1]]>>,
                     right |-> IF p[2] = "left" THEN <<>> ELSE <<e2[p[1]]>>]]
           T == (1 .. Len(a) + 1) \X (1 .. Len(b) + 1)
           Body(merged, t) ==
             LET i == t[1]
                 j == t[2]
                 isLess == i <= Len(a) /\ (j > Len(b) \/ a[i].key < b[j].key)
                 isGreater == j <= Len(b) /\ (i > Len(a) \/ b[j].key < a[i].key)
             IN  IF i > Len(a) /\ j > Len(b) THEN <<>>
                 ELSE IF isLess THEN <<[key |-> a[i].key, left |-> <<a[i]>>, right |-> <<>>]>>
                                     \o merged[<<i + 1, j>>]
                 ELSE IF isGreater THEN <<[key |-> b[j].key, left |-> <<>>, right |-> <<b[j]>>]>>
                                        \o merged[<<i, j + 1>>]
                 ELSE <<[key |-> a[i].key, left |-> <<a[i]>>, right |-> <<b[j]>>]>>
                      \o merged[<<i + 1, j + 1>>]
           Eq(merged) == merged = [t \in T |-> Body(merged, t)]
           h == CHOOSE merged : Eq(merged)
<1>1. MergeOnceWith(a, b) = h[<<1, 1>>]
  BY Zenon DEF MergeOnceWith
<1>2. /\ Len(a) = Cardinality(A) /\ \A i \in 1 .. Cardinality(A) : a[i] = e1[sa[i]] /\ sa[i] \in A
      /\ Len(b) = Cardinality(B) /\ \A i \in 1 .. Cardinality(B) : b[i] = e2[sb[i]] /\ sb[i] \in B
  BY ListingItems, Zenon
<1>3. T = Turns(A, B)
  BY <1>2, Zenon DEF Turns
<1>4. ASSUME NEW r, NEW t \in Turns(A, B)
      PROVE  Body(r, t) = IF Ended(A, B, t) THEN <<>>
                          ELSE Then(Yield(C, el, KeyAt(A, B, t), SideAt(A, B, t)), r[After(A, B, t)])
  <2> DEFINE i == t[1]
             j == t[2]
             m == Cardinality(A)
             n == Cardinality(B)
             isLess == i <= m /\ (j > n \/ a[i].key < b[j].key)
             isGreater == j <= n /\ (i > m \/ b[j].key < a[i].key)
  <2>1. /\ m \in Nat /\ n \in Nat /\ i \in Nat /\ j \in Nat /\ i >= 1 /\ j >= 1
        /\ i <= m => sa[i] \in A /\ sa[i] \in Nat
        /\ j <= n => sb[j] \in B /\ sb[j] \in Nat
    BY TurnFacts
  <2>2. /\ Ended(A, B, t) <=> i > m /\ j > n
        /\ TakesLeft(A, B, t) <=> i <= m /\ (j > n \/ sa[i] <= sb[j])
        /\ TakesRight(A, B, t) <=> j <= n /\ (i > m \/ sb[j] <= sa[i])
    BY DEF Ended, TakesLeft, TakesRight
  <2>3. /\ i <= m => a[i] = e1[sa[i]] /\ a[i].key = sa[i]
        /\ j <= n => b[j] = e2[sb[j]] /\ b[j].key = sb[j]
    <3>1. (i <= m => i \in 1 .. m) /\ (j <= n => j \in 1 .. n)
      BY <2>1
    <3> HIDE DEF a, b, sa, sb, i, j
    <3> QED BY <1>2, <3>1, Zenon DEF HaveKeys
  <2>4. Body(r, t) =
          IF Ended(A, B, t) THEN <<>>
          ELSE IF isLess THEN Then(<<[key |-> a[i].key, left |-> <<a[i]>>, right |-> <<>>]>>, r[<<i + 1, j>>])
          ELSE IF isGreater THEN Then(<<[key |-> b[j].key, left |-> <<>>, right |-> <<b[j]>>]>>, r[<<i, j + 1>>])
          ELSE Then(<<[key |-> a[i].key, left |-> <<a[i]>>, right |-> <<b[j]>>]>>, r[<<i + 1, j + 1>>])
    <3> HIDE DEF a, b
    <3> QED BY <1>2, <2>2, Zenon DEF Then
  <2>5. ~Ended(A, B, t) =>
          /\ isLess <=> TakesLeft(A, B, t) /\ ~TakesRight(A, B, t)
          /\ isGreater <=> TakesRight(A, B, t) /\ ~TakesLeft(A, B, t)
    <3> HIDE DEF a, b, sa, sb, i, j, m, n
    <3> QED BY <2>1, <2>2, <2>3
  <2>6. \A k \in Key :
          /\ <<k, "left">> \in C /\ <<k, "right">> \in C /\ <<k, "both">> \in C
          /\ el[<<k, "left">>] = [key |-> k, left |-> <<e1[k]>>, right |-> <<>>]
          /\ el[<<k, "right">>] = [key |-> k, left |-> <<>>, right |-> <<e2[k]>>]
          /\ el[<<k, "both">>] = [key |-> k, left |-> <<e1[k]>>, right |-> <<e2[k]>>]
    BY DEF Sides
  <2> HIDE DEF C, el, Body, isLess, isGreater, i, j, m, n, a, b, sa, sb
  <2>7. \A k \in Key :
          /\ Yield(C, el, k, "left") = <<[key |-> k, left |-> <<e1[k]>>, right |-> <<>>]>>
          /\ Yield(C, el, k, "right") = <<[key |-> k, left |-> <<>>, right |-> <<e2[k]>>]>>
          /\ Yield(C, el, k, "both") = <<[key |-> k, left |-> <<e1[k]>>, right |-> <<e2[k]>>]>>
    BY <2>6, Zenon DEF Yield
  <2>8. CASE Ended(A, B, t)
    BY <2>4, <2>8, Zenon
  <2>9. ASSUME ~Ended(A, B, t), TakesLeft(A, B, t), ~TakesRight(A, B, t)
        PROVE  Body(r, t) = Then(Yield(C, el, KeyAt(A, B, t), SideAt(A, B, t)), r[After(A, B, t)])
    <3>1. /\ KeyAt(A, B, t) = sa[i] /\ sa[i] \in Key /\ i <= m
          /\ SideAt(A, B, t) = "left" /\ After(A, B, t) = <<i + 1, j>>
      BY <2>9, TurnKinds DEF sa, i, j, m
    <3>2. Body(r, t) = Then(<<[key |-> a[i].key, left |-> <<a[i]>>, right |-> <<>>]>>, r[<<i + 1, j>>])
      BY <2>4, <2>5, <2>9, Zenon
    <3>3. a[i] = e1[sa[i]] /\ a[i].key = sa[i]
      BY <2>3, <3>1
    <3> QED BY <2>7, <3>1, <3>2, <3>3, Zenon
  <2>10. ASSUME ~Ended(A, B, t), ~TakesLeft(A, B, t), TakesRight(A, B, t)
        PROVE  Body(r, t) = Then(Yield(C, el, KeyAt(A, B, t), SideAt(A, B, t)), r[After(A, B, t)])
    <3>1. /\ KeyAt(A, B, t) = sb[j] /\ sb[j] \in Key /\ j <= n
          /\ SideAt(A, B, t) = "right" /\ After(A, B, t) = <<i, j + 1>>
      BY <2>10, TurnKinds DEF sb, i, j, n
    <3>2. Body(r, t) = Then(<<[key |-> b[j].key, left |-> <<>>, right |-> <<b[j]>>]>>, r[<<i, j + 1>>])
      BY <2>4, <2>5, <2>10, Zenon
    <3>3. b[j] = e2[sb[j]] /\ b[j].key = sb[j]
      BY <2>3, <3>1
    <3> QED BY <2>7, <3>1, <3>2, <3>3, Zenon
  <2>11. ASSUME ~Ended(A, B, t), TakesLeft(A, B, t), TakesRight(A, B, t)
        PROVE  Body(r, t) = Then(Yield(C, el, KeyAt(A, B, t), SideAt(A, B, t)), r[After(A, B, t)])
    <3>1. /\ KeyAt(A, B, t) = sa[i] /\ sa[i] \in Key /\ i <= m /\ j <= n /\ sa[i] = sb[j]
          /\ SideAt(A, B, t) = "both" /\ After(A, B, t) = <<i + 1, j + 1>>
      BY <2>11, TurnKinds DEF sa, sb, i, j, m, n
    <3>2. Body(r, t) = Then(<<[key |-> a[i].key, left |-> <<a[i]>>, right |-> <<b[j]>>]>>,
                            r[<<i + 1, j + 1>>])
      BY <2>4, <2>5, <2>11, Zenon
    <3>3. a[i] = e1[sa[i]] /\ a[i].key = sa[i] /\ b[j] = e2[sa[i]]
      BY <2>3, <3>1
    <3> QED BY <2>7, <3>1, <3>2, <3>3, Zenon
  <2>12. ~Ended(A, B, t) => TakesLeft(A, B, t) \/ TakesRight(A, B, t)
    BY TurnKinds
  <2> QED BY <2>8, <2>9, <2>10, <2>11, <2>12, Zenon
<1>5. ASSUME NEW r, Eq(r) PROVE Yields(r, A, B, C, el)
  <2>1. \A t \in Turns(A, B) : r[t] = Body(r, t)
    <3> HIDE DEF Body
    <3> QED BY <1>3, <1>5, Zenon
  <2> HIDE DEF Body, el, C
  <2> QED BY <1>4, <2>1, Zenon DEF Yields
<1>6. Eq([t \in Turns(A, B) |-> RestAt(A, B, C, el, t)])
  <2> DEFINE r == [t \in Turns(A, B) |-> RestAt(A, B, C, el, t)]
  <2>1. Yields(r, A, B, C, el)
    <3> HIDE DEF el, C
    <3> QED BY RestYields, Zenon
  <2>2. \A t \in Turns(A, B) : r[t] = Body(r, t)
    <3> HIDE DEF Body, el, C, r
    <3> QED BY <1>4, <2>1, Zenon DEF Yields
  <2>3. r = [t \in Turns(A, B) |-> r[t]]
    OBVIOUS
  <2> HIDE DEF r, Body
  <2>4. r = [t \in T |-> Body(r, t)]
    BY <1>3, <2>2, <2>3, Zenon
  <2> QED BY <2>4 DEF r
<1>7. Yields(h, A, B, C, el)
  <2>1. Eq(h)
    <3> HIDE DEF Body, T
    <3> QED BY <1>6, Zenon
  <2> HIDE DEF Body, T, h
  <2> QED BY <1>5, <2>1, Zenon
<1>8. h[<<1, 1>>] = Yielded(A, B, C, el)
  <2> HIDE DEF h, C, el
  <2> QED BY <1>7, YieldsAll
<1>9. Yielded(A, B, C, el) = Listing(A \union B, Pairs(A, B, e1, e2))
  <2> DEFINE K == {k \in A \union B : <<k, Side(A, B, k)>> \in C}
             e == [k \in Key |-> el[<<k, Side(A, B, k)>>]]
             f == Pairs(A, B, e1, e2)
  <2>1. \A k \in Key : <<k, Side(A, B, k)>> \in C
    BY DEF Side, Sides
  <2>2. K = A \union B /\ K \in SUBSET Key
    BY <2>1
  <2>3. ASSUME NEW k \in K PROVE e[k] = f[k]
    <3>1. k \in Key /\ (k \in A \/ k \in B)
      BY <2>2, <2>3
    <3>2. /\ e[k] = [key |-> k, left |-> IF Side(A, B, k) = "right" THEN <<>> ELSE <<e1[k]>>,
                     right |-> IF Side(A, B, k) = "left" THEN <<>> ELSE <<e2[k]>>]
          /\ f[k] = [key |-> k, left |-> IF k \in A THEN <<e1[k]>> ELSE <<>>,
                     right |-> IF k \in B THEN <<e2[k]>> ELSE <<>>]
      BY <2>1, <3>1 DEF Pairs
    <3>3. (Side(A, B, k) = "right" <=> k \notin A) /\ (Side(A, B, k) = "left" <=> k \notin B)
      BY <3>1 DEF Side
    <3> HIDE DEF e, f
    <3> QED BY <3>2, <3>3
  <2>4. Yielded(A, B, C, el) = Listing(K, e)
    BY Zenon DEF Yielded
  <2> HIDE DEF K, e, f
  <2>5. Listing(K, e) = Listing(K, f)
    BY <2>2, <2>3, ListingSame
  <2> QED BY <2>2, <2>4, <2>5, Zenon DEF f
<1> QED BY <1>1, <1>8, <1>9, Zenon
-----------------------------------------------------------------------------
(***************************************************************************)
(* Patching.  MapOf(g) is the map of what g gives for each key, None for a *)
(* key that is not in it; every output is of this kind.                    *)
(***************************************************************************)
MapOf(g) == [k \in {x \in Key : g[x] # None} |-> g[k]]

LEMMA MapOfItems ==
  ASSUME NEW g
  PROVE  /\ DOMAIN MapOf(g) = {x \in Key : g[x] # None}
         /\ \A k \in Key : MapGet(MapOf(g), k) = g[k]
<1>1. DOMAIN MapOf(g) = {x \in Key : g[x] # None}
  BY DEF MapOf
<1>2. ASSUME NEW k \in Key PROVE MapGet(MapOf(g), k) = g[k]
  <2>1. CASE g[k] = None
    BY <1>1, <2>1 DEF MapGet
  <2>2. CASE g[k] # None
    <3>1. k \in DOMAIN MapOf(g) /\ MapOf(g)[k] = g[k]
      BY <2>2 DEF MapOf
    <3> QED BY <3>1 DEF MapGet
  <2> QED BY <2>1, <2>2
<1> QED BY <1>1, <1>2

LEMMA MapOfSame ==
  ASSUME NEW g, NEW h, \A k \in Key : g[k] = h[k]
  PROVE  MapOf(g) = MapOf(h)
<1>1. {x \in Key : g[x] # None} = {x \in Key : h[x] # None}
  OBVIOUS
<1> QED BY <1>1 DEF MapOf

LEMMA MapIsMapOf == \A map \in Maps : map = MapOf([k \in Key |-> MapGet(map, k)])
<1> SUFFICES ASSUME NEW map \in Maps PROVE map = MapOf([k \in Key |-> MapGet(map, k)])
  OBVIOUS
<1> DEFINE g == [k \in Key |-> MapGet(map, k)]
<1>1. {x \in Key : g[x] # None} = DOMAIN map
  BY MapFacts
<1>2. \A k \in DOMAIN map : g[k] = map[k]
  BY MapFacts
<1>3. map = [k \in DOMAIN map |-> map[k]]
  BY MapFacts
<1> HIDE DEF g
<1>4. [k \in DOMAIN map |-> g[k]] = [k \in DOMAIN map |-> map[k]]
  BY <1>2
<1> QED BY <1>1, <1>3, <1>4, Zenon DEF MapOf, g

\* One entry is put in or taken out.
LEMMA PatchOne ==
  ASSUME NEW g, NEW k \in Key, NEW v, g = [x \in Key |-> g[x]]
  PROVE  /\ InsertIfSome(MapOf(g), k, v) = MapOf([g EXCEPT ![k] = v])
         /\ OnInnerChange(MapOf(g), k, v) = MapOf([g EXCEPT ![k] = v])
<1> DEFINE h == [g EXCEPT ![k] = v]
           D == {x \in Key : g[x] # None}
<1>1. h = [x \in Key |-> IF x = k THEN v ELSE g[x]]
  OBVIOUS
<1>2. \A x \in Key : h[x] = IF x = k THEN v ELSE g[x]
  BY <1>1
<1> HIDE DEF h
<1>3. MapOf(g) = [x \in D |-> g[x]]
  BY DEF MapOf
<1>4. CASE v = None
  <2>1. {x \in Key : h[x] # None} = D \ {k}
    BY <1>2, <1>4
  <2>2. MapRemove(MapOf(g), k) = [x \in D \ {k} |-> MapOf(g)[x]]
    BY <1>3 DEF MapRemove, Restrict
  <2>3. \A x \in D \ {k} : MapOf(g)[x] = h[x]
    BY <1>2, <1>3
  <2>4. MapRemove(MapOf(g), k) = [x \in D \ {k} |-> h[x]]
    BY <2>2, <2>3
  <2> QED BY <1>4, <2>1, <2>4, Zenon DEF InsertIfSome, OnInnerChange, MapOf, h
<1>5. CASE v # None
  <2>1. {x \in Key : h[x] # None} = D \union {k}
    BY <1>2, <1>5
  <2>2. MapInsert(MapOf(g), k, v) = [x \in D \union {k} |-> IF x = k THEN v ELSE MapOf(g)[x]]
    BY <1>3 DEF MapInsert
  <2>3. \A x \in D \union {k} : (IF x = k THEN v ELSE MapOf(g)[x]) = h[x]
    BY <1>2, <1>3
  <2>4. MapInsert(MapOf(g), k, v) = [x \in D \union {k} |-> h[x]]
    BY <2>2, <2>3
  <2> QED BY <1>5, <2>1, <2>4, Zenon DEF InsertIfSome, OnInnerChange, MapOf, h
<1> QED BY <1>4, <1>5

\* In a loop over keys s, each turn changes the entry of its key from what g0 has for it
\* to what g1 has.
Patches(f, n, s, g1) ==
  \A i \in 1 .. n : f[i] = InsertIfSome(f[i - 1], s[i], g1[s[i]])

PatchesEach(f, n, s, g0, g1) ==
  \A i \in 1 .. n : \A g :
    /\ f[i - 1] = MapOf(g) /\ g = [x \in Key |-> g[x]] /\ g[s[i]] = g0[s[i]]
    => f[i] = MapOf([g EXCEPT ![s[i]] = g1[s[i]]])

Once(s, n) == \A i, j \in 1 .. n : i < j => s[i] # s[j]
SameElsewhere(n, s, g0, g1) == \A k \in Key : (\A i \in 1 .. n : s[i] # k) => g0[k] = g1[k]

LEMMA PatchAll ==
  ASSUME NEW n \in Nat, NEW s \in [1 .. n -> Key], NEW g0, NEW g1, NEW f,
         f[0] = MapOf(g0), Once(s, n), PatchesEach(f, n, s, g0, g1), SameElsewhere(n, s, g0, g1)
  PROVE  f[n] = MapOf(g1)
<1> DEFINE Done(i) == {s[x] : x \in 1 .. i}
           G(i) == [k \in Key |-> IF k \in Done(i) THEN g1[k] ELSE g0[k]]
           P == {i \in 0 .. n : f[i] = MapOf(G(i))}
<1>1. 0 \in P
  <2>1. \A k \in Key : G(0)[k] = g0[k]
    OBVIOUS
  <2> HIDE DEF G
  <2>2. MapOf(G(0)) = MapOf(g0)
    BY <2>1, MapOfSame
  <2> QED BY <2>2
<1>2. ASSUME NEW i \in 0 .. n - 1, i \in P PROVE i + 1 \in P
  <2> DEFINE k == s[i + 1]
  <2>1. i + 1 \in 1 .. n /\ (i + 1) - 1 = i /\ i + 1 \in 0 .. n
    OBVIOUS
  <2>2. k \in Key
    BY <2>1
  <2>3. Done(i + 1) = Done(i) \union {k}
    <3>1. i + 1 \in 1 .. i + 1 /\ \A x \in 1 .. i + 1 : x = i + 1 \/ x \in 1 .. i
      OBVIOUS
    <3>2. \A x \in 1 .. i : x \in 1 .. i + 1
      OBVIOUS
    <3> QED BY <3>1, <3>2
  <2>4. G(i)[k] = g0[k]
    <3>1. \A x \in 1 .. i : s[x] # s[i + 1]
      BY <2>1 DEF Once
    <3>2. k \notin Done(i)
      BY <3>1
    <3> QED BY <2>2, <3>2
  <2>5. f[i] = MapOf(G(i))
    BY <1>2
  <2>6. G(i) = [x \in Key |-> G(i)[x]]
    OBVIOUS
  <2>7. [G(i) EXCEPT ![k] = g1[k]] = G(i + 1)
    <3> HIDE DEF Done, k
    <3>1. [G(i) EXCEPT ![k] = g1[k]] = [x \in Key |-> IF x = k THEN g1[x] ELSE IF x \in Done(i) THEN g1[x] ELSE g0[x]]
      OBVIOUS
    <3> QED BY <2>3, <3>1
  <2> HIDE DEF G
  <2>8. f[i + 1] = MapOf([G(i) EXCEPT ![k] = g1[k]])
    BY <2>1, <2>4, <2>5, <2>6, Zenon DEF PatchesEach
  <2>9. f[i + 1] = MapOf(G(i + 1))
    BY <2>7, <2>8, Zenon
  <2> QED BY <2>1, <2>9
<1>3. n \in P
  <2> HIDE DEF P
  <2>1. \A i \in 0 .. n : i \in P
    BY <1>1, <1>2, Induction
  <2> QED BY <2>1
<1>4. \A k \in Key : G(n)[k] = g1[k]
  BY DEF SameElsewhere
<1>5. f[n] = MapOf(G(n))
  BY <1>3
<1> HIDE DEF G
<1>6. MapOf(G(n)) = MapOf(g1)
  BY <1>4, MapOfSame
<1> QED BY <1>5, <1>6

LEMMA PatchSimply ==
  ASSUME NEW n \in Nat, NEW s \in [1 .. n -> Key], NEW g0, NEW g1, NEW f, Patches(f, n, s, g1)
  PROVE  PatchesEach(f, n, s, g0, g1)
<1> SUFFICES ASSUME NEW i \in 1 .. n, NEW g, f[i - 1] = MapOf(g), g = [x \in Key |-> g[x]]
             PROVE  f[i] = MapOf([g EXCEPT ![s[i]] = g1[s[i]]])
  BY DEF PatchesEach
<1>1. s[i] \in Key
  OBVIOUS
<1>2. f[i] = InsertIfSome(MapOf(g), s[i], g1[s[i]])
  BY Zenon DEF Patches
<1> QED BY <1>1, <1>2, PatchOne

\* The maps that patching leads through.
MapsTo(V) == {MapOf(g) : g \in [Key -> V]}

LEMMA PatchClosed ==
  ASSUME NEW V, NEW m \in MapsTo(V), NEW k \in Key, NEW v \in V
  PROVE  InsertIfSome(m, k, v) \in MapsTo(V) /\ OnInnerChange(m, k, v) \in MapsTo(V)
<1>1. PICK g \in [Key -> V] : m = MapOf(g)
  BY DEF MapsTo
<1>2. g = [x \in Key |-> g[x]] /\ [g EXCEPT ![k] = v] \in [Key -> V]
  OBVIOUS
<1>3. InsertIfSome(m, k, v) = MapOf([g EXCEPT ![k] = v]) /\ OnInnerChange(m, k, v) = MapOf([g EXCEPT ![k] = v])
  BY <1>1, <1>2, PatchOne
<1> QED BY <1>2, <1>3 DEF MapsTo

\* The elements of a difference, for the keys s.
Elements(self, other) == {DiffElement(self, other, k) : k \in Key}

Lists(diff, n, s, self, other) ==
  /\ n \in Nat /\ s \in [1 .. n -> Key]
  /\ \A i \in 1 .. n : s[i] \in ChangedKeys(self, other)
  /\ \A k \in ChangedKeys(self, other) : \E i \in 1 .. n : s[i] = k
  /\ \A i, j \in 1 .. n : i < j => s[i] < s[j]
  /\ diff \in Seq(Elements(self, other)) /\ Len(diff) = n
  /\ \A i \in 1 .. n : diff[i] = DiffElement(self, other, s[i])

LEMMA DiffItems ==
  ASSUME NEW self \in Maps, NEW other \in Maps
  PROVE  /\ \E n, s : Lists(SymmetricDiff(self, other), n, s, self, other)
         /\ ChangedKeys(self, other) \in SUBSET Key
         /\ KeysOf(SymmetricDiff(self, other)) = ChangedKeys(self, other)
         /\ SymmetricDiff(self, other) = <<>> => ChangedKeys(self, other) = {}
         /\ \A k \in Key : k \notin ChangedKeys(self, other) => MapGet(self, k) = MapGet(other, k)
<1> DEFINE K == ChangedKeys(self, other)
           n == Cardinality(K)
           s == Sorted(K)
           diff == SymmetricDiff(self, other)
           e == [k \in Key |-> DiffElement(self, other, k)]
           E == Elements(self, other)
<1>1. K \in SUBSET Key
  BY MapFacts DEF ChangedKeys
<1>2. \A k \in Key : k \notin K => MapGet(self, k) = MapGet(other, k)
  BY MapFacts DEF ChangedKeys
<1>3. \A k \in K : e[k] \in E /\ e[k] = DiffElement(self, other, k)
  BY <1>1 DEF Elements
<1>4. diff = Listing(K, e)
  BY ReferencedDiff, Zenon DEF Diff
<1> HIDE DEF K, e, E, diff
<1>5. n \in Nat /\ s \in [1 .. n -> K] /\ Increasing(s) /\ \A k \in K : \E i \in 1 .. n : s[i] = k
  BY <1>1, KeysAreFinite, SortedEnumerates DEF Enumerates
<1>6. diff \in Seq(E) /\ Len(diff) = n /\ \A i \in 1 .. n : diff[i] = e[s[i]] /\ s[i] \in K
  BY <1>1, <1>3, <1>4, ListingType
<1> HIDE DEF n, s
<1>7. \A i \in 1 .. n : diff[i] = DiffElement(self, other, s[i])
  BY <1>3, <1>6, Zenon
<1>8. KeysOf(diff) = K
  <2>1. DOMAIN diff = 1 .. n
    BY <1>5, <1>6
  <2>4. \A k : DiffElement(self, other, k).key = k
    BY DEF DiffElement
  <2>2. \A i \in 1 .. n : diff[i].key = s[i]
    BY <1>7, <2>4, Zenon
  <2>3. KeysOf(diff) = {s[i] : i \in 1 .. n}
    BY <2>1, <2>2 DEF KeysOf
  <2> QED BY <1>5, <2>3
<1>9. diff = <<>> => K = {}
  BY <1>8 DEF KeysOf
<1>10. s \in [1 .. n -> Key] /\ \A i, j \in 1 .. n : i < j => s[i] < s[j]
  BY <1>1, <1>5 DEF Increasing
<1>11. Lists(diff, n, s, self, other)
  BY <1>5, <1>6, <1>7, <1>10, Zenon DEF Lists, K, E
<1>12. \E m, u : Lists(diff, m, u, self, other)
  BY <1>11, Zenon
<1> QED BY <1>1, <1>2, <1>8, <1>9, <1>12, Zenon DEF K, diff

LEMMA ListsOnce ==
  ASSUME NEW diff, NEW n, NEW s, NEW self \in Maps, NEW other \in Maps, Lists(diff, n, s, self, other)
  PROVE  Once(s, n)
<1>1. \A i \in 1 .. n : s[i] \in Nat
  BY KeyAssumption DEF Lists
<1> QED BY <1>1 DEF Lists, Once

-----------------------------------------------------------------------------
(***************************************************************************)
(* incr_filter_mapi.                                                       *)
(***************************************************************************)
Filtered(map) == [k \in Key |-> IF k \in DOMAIN map THEN FilterMap(k, map[k]) ELSE None]

LEMMA FilteredGet ==
  \A map \in Maps, k \in Key :
    Filtered(map)[k] = IF MapGet(map, k) = None THEN None ELSE FilterMap(k, MapGet(map, k))
BY MapFacts DEF Filtered

LEMMA FilterMapCollected == \A map \in Maps : FilterMapCollect(map) = MapOf(Filtered(map))
<1> SUFFICES ASSUME NEW map \in Maps PROVE FilterMapCollect(map) = MapOf(Filtered(map))
  OBVIOUS
<1> DEFINE D == {x \in Key : Filtered(map)[x] # None}
<1>1. DOMAIN map \in SUBSET Key
  BY MapFacts
<1>2. {x \in DOMAIN map : FilterMap(x, map[x]) # None} = D
  BY <1>1 DEF Filtered
<1>3. \A k \in D : FilterMap(k, map[k]) = Filtered(map)[k]
  BY DEF Filtered
<1> HIDE DEF D
<1>4. [k \in D |-> FilterMap(k, map[k])] = [k \in D |-> Filtered(map)[k]]
  BY <1>3
<1> QED BY <1>2, <1>4, Zenon DEF FilterMapCollect, MapOf, D

LEMMA FilterMapPatched ==
  ASSUME NEW self \in Maps, NEW other \in Maps
  PROVE  FoldLeft(FilterMapStep, FilterMapCollect(self), SymmetricDiff(self, other)) = FilterMapCollect(other)
<1> DEFINE diff == SymmetricDiff(self, other)
           E == Elements(self, other)
           V == {FilterMap(k, v) : k \in Key, v \in Value} \union {None}
           g0 == Filtered(self)
           g1 == Filtered(other)
           S == MapsTo(V)
           base == MapOf(g0)
<1>1. PICK n, s : Lists(diff, n, s, self, other)
  BY DiffItems
<1>2. \A k \in Key : \A m : FilterMapStep(m, DiffElement(self, other, k)) = InsertIfSome(m, k, g1[k])
  <2> SUFFICES ASSUME NEW k \in Key, NEW m
               PROVE  FilterMapStep(m, DiffElement(self, other, k)) = InsertIfSome(m, k, g1[k])
    OBVIOUS
  <2>1. DiffElement(self, other, k).key = k /\ DiffElement(self, other, k).new = MapGet(other, k)
    BY DEF DiffElement
  <2>2. g1[k] = IF MapGet(other, k) = None THEN None ELSE FilterMap(k, MapGet(other, k))
    BY FilteredGet
  <2> QED BY <2>1, <2>2, Zenon DEF FilterMapStep
<1>3. \A map \in Maps : Filtered(map) \in [Key -> V]
  BY MapFacts DEF Filtered
<1>4. FilterMapClosed(S, E)
  <2> SUFFICES ASSUME NEW m \in S, NEW k \in Key PROVE FilterMapStep(m, DiffElement(self, other, k)) \in S
    BY DEF FilterMapClosed, Elements
  <2>1. g1[k] \in V
    BY <1>3
  <2> HIDE DEF V, g1
  <2>2. InsertIfSome(m, k, g1[k]) \in S
    BY <2>1, PatchClosed
  <2> QED BY <1>2, <2>2
<1>5. base \in S /\ diff \in Seq(E) /\ Len(diff) = n
  BY <1>1, <1>3 DEF MapsTo, Lists
<1> HIDE DEF diff, E, V, S, g0, g1, base
<1>6. PICK f \in [0 .. n -> S] :
        /\ f[0] = base /\ f[n] = FilterMapFold(base, diff)
        /\ \A i \in 1 .. n : f[i] = FilterMapStep(f[i - 1], diff[i])
  <2>1. \E f \in [0 .. Len(diff) -> S] :
          /\ f[0] = base /\ f[Len(diff)] = FilterMapFold(base, diff)
          /\ \A i \in 1 .. Len(diff) : f[i] = FilterMapStep(f[i - 1], diff[i])
    BY <1>4, <1>5, FilterMapLoop
  <2> QED BY <1>5, <2>1, Zenon
<1>7. Patches(f, n, s, g1)
  <2>1. \A i \in 1 .. n : s[i] \in Key /\ diff[i] = DiffElement(self, other, s[i])
    BY <1>1 DEF Lists
  <2> QED BY <1>2, <1>6, <2>1, Zenon DEF Patches
<1>8. SameElsewhere(n, s, g0, g1)
  <2> SUFFICES ASSUME NEW k \in Key, \A i \in 1 .. n : s[i] # k PROVE g0[k] = g1[k]
    BY DEF SameElsewhere
  <2>1. MapGet(self, k) = MapGet(other, k)
    BY <1>1, DiffItems DEF Lists
  <2> QED BY <2>1, FilteredGet, Zenon DEF g0, g1
<1>9. f[n] = MapOf(g1)
  <2>1. n \in Nat /\ s \in [1 .. n -> Key]
    BY <1>1 DEF Lists
  <2>3. Once(s, n)
    BY <1>1, ListsOnce
  <2>2. PatchesEach(f, n, s, g0, g1)
    BY <1>7, <2>1, PatchSimply
  <2> QED BY <1>6, <1>8, <2>1, <2>2, <2>3, PatchAll DEF base
<1> QED BY <1>6, <1>9, FilterMapCollected, Zenon DEF FilterMapFold, base, diff, g0, g1

-----------------------------------------------------------------------------
(***************************************************************************)
(* The folds.                                                              *)
(***************************************************************************)
Got(map) == [k \in Key |-> MapGet(map, k)]
GotLeft(map) == [k \in Key |-> IF k \in DOMAIN map /\ GoesLeft(k, map[k]) THEN map[k] ELSE None]
GotRight(map) == [k \in Key |-> IF k \in DOMAIN map /\ ~GoesLeft(k, map[k]) THEN map[k] ELSE None]
Parted(map) == [left |-> MapOf(GotLeft(map)), right |-> MapOf(GotRight(map))]

LEMMA GotFacts ==
  \A map \in Maps, k \in Key :
    /\ Got(map)[k] = MapGet(map, k)
    /\ GotLeft(map)[k] = IF MapGet(map, k) # None /\ GoesLeft(k, MapGet(map, k)) THEN MapGet(map, k) ELSE None
    /\ GotRight(map)[k] = IF MapGet(map, k) # None /\ ~GoesLeft(k, MapGet(map, k)) THEN MapGet(map, k) ELSE None
    /\ MapGet(map, k) \in Value \union {None}
<1> SUFFICES ASSUME NEW map \in Maps, NEW k \in Key
             PROVE /\ Got(map)[k] = MapGet(map, k)
                   /\ GotLeft(map)[k] = IF MapGet(map, k) # None /\ GoesLeft(k, MapGet(map, k)) THEN MapGet(map, k) ELSE None
                   /\ GotRight(map)[k] = IF MapGet(map, k) # None /\ ~GoesLeft(k, MapGet(map, k)) THEN MapGet(map, k) ELSE None
                   /\ MapGet(map, k) \in Value \union {None}
  OBVIOUS
<1>1. CASE k \in DOMAIN map
  BY <1>1, MapFacts DEF Got, GotLeft, GotRight
<1>2. CASE k \notin DOMAIN map
  BY <1>2, MapFacts DEF Got, GotLeft, GotRight
<1> QED BY <1>1, <1>2

LEMMA GotTypes ==
  \A map \in Maps : /\ Got(map) \in [Key -> Value \union {None}]
                    /\ GotLeft(map) \in [Key -> Value \union {None}]
                    /\ GotRight(map) \in [Key -> Value \union {None}]
<1> SUFFICES ASSUME NEW map \in Maps
             PROVE  /\ Got(map) \in [Key -> Value \union {None}]
                    /\ GotLeft(map) \in [Key -> Value \union {None}]
                    /\ GotRight(map) \in [Key -> Value \union {None}]
  OBVIOUS
<1>1. \A k \in Key : /\ Got(map)[k] \in Value \union {None}
                     /\ GotLeft(map)[k] \in Value \union {None}
                     /\ GotRight(map)[k] \in Value \union {None}
  BY GotFacts
<1>2. Got(map) = [k \in Key |-> Got(map)[k]]
  BY DEF Got
<1>3. GotLeft(map) = [k \in Key |-> GotLeft(map)[k]]
  BY DEF GotLeft
<1>4. GotRight(map) = [k \in Key |-> GotRight(map)[k]]
  BY DEF GotRight
<1> QED BY <1>1, <1>2, <1>3, <1>4

LEMMA PartedMaps ==
  ASSUME NEW map \in Maps
  PROVE  Parted(map) = [left |-> RestrictDomain(map, LAMBDA k : GoesLeft(k, map[k])),
                        right |-> RestrictDomain(map, LAMBDA k : ~GoesLeft(k, map[k]))]
<1>1. DOMAIN map \in SUBSET Key
  BY MapFacts
<1> DEFINE L == {k \in DOMAIN map : GoesLeft(k, map[k])}
           R == {k \in DOMAIN map : ~GoesLeft(k, map[k])}
<1>2. {x \in Key : GotLeft(map)[x] # None} = L
  BY <1>1, MapFacts DEF GotLeft
<1>3. {x \in Key : GotRight(map)[x] # None} = R
  BY <1>1, MapFacts DEF GotRight
<1>4. \A k \in L : GotLeft(map)[k] = map[k]
  BY <1>1 DEF GotLeft
<1>5. \A k \in R : GotRight(map)[k] = map[k]
  BY <1>1 DEF GotRight
<1>6. RestrictDomain(map, LAMBDA k : GoesLeft(k, map[k])) = [k \in L |-> map[k]]
  BY Zenon DEF RestrictDomain, Restrict
<1>7. RestrictDomain(map, LAMBDA k : ~GoesLeft(k, map[k])) = [k \in R |-> map[k]]
  BY Zenon DEF RestrictDomain, Restrict
<1> HIDE DEF L, R
<1>8. [k \in L |-> map[k]] = [k \in L |-> GotLeft(map)[k]]
  BY <1>4
<1>9. [k \in R |-> map[k]] = [k \in R |-> GotRight(map)[k]]
  BY <1>5
<1> QED BY <1>2, <1>3, <1>6, <1>7, <1>8, <1>9, Zenon DEF Parted, MapOf

FoldOf(map) == IF op = "partition" THEN Parted(map) ELSE map

LEMMA NothingFolded == EmptyMap \in Maps /\ FoldInit = FoldOf(EmptyMap)
<1>1. EmptyMap \in Maps /\ \A k : MapGet(EmptyMap, k) = None
  BY DEF Maps, EmptyMap, MapGet
<1>2. \A g : (\A k \in Key : g[k] = None) => MapOf(g) = EmptyMap
  <2> SUFFICES ASSUME NEW g, \A k \in Key : g[k] = None PROVE MapOf(g) = EmptyMap
    OBVIOUS
  <2>1. {x \in Key : g[x] # None} = {}
    OBVIOUS
  <2>2. MapOf(g) = [k \in {} |-> g[k]]
    BY <2>1, Zenon DEF MapOf
  <2> QED BY <2>2 DEF EmptyMap
<1>3. \A k \in Key : GotLeft(EmptyMap)[k] = None /\ GotRight(EmptyMap)[k] = None
  BY <1>1, GotFacts
<1>4. Parted(EmptyMap) = [left |-> EmptyMap, right |-> EmptyMap]
  BY <1>2, <1>3, Zenon DEF Parted
<1> QED BY <1>1, <1>4, Zenon DEF FoldInit, FoldOf

\* What Update does to a map: it removes the key and adds it again.
LEMMA RemoveThenInsert ==
  ASSUME NEW m, NEW k, NEW v
  PROVE  MapInsert(MapRemove(m, k), k, v) = MapInsert(m, k, v)
<1>1. DOMAIN MapRemove(m, k) = DOMAIN m \ {k} /\ \A x \in DOMAIN m \ {k} : MapRemove(m, k)[x] = m[x]
  BY DEF MapRemove, Restrict
<1>2. (DOMAIN m \ {k}) \union {k} = DOMAIN m \union {k}
  OBVIOUS
<1> DEFINE r == MapRemove(m, k)
           D == DOMAIN m \union {k}
<1> HIDE DEF r, D
<1>3. \A x \in D : (IF x = k THEN v ELSE r[x]) = (IF x = k THEN v ELSE m[x])
  BY <1>1 DEF r, D
<1>4. [x \in D |-> IF x = k THEN v ELSE r[x]] = [x \in D |-> IF x = k THEN v ELSE m[x]]
  BY <1>3
<1>5. DOMAIN r \union {k} = D
  BY <1>1, <1>2 DEF r, D
<1> QED BY <1>4, <1>5, Zenon DEF MapInsert, r, D

\* A turn of the fold.
LEMMA FoldStepMap ==
  ASSUME op # "partition", NEW m, NEW self, NEW other, NEW k
  PROVE  FoldStep(m, DiffElement(self, other, k)) = InsertIfSome(m, k, MapGet(other, k))
<1> DEFINE e == DiffElement(self, other, k)
<1>1. e.key = k /\ e.old = MapGet(self, k) /\ e.new = MapGet(other, k)
  BY DEF DiffElement
<1> HIDE DEF e
<1>2. CASE e.new = None
  BY <1>1, <1>2, Zenon DEF FoldStep, Subtract, InsertIfSome, e
<1>3. CASE e.new # None /\ e.old = None
  BY <1>1, <1>3, Zenon DEF FoldStep, Add, InsertIfSome, e
<1>4. CASE e.new # None /\ e.old # None
  BY <1>1, <1>4, RemoveThenInsert, Zenon DEF FoldStep, Update, Add, Subtract, InsertIfSome, e
<1> QED BY <1>2, <1>3, <1>4

Absent(m, k) == MapRemove(m, k) = m

LEMMA AbsentIs ==
  ASSUME NEW g, NEW k \in Key, g[k] = None
  PROVE  Absent(MapOf(g), k)
<1> DEFINE D == {x \in Key : g[x] # None}
<1>1. MapOf(g) = [x \in D |-> g[x]] /\ D \ {k} = D
  BY DEF MapOf
<1> HIDE DEF D
<1>2. MapRemove(MapOf(g), k) = [x \in D |-> MapOf(g)[x]]
  BY <1>1 DEF MapRemove, Restrict
<1> QED BY <1>1, <1>2 DEF Absent

\* It puts the new value in, or takes the key out; a key that was not there before the
\* step needs no taking out.
Parts(m) == m = [left |-> m.left, right |-> m.right]
StepsTo(new, old, k, v, fresh) ==
  /\ new \in {old, InsertIfSome(old, k, v)}
  /\ (fresh => Absent(old, k)) => new = InsertIfSome(old, k, v)
PartsStep(then, m, self, other, k) ==
  /\ Parts(then)
  /\ StepsTo(then.left, m.left, k, GotLeft(other)[k], MapGet(self, k) = None)
  /\ StepsTo(then.right, m.right, k, GotRight(other)[k], MapGet(self, k) = None)

LEMMA FoldStepParts ==
  ASSUME op = "partition", NEW m, Parts(m), NEW self \in Maps, NEW other \in Maps, NEW k \in Key
  PROVE  PartsStep(FoldStep(m, DiffElement(self, other, k)), m, self, other, k)
<1> DEFINE L == m.left
           R == m.right
           e == DiffElement(self, other, k)
           v == MapGet(other, k)
           then == FoldStep(m, e)
           Goal == /\ then = [left |-> then.left, right |-> then.right]
                   /\ (e.old = None => Absent(L, k)) => then.left = InsertIfSome(L, k, GotLeft(other)[k])
                   /\ (e.old = None => Absent(R, k)) => then.right = InsertIfSome(R, k, GotRight(other)[k])
                   /\ then.left \in {L, InsertIfSome(L, k, GotLeft(other)[k])}
                   /\ then.right \in {R, InsertIfSome(R, k, GotRight(other)[k])}
           Result(l, r) == then = [left |-> l, right |-> r] /\ then.left = l /\ then.right = r
<1>1. e.key = k /\ e.old = MapGet(self, k) /\ e.new = v
  BY DEF DiffElement
<1>2. /\ GotLeft(other)[k] = IF v # None /\ GoesLeft(k, v) THEN v ELSE None
      /\ GotRight(other)[k] = IF v # None /\ ~GoesLeft(k, v) THEN v ELSE None
  BY GotFacts
<1>3. m.left = L /\ m.right = R /\ m = [left |-> L, right |-> R]
  BY DEF Parts
<1>4. ASSUME NEW l, NEW r, then = [left |-> l, right |-> r] PROVE Result(l, r)
  <2> HIDE DEF then
  <2> QED BY <1>4
<1>5. /\ InsertIfSome(L, k, None) = MapRemove(L, k) /\ (v # None => InsertIfSome(L, k, v) = MapInsert(L, k, v))
      /\ InsertIfSome(R, k, None) = MapRemove(R, k) /\ (v # None => InsertIfSome(R, k, v) = MapInsert(R, k, v))
  BY Zenon DEF InsertIfSome
<1> HIDE DEF e, v, L, R
<1>6. ASSUME v = None PROVE Goal
  <2>1. then = [left |-> MapRemove(L, k), right |-> MapRemove(R, k)]
    BY <1>1, <1>3, <1>6, Zenon DEF FoldStep, Subtract
  <2>2. Result(MapRemove(L, k), MapRemove(R, k))
    BY <1>4, <2>1
  <2> HIDE DEF then
  <2> QED BY <1>1, <1>2, <1>5, <1>6, <2>2
<1>7. ASSUME v # None /\ e.old = None PROVE Goal
  <2>1. then = Add(m, k, v)
    BY <1>1, <1>7, Zenon DEF FoldStep
  <2>2. CASE GoesLeft(k, v)
    <3>1. [m EXCEPT !.left = MapInsert(@, k, v)] = [left |-> MapInsert(L, k, v), right |-> R]
      BY <1>3
    <3>2. Result(MapInsert(L, k, v), R)
      BY <1>4, <2>1, <2>2, <3>1, Zenon DEF Add
    <3> HIDE DEF then
    <3>3. Goal
      BY <1>1, <1>2, <1>5, <1>7, <2>2, <3>2 DEF Absent
    <3> QED BY <3>3
  <2>3. CASE ~GoesLeft(k, v)
    <3>1. [m EXCEPT !.right = MapInsert(@, k, v)] = [left |-> L, right |-> MapInsert(R, k, v)]
      BY <1>3
    <3>2. Result(L, MapInsert(R, k, v))
      BY <1>4, <2>1, <2>3, <3>1, Zenon DEF Add
    <3> HIDE DEF then
    <3>3. Goal
      BY <1>1, <1>2, <1>5, <1>7, <2>3, <3>2 DEF Absent
    <3> QED BY <3>3
  <2> QED BY <2>2, <2>3
<1>8. ASSUME v # None /\ e.old # None PROVE Goal
  <2>1. then = Update(m, k, v)
    BY <1>1, <1>8, Zenon DEF FoldStep
  <2>2. CASE GoesLeft(k, v)
    <3>1. then = [left |-> MapInsert(L, k, v), right |-> MapRemove(R, k)]
      BY <1>3, <2>1, <2>2, Zenon DEF Update
    <3>2. Result(MapInsert(L, k, v), MapRemove(R, k))
      BY <1>4, <3>1
    <3> HIDE DEF then
    <3> QED BY <1>1, <1>2, <1>5, <1>8, <2>2, <3>2
  <2>3. CASE ~GoesLeft(k, v)
    <3>1. then = [left |-> MapRemove(L, k), right |-> MapInsert(R, k, v)]
      BY <1>3, <2>1, <2>3, Zenon DEF Update
    <3>2. Result(MapRemove(L, k), MapInsert(R, k, v))
      BY <1>4, <3>1
    <3> HIDE DEF then
    <3> QED BY <1>1, <1>2, <1>5, <1>8, <2>3, <3>2
  <2> QED BY <2>2, <2>3
<1>9. Goal
  <2> HIDE DEF Goal
  <2> QED BY <1>6, <1>7, <1>8
<1> QED BY <1>1, <1>9 DEF PartsStep, Parts, StepsTo, e, L, R

\* What the accumulator may be.
MaybeValue == Value \union {None}
FoldStates ==
  IF op = "partition" THEN [left : MapsTo(MaybeValue), right : MapsTo(MaybeValue)]
  ELSE MapsTo(MaybeValue)

LEMMA FoldOfIsState == \A map \in Maps : FoldOf(map) \in FoldStates
<1> SUFFICES ASSUME NEW map \in Maps PROVE FoldOf(map) \in FoldStates
  OBVIOUS
<1>1. \A g \in [Key -> MaybeValue] : MapOf(g) \in MapsTo(MaybeValue)
  BY DEF MapsTo
<1>2. MapOf(Got(map)) \in MapsTo(MaybeValue) /\ MapOf(GotLeft(map)) \in MapsTo(MaybeValue)
      /\ MapOf(GotRight(map)) \in MapsTo(MaybeValue)
  BY <1>1, GotTypes DEF MaybeValue
<1>3. map = MapOf(Got(map))
  BY MapIsMapOf DEF Got
<1> QED BY <1>2, <1>3 DEF FoldOf, FoldStates, Parted

LEMMA FoldStepType ==
  ASSUME op \in Folds, NEW m \in FoldStates, NEW self \in Maps, NEW other \in Maps, NEW k \in Key
  PROVE  FoldStep(m, DiffElement(self, other, k)) \in FoldStates
<1> DEFINE then == FoldStep(m, DiffElement(self, other, k))
<1>1. CASE op # "partition"
  <2>1. m \in MapsTo(MaybeValue) /\ MapGet(other, k) \in MaybeValue
    BY <1>1, GotFacts DEF FoldStates, MaybeValue
  <2>2. InsertIfSome(m, k, MapGet(other, k)) \in MapsTo(MaybeValue)
    BY <2>1, PatchClosed
  <2> QED BY <1>1, <2>2, FoldStepMap DEF FoldStates
<1>2. CASE op = "partition"
  <2>1. Parts(m) /\ m.left \in MapsTo(MaybeValue) /\ m.right \in MapsTo(MaybeValue)
    BY <1>2 DEF FoldStates, Parts
  <2>2. PartsStep(then, m, self, other, k)
    BY <1>2, <2>1, FoldStepParts
  <2>3. GotLeft(other)[k] \in MaybeValue /\ GotRight(other)[k] \in MaybeValue
    BY GotTypes DEF MaybeValue
  <2>4. /\ InsertIfSome(m.left, k, GotLeft(other)[k]) \in MapsTo(MaybeValue)
        /\ InsertIfSome(m.right, k, GotRight(other)[k]) \in MapsTo(MaybeValue)
    BY <2>1, <2>3, PatchClosed
  <2> HIDE DEF then
  <2>5. then = [left |-> then.left, right |-> then.right]
        /\ then.left \in MapsTo(MaybeValue) /\ then.right \in MapsTo(MaybeValue)
    BY <2>1, <2>2, <2>4, Zenon DEF PartsStep, StepsTo, Parts
  <2> QED BY <1>2, <2>5 DEF FoldStates, then
<1> QED BY <1>1, <1>2

\* A loop of such steps over the keys that differ makes the one result from the other.
LEMMA FoldRuns ==
  ASSUME op \in Folds, NEW self \in Maps, NEW other \in Maps,
         NEW n \in Nat, NEW s \in [1 .. n -> Key], Once(s, n),
         \A k \in Key : (\A i \in 1 .. n : s[i] # k) => MapGet(self, k) = MapGet(other, k),
         NEW f \in [0 .. n -> FoldStates], f[0] = FoldOf(self),
         \A i \in 1 .. n : f[i] = FoldStep(f[i - 1], DiffElement(self, other, s[i]))
  PROVE  f[n] = FoldOf(other)
<1> USE DEF SameElsewhere
<1>0. n \in 0 .. n /\ 0 \in 0 .. n /\ \A i \in 1 .. n : i \in 0 .. n /\ i - 1 \in 0 .. n
  OBVIOUS
<1>1. CASE op # "partition"
  <2>1. f[0] = MapOf(Got(self))
    BY <1>1, MapIsMapOf DEF FoldOf, Got
  <2>2. Patches(f, n, s, Got(other))
    <3> SUFFICES ASSUME NEW i \in 1 .. n PROVE f[i] = InsertIfSome(f[i - 1], s[i], Got(other)[s[i]])
      BY DEF Patches
    <3>1. s[i] \in Key
      OBVIOUS
    <3>2. f[i] = InsertIfSome(f[i - 1], s[i], MapGet(other, s[i]))
      BY <1>1, FoldStepMap
    <3> QED BY <3>1, <3>2, GotFacts
  <2>3. SameElsewhere(n, s, Got(self), Got(other))
    BY GotFacts
  <2>4. PatchesEach(f, n, s, Got(self), Got(other))
    BY <2>2, PatchSimply
  <2>5. f[n] = MapOf(Got(other))
    BY <2>1, <2>3, <2>4, PatchAll
  <2> QED BY <1>1, <2>5, MapIsMapOf DEF FoldOf, Got
<1>2. CASE op = "partition"
  <2> DEFINE l == [i \in 0 .. n |-> f[i].left]
             r == [i \in 0 .. n |-> f[i].right]
  <2>1. \A i \in 0 .. n : Parts(f[i]) /\ l[i] = f[i].left /\ r[i] = f[i].right
    BY <1>2 DEF FoldStates, Parts
  <2>2. l[0] = MapOf(GotLeft(self)) /\ r[0] = MapOf(GotRight(self))
    BY <1>0, <1>2 DEF FoldOf, Parted
  <2> HIDE DEF l, r
  <2>3. \A i \in 1 .. n :
          /\ s[i] \in Key
          /\ StepsTo(l[i], l[i - 1], s[i], GotLeft(other)[s[i]], MapGet(self, s[i]) = None)
          /\ StepsTo(r[i], r[i - 1], s[i], GotRight(other)[s[i]], MapGet(self, s[i]) = None)
    <3> SUFFICES ASSUME NEW i \in 1 .. n
                 PROVE /\ StepsTo(l[i], l[i - 1], s[i], GotLeft(other)[s[i]], MapGet(self, s[i]) = None)
                       /\ StepsTo(r[i], r[i - 1], s[i], GotRight(other)[s[i]], MapGet(self, s[i]) = None)
      OBVIOUS
    <3>1. s[i] \in Key /\ Parts(f[i - 1]) /\ f[i] = FoldStep(f[i - 1], DiffElement(self, other, s[i]))
      BY <1>0, <2>1
    <3>2. PartsStep(f[i], f[i - 1], self, other, s[i])
      BY <1>2, <3>1, FoldStepParts
    <3> QED BY <1>0, <2>1, <3>2, Zenon DEF PartsStep
  <2>4. PatchesEach(l, n, s, GotLeft(self), GotLeft(other))
    <3> SUFFICES ASSUME NEW i \in 1 .. n, NEW g, l[i - 1] = MapOf(g), g = [x \in Key |-> g[x]],
                        g[s[i]] = GotLeft(self)[s[i]]
                 PROVE  l[i] = MapOf([g EXCEPT ![s[i]] = GotLeft(other)[s[i]]])
      BY DEF PatchesEach
    <3>1. s[i] \in Key
      OBVIOUS
    <3>2. MapGet(self, s[i]) = None => g[s[i]] = None
      BY <3>1, GotFacts
    <3>3. MapGet(self, s[i]) = None => Absent(l[i - 1], s[i])
      BY <3>1, <3>2, AbsentIs
    <3>4. l[i] = InsertIfSome(MapOf(g), s[i], GotLeft(other)[s[i]])
      BY <2>3, <3>3, Zenon DEF StepsTo
    <3> QED BY <3>1, <3>4, PatchOne
  <2>5. PatchesEach(r, n, s, GotRight(self), GotRight(other))
    <3> SUFFICES ASSUME NEW i \in 1 .. n, NEW g, r[i - 1] = MapOf(g), g = [x \in Key |-> g[x]],
                        g[s[i]] = GotRight(self)[s[i]]
                 PROVE  r[i] = MapOf([g EXCEPT ![s[i]] = GotRight(other)[s[i]]])
      BY DEF PatchesEach
    <3>1. s[i] \in Key
      OBVIOUS
    <3>2. MapGet(self, s[i]) = None => g[s[i]] = None
      BY <3>1, GotFacts
    <3>3. MapGet(self, s[i]) = None => Absent(r[i - 1], s[i])
      BY <3>1, <3>2, AbsentIs
    <3>4. r[i] = InsertIfSome(MapOf(g), s[i], GotRight(other)[s[i]])
      BY <2>3, <3>3, Zenon DEF StepsTo
    <3> QED BY <3>1, <3>4, PatchOne
  <2>6. SameElsewhere(n, s, GotLeft(self), GotLeft(other)) /\ SameElsewhere(n, s, GotRight(self), GotRight(other))
    BY GotFacts
  <2>7. l[n] = MapOf(GotLeft(other))
    BY <2>2, <2>4, <2>6, PatchAll
  <2>8. r[n] = MapOf(GotRight(other))
    BY <2>2, <2>5, <2>6, PatchAll
  <2>9. f[n] = [left |-> l[n], right |-> r[n]]
    BY <1>0, <2>1, Zenon DEF Parts
  <2> QED BY <1>2, <2>7, <2>8, <2>9, Zenon DEF FoldOf, Parted
<1> QED BY <1>1, <1>2

LEMMA FoldPatched ==
  ASSUME op \in Folds, NEW self \in Maps, NEW other \in Maps
  PROVE  FoldLeft(FoldStep, FoldOf(self), SymmetricDiff(self, other)) = FoldOf(other)
<1> DEFINE diff == SymmetricDiff(self, other)
           E == Elements(self, other)
           base == FoldOf(self)
<1>1. PICK n, s : Lists(diff, n, s, self, other)
  BY DiffItems
<1>2. FoldClosed(FoldStates, E)
  <2> SUFFICES ASSUME NEW m \in FoldStates, NEW k \in Key PROVE FoldStep(m, DiffElement(self, other, k)) \in FoldStates
    BY DEF FoldClosed, Elements
  <2> QED BY FoldStepType
<1>3. base \in FoldStates
  BY FoldOfIsState
<1>4. /\ diff \in Seq(E) /\ Len(diff) = n /\ n \in Nat /\ s \in [1 .. n -> Key]
      /\ \A i \in 1 .. n : diff[i] = DiffElement(self, other, s[i])
  BY <1>1 DEF Lists
<1>5. Once(s, n)
  BY <1>1, ListsOnce
<1>6. \A k \in Key : (\A i \in 1 .. n : s[i] # k) => MapGet(self, k) = MapGet(other, k)
  BY <1>1, DiffItems DEF Lists
<1> HIDE DEF diff, E, base
<1>7. PICK f \in [0 .. n -> FoldStates] :
        /\ f[0] = base /\ f[n] = FoldFold(base, diff)
        /\ \A i \in 1 .. n : f[i] = FoldStep(f[i - 1], diff[i])
  <2>1. \E f \in [0 .. Len(diff) -> FoldStates] :
          /\ f[0] = base /\ f[Len(diff)] = FoldFold(base, diff)
          /\ \A i \in 1 .. Len(diff) : f[i] = FoldStep(f[i - 1], diff[i])
    BY <1>2, <1>3, <1>4, FoldLoop
  <2> QED BY <1>4, <2>1, Zenon
<1>8. \A i \in 1 .. n : f[i] = FoldStep(f[i - 1], DiffElement(self, other, s[i]))
  BY <1>4, <1>7, Zenon
<1>9. f[n] = FoldOf(other)
  BY <1>4, <1>5, <1>6, <1>7, <1>8, FoldRuns DEF base
<1> QED BY <1>7, <1>9, Zenon DEF FoldFold, diff, base

\* The first run adds the keys to nothing.
LEMMA AddIsStep ==
  ASSUME NEW m, NEW map \in Maps, NEW k \in DOMAIN map
  PROVE  Add(m, k, map[k]) = FoldStep(m, DiffElement(EmptyMap, map, k))
<1> DEFINE e == DiffElement(EmptyMap, map, k)
<1>1. e.key = k /\ e.old = None /\ e.new = map[k] /\ map[k] # None
  BY MapFacts DEF DiffElement, MapGet, EmptyMap
<1> HIDE DEF e
<1> QED BY <1>1, Zenon DEF FoldStep, e

LEMMA InitialFolded ==
  ASSUME op \in Folds, NEW map \in Maps
  PROVE  InitialFold(map) = FoldOf(map)
<1> DEFINE K == DOMAIN map
           s == Keys(map)
           base == FoldOf(EmptyMap)
<1>1. K \in SUBSET Key /\ EmptyMap \in Maps
  BY MapFacts, NothingFolded
<1>2. PICK n \in Nat : /\ s \in [1 .. n -> K] /\ Increasing(s)
                       /\ \A k \in K : \E i \in 1 .. n : s[i] = k
  BY <1>1, KeysAreFinite, SortedEnumerates DEF Enumerates, Keys
<1>3. AddClosed(map, FoldStates, K)
  <2> SUFFICES ASSUME NEW m \in FoldStates, NEW k \in K PROVE Add(m, k, map[k]) \in FoldStates
    BY DEF AddClosed
  <2>1. Add(m, k, map[k]) = FoldStep(m, DiffElement(EmptyMap, map, k))
    BY AddIsStep
  <2>2. k \in Key
    BY <1>1
  <2> QED BY <1>1, <2>1, <2>2, FoldStepType
<1>4. base \in FoldStates /\ base = FoldInit
  BY <1>1, FoldOfIsState, NothingFolded
<1> HIDE DEF K, s, base
<1>5. s \in Seq(K) /\ Len(s) = n
  BY <1>2
<1>6. PICK f \in [0 .. n -> FoldStates] :
        /\ f[0] = base /\ f[n] = AddFold(map, base, s)
        /\ \A i \in 1 .. n : f[i] = Add(f[i - 1], s[i], map[s[i]])
  <2>1. \E f \in [0 .. Len(s) -> FoldStates] :
          /\ f[0] = base /\ f[Len(s)] = AddFold(map, base, s)
          /\ \A i \in 1 .. Len(s) : f[i] = Add(f[i - 1], s[i], map[s[i]])
    BY <1>3, <1>4, <1>5, AddLoop
  <2> QED BY <1>5, <2>1, Zenon
<1>7. \A i \in 1 .. n : f[i] = FoldStep(f[i - 1], DiffElement(EmptyMap, map, s[i]))
  <2> SUFFICES ASSUME NEW i \in 1 .. n PROVE f[i] = FoldStep(f[i - 1], DiffElement(EmptyMap, map, s[i]))
    OBVIOUS
  <2>1. s[i] \in DOMAIN map
    BY <1>2 DEF K
  <2> QED BY <1>6, <2>1, AddIsStep
<1>8. \A k \in Key : (\A i \in 1 .. n : s[i] # k) => MapGet(EmptyMap, k) = MapGet(map, k)
  <2>1. \A k \in Key : (\A i \in 1 .. n : s[i] # k) => k \notin DOMAIN map
    BY <1>2 DEF K
  <2>2. \A k \in Key : MapGet(EmptyMap, k) = None
    BY DEF MapGet, EmptyMap
  <2> QED BY <2>1, <2>2, MapFacts
<1>9. Once(s, n) /\ s \in [1 .. n -> Key]
  <2>1. s \in [1 .. n -> Key] /\ \A i \in 1 .. n : s[i] \in Nat
    BY <1>1, <1>2, KeyAssumption
  <2> QED BY <1>2, <2>1 DEF Once, Increasing
<1>10. f[n] = FoldOf(map)
  BY <1>1, <1>6, <1>7, <1>8, <1>9, FoldRuns DEF base
<1> QED BY <1>4, <1>6, <1>10, Zenon DEF InitialFold, AddFold, s

-----------------------------------------------------------------------------
(***************************************************************************)
(* incr_merge.                                                             *)
(***************************************************************************)
Combined(l, r) ==
  [k \in Key |-> IF MapGet(l, k) = None /\ MapGet(r, k) = None THEN None
                 ELSE Combine(k, MapGet(l, k), MapGet(r, k))]

LEMMA CombinedMap ==
  ASSUME NEW l \in Maps, NEW r \in Maps
  PROVE  MapOf(Combined(l, r)) =
           LET both(k) == Combine(k, MapGet(l, k), MapGet(r, k))
           IN  [k \in {x \in DOMAIN l \union DOMAIN r : both(x) # None} |-> both(k)]
<1> DEFINE both(k) == Combine(k, MapGet(l, k), MapGet(r, k))
           D == {x \in Key : Combined(l, r)[x] # None}
<1>1. DOMAIN l \in SUBSET Key /\ DOMAIN r \in SUBSET Key
  BY MapFacts
<1>2. \A k \in Key : k \in DOMAIN l \union DOMAIN r <=> ~(MapGet(l, k) = None /\ MapGet(r, k) = None)
  BY MapFacts
<1>3. \A k \in Key : Combined(l, r)[k] = IF k \in DOMAIN l \union DOMAIN r THEN both(k) ELSE None
  BY <1>2 DEF Combined
<1>4. {x \in DOMAIN l \union DOMAIN r : both(x) # None} = D
  BY <1>1, <1>3
<1>5. \A k \in D : Combined(l, r)[k] = both(k)
  BY <1>3
<1> HIDE DEF D, both
<1>6. [k \in D |-> Combined(l, r)[k]] = [k \in D |-> both(k)]
  BY <1>5
<1> QED BY <1>4, <1>6, Zenon DEF MapOf, both, D

Merged(oldLeft, oldRight) == MergeOnceWith(SymmetricDiff(oldLeft, left), SymmetricDiff(oldRight, right))
ChangedIn(oldLeft, oldRight) == ChangedKeys(oldLeft, left) \union ChangedKeys(oldRight, right)
PairOf(oldLeft, oldRight, k) ==
  [key |-> k,
   left |-> IF k \in ChangedKeys(oldLeft, left) THEN <<DiffElement(oldLeft, left, k)>> ELSE <<>>,
   right |-> IF k \in ChangedKeys(oldRight, right) THEN <<DiffElement(oldRight, right, k)>> ELSE <<>>]

\* The elements of the merged differences, for the keys s.
MergeLists(elements, n, s, oldLeft, oldRight) ==
  /\ n \in Nat /\ s \in [1 .. n -> Key] /\ Once(s, n)
  /\ \A i \in 1 .. n : s[i] \in ChangedIn(oldLeft, oldRight)
  /\ \A k \in ChangedIn(oldLeft, oldRight) : \E i \in 1 .. n : s[i] = k
  /\ elements \in Seq({PairOf(oldLeft, oldRight, k) : k \in Key}) /\ Len(elements) = n
  /\ \A i \in 1 .. n : elements[i] = PairOf(oldLeft, oldRight, s[i])

LEMMA MergedItems ==
  ASSUME left \in Maps, right \in Maps, NEW oldLeft \in Maps, NEW oldRight \in Maps
  PROVE  /\ \E n, s : MergeLists(Merged(oldLeft, oldRight), n, s, oldLeft, oldRight)
         /\ KeysOf(Merged(oldLeft, oldRight)) = ChangedIn(oldLeft, oldRight)
         /\ Merged(oldLeft, oldRight) = <<>> => ChangedIn(oldLeft, oldRight) = {}
<1> DEFINE A == ChangedKeys(oldLeft, left)
           B == ChangedKeys(oldRight, right)
           K == A \union B
           e1 == [k \in Key |-> DiffElement(oldLeft, left, k)]
           e2 == [k \in Key |-> DiffElement(oldRight, right, k)]
           e == Pairs(A, B, e1, e2)
           E == {PairOf(oldLeft, oldRight, k) : k \in Key}
           elements == Merged(oldLeft, oldRight)
           n == Cardinality(K)
           s == Sorted(K)
<1>1. A \in SUBSET Key /\ B \in SUBSET Key /\ K \in SUBSET Key
  BY DiffItems
<1>2. HaveKeys(A, e1) /\ HaveKeys(B, e2)
  BY <1>1 DEF HaveKeys, DiffElement
<1>3. SymmetricDiff(oldLeft, left) = Listing(A, e1) /\ SymmetricDiff(oldRight, right) = Listing(B, e2)
  BY ReferencedDiff DEF Diff
<1>4. \A k \in K : e[k] = PairOf(oldLeft, oldRight, k) /\ e[k] \in E
  BY <1>1 DEF Pairs, PairOf
<1> HIDE DEF A, B, e1, e2, e, E
<1>5. elements = Listing(K, e)
  BY <1>1, <1>2, <1>3, ListingsMerged DEF Merged, e
<1>6. /\ n \in Nat /\ s \in [1 .. n -> K] /\ Increasing(s)
      /\ \A k \in K : \E i \in 1 .. n : s[i] = k
  BY <1>1, KeysAreFinite, SortedEnumerates DEF Enumerates
<1> HIDE DEF K, elements
<1>7. elements \in Seq(E) /\ Len(elements) = n /\ \A i \in 1 .. n : elements[i] = e[s[i]] /\ s[i] \in K
  BY <1>1, <1>4, <1>5, ListingType
<1> HIDE DEF n, s
<1>8. \A i \in 1 .. n : elements[i] = PairOf(oldLeft, oldRight, s[i])
  BY <1>4, <1>7, Zenon
<1>9. s \in [1 .. n -> Key] /\ Once(s, n)
  <2>1. s \in [1 .. n -> Key] /\ \A i \in 1 .. n : s[i] \in Nat
    BY <1>1, <1>6, KeyAssumption
  <2> QED BY <1>6, <2>1 DEF Once, Increasing
<1>10. K = ChangedIn(oldLeft, oldRight)
  BY DEF K, A, B, ChangedIn
<1>11. MergeLists(elements, n, s, oldLeft, oldRight)
  BY <1>6, <1>7, <1>8, <1>9, <1>10, Zenon DEF MergeLists, E
<1>12. KeysOf(elements) = K
  <2>1. DOMAIN elements = 1 .. n
    BY <1>6, <1>7
  <2>2. \A k : PairOf(oldLeft, oldRight, k).key = k
    BY DEF PairOf
  <2>3. \A i \in 1 .. n : elements[i].key = s[i]
    BY <1>8, <2>2, Zenon
  <2>4. KeysOf(elements) = {s[i] : i \in 1 .. n}
    BY <2>1, <2>3 DEF KeysOf
  <2> QED BY <1>6, <2>4
<1>13. elements = <<>> => K = {}
  BY <1>12 DEF KeysOf
<1>14. \E m, u : MergeLists(elements, m, u, oldLeft, oldRight)
  BY <1>11, Zenon
<1> QED BY <1>10, <1>12, <1>13, <1>14, Zenon DEF elements

LEMMA MergeStepIs ==
  ASSUME NEW m, NEW oldLeft, NEW oldRight, NEW k \in Key
  PROVE  MergeStep(m, PairOf(oldLeft, oldRight, k)) = InsertIfSome(m, k, Combined(left, right)[k])
<1> DEFINE e == PairOf(oldLeft, oldRight, k)
           l == IF e.left # <<>> THEN e.left[1].new ELSE MapGet(left, e.key)
           r == IF e.right # <<>> THEN e.right[1].new ELSE MapGet(right, e.key)
<1>1. /\ e.key = k
      /\ e.left = IF k \in ChangedKeys(oldLeft, left) THEN <<DiffElement(oldLeft, left, k)>> ELSE <<>>
      /\ e.right = IF k \in ChangedKeys(oldRight, right) THEN <<DiffElement(oldRight, right, k)>> ELSE <<>>
  BY DEF PairOf
<1>2. DiffElement(oldLeft, left, k).new = MapGet(left, k) /\ DiffElement(oldRight, right, k).new = MapGet(right, k)
  BY DEF DiffElement
<1> HIDE DEF e
<1>3. l = MapGet(left, k)
  <2>1. CASE k \in ChangedKeys(oldLeft, left)
    <3>1. e.left # <<>> /\ e.left[1] = DiffElement(oldLeft, left, k)
      BY <1>1, <2>1
    <3> QED BY <1>2, <3>1
  <2>2. CASE k \notin ChangedKeys(oldLeft, left)
    BY <1>1, <2>2
  <2> QED BY <2>1, <2>2
<1>4. r = MapGet(right, k)
  <2>1. CASE k \in ChangedKeys(oldRight, right)
    <3>1. e.right # <<>> /\ e.right[1] = DiffElement(oldRight, right, k)
      BY <1>1, <2>1
    <3> QED BY <1>2, <3>1
  <2>2. CASE k \notin ChangedKeys(oldRight, right)
    BY <1>1, <2>2
  <2> QED BY <2>1, <2>2
<1>5. MergeStep(m, e) =
        InsertIfSome(m, e.key, IF l = None /\ r = None THEN None ELSE Combine(e.key, l, r))
  BY Zenon DEF MergeStep
<1>6. Combined(left, right)[k] = IF MapGet(left, k) = None /\ MapGet(right, k) = None THEN None
                                 ELSE Combine(k, MapGet(left, k), MapGet(right, k))
  BY DEF Combined
<1> HIDE DEF l, r
<1> QED BY <1>1, <1>3, <1>4, <1>5, <1>6, Zenon DEF e

LEMMA MergePatched ==
  ASSUME left \in Maps, right \in Maps, NEW oldLeft \in Maps, NEW oldRight \in Maps
  PROVE  FoldLeft(MergeStep, MapOf(Combined(oldLeft, oldRight)), Merged(oldLeft, oldRight)) =
           MapOf(Combined(left, right))
<1> DEFINE elements == Merged(oldLeft, oldRight)
           E == {PairOf(oldLeft, oldRight, k) : k \in Key}
           V == {Combine(k, l, r) : k \in Key, l \in MaybeValue, r \in MaybeValue} \union {None}
           g0 == Combined(oldLeft, oldRight)
           g1 == Combined(left, right)
           S == MapsTo(V)
           base == MapOf(g0)
<1>1. PICK n, s : MergeLists(elements, n, s, oldLeft, oldRight)
  BY MergedItems
<1>2. \A l, r \in Maps : Combined(l, r) \in [Key -> V]
  BY GotFacts DEF Combined, MaybeValue
<1>3. MergeClosed(S, E)
  <2> SUFFICES ASSUME NEW m \in S, NEW k \in Key PROVE MergeStep(m, PairOf(oldLeft, oldRight, k)) \in S
    BY DEF MergeClosed
  <2>1. g1[k] \in V
    BY <1>2
  <2> HIDE DEF V, g1
  <2>2. InsertIfSome(m, k, g1[k]) \in S
    BY <2>1, PatchClosed
  <2> QED BY <2>2, MergeStepIs DEF g1
<1>4. base \in S
  BY <1>2 DEF MapsTo
<1>5. /\ elements \in Seq(E) /\ Len(elements) = n /\ n \in Nat /\ s \in [1 .. n -> Key] /\ Once(s, n)
      /\ \A i \in 1 .. n : elements[i] = PairOf(oldLeft, oldRight, s[i])
  BY <1>1 DEF MergeLists
<1>6. SameElsewhere(n, s, g0, g1)
  <2> SUFFICES ASSUME NEW k \in Key, \A i \in 1 .. n : s[i] # k PROVE g0[k] = g1[k]
    BY DEF SameElsewhere
  <2>1. k \notin ChangedKeys(oldLeft, left) /\ k \notin ChangedKeys(oldRight, right)
    BY <1>1 DEF MergeLists, ChangedIn
  <2>2. MapGet(oldLeft, k) = MapGet(left, k) /\ MapGet(oldRight, k) = MapGet(right, k)
    BY <2>1, DiffItems
  <2> QED BY <2>2 DEF Combined
<1> HIDE DEF elements, E, V, S, g0, g1, base
<1>7. PICK f \in [0 .. n -> S] :
        /\ f[0] = base /\ f[n] = MergeFold(base, elements)
        /\ \A i \in 1 .. n : f[i] = MergeStep(f[i - 1], elements[i])
  <2>1. \E f \in [0 .. Len(elements) -> S] :
          /\ f[0] = base /\ f[Len(elements)] = MergeFold(base, elements)
          /\ \A i \in 1 .. Len(elements) : f[i] = MergeStep(f[i - 1], elements[i])
    BY <1>3, <1>4, <1>5, MergeLoop
  <2> QED BY <1>5, <2>1, Zenon
<1>8. Patches(f, n, s, g1)
  <2> SUFFICES ASSUME NEW i \in 1 .. n PROVE f[i] = InsertIfSome(f[i - 1], s[i], g1[s[i]])
    BY DEF Patches
  <2>1. s[i] \in Key /\ f[i] = MergeStep(f[i - 1], PairOf(oldLeft, oldRight, s[i]))
    BY <1>5, <1>7
  <2> QED BY <2>1, MergeStepIs DEF g1
<1>9. PatchesEach(f, n, s, g0, g1)
  BY <1>5, <1>8, PatchSimply
<1>10. f[n] = MapOf(g1)
  BY <1>5, <1>6, <1>7, <1>9, PatchAll DEF base
<1> QED BY <1>7, <1>10, Zenon DEF MergeFold, elements, base, g0, g1

-----------------------------------------------------------------------------
(***************************************************************************)
(* The nodes of these operators.  What a node remembers is its value for   *)
(* the inputs that it remembers, and what its parents have read.           *)
(***************************************************************************)
OutputOf(o, l, r) ==
  IF o = "filter_mapi" THEN FilterMapCollect(l)
  ELSE IF o \in {"fold", "fold_revert"} THEN l
  ELSE IF o = "partition"
  THEN [left |-> RestrictDomain(l, LAMBDA k : GoesLeft(k, l[k])),
        right |-> RestrictDomain(l, LAMBDA k : ~GoesLeft(k, l[k]))]
  ELSE LET both(k) == Combine(k, MapGet(l, k), MapGet(r, k))
       IN  [k \in {x \in DOMAIN l \union DOMAIN r : both(x) # None} |-> both(k)]

MapTypes ==
  /\ op \in Operators \union {"mapi"}
  /\ left \in Maps /\ right \in Maps
  /\ stale \in BOOLEAN /\ visited \subseteq Key

Remembered ==
  memory # None => /\ memory.left \in Maps /\ memory.right \in Maps
                   /\ memory.output = OutputOf(op, memory.left, memory.right)
                   /\ seen = memory.output

UpToDate ==
  op # "mapi" /\ ~stale => memory.output = OutputOf(op, left, right) /\ seen = OutputOf(op, left, right)

MapInv == MapTypes /\ Remembered /\ UpToDate

LEMMA ReferenceIs == Reference = OutputOf(op, left, right)
BY Zenon DEF Reference, OutputOf

LEMMA OutputIs ==
  ASSUME NEW l \in Maps, NEW r \in Maps
  PROVE  /\ op = "filter_mapi" => OutputOf(op, l, r) = FilterMapCollect(l)
         /\ op \in Folds => OutputOf(op, l, r) = FoldOf(l)
         /\ op = "merge" => OutputOf(op, l, r) = MapOf(Combined(l, r))
<1>1. op = "filter_mapi" => OutputOf(op, l, r) = FilterMapCollect(l)
  BY Zenon DEF OutputOf
<1>2. ASSUME op \in Folds PROVE OutputOf(op, l, r) = FoldOf(l)
  <2>1. CASE op = "partition"
    <3>1. OutputOf(op, l, r) = [left |-> RestrictDomain(l, LAMBDA k : GoesLeft(k, l[k])),
                                right |-> RestrictDomain(l, LAMBDA k : ~GoesLeft(k, l[k]))]
      <4>1. op # "filter_mapi" /\ op \notin {"fold", "fold_revert"}
        BY <2>1
      <4> QED BY <2>1, <4>1, Zenon DEF OutputOf
    <3> QED BY <2>1, <3>1, PartedMaps, Zenon DEF FoldOf
  <2>2. CASE op # "partition"
    <3>1. op # "filter_mapi" /\ op \in {"fold", "fold_revert"}
      BY <1>2, <2>2 DEF Folds
    <3> QED BY <2>2, <3>1, Zenon DEF OutputOf, FoldOf
  <2> QED BY <2>1, <2>2
<1>3. ASSUME op = "merge" PROVE OutputOf(op, l, r) = MapOf(Combined(l, r))
  <2>1. op # "filter_mapi" /\ op \notin {"fold", "fold_revert"} /\ op # "partition"
    BY <1>3
  <2> QED BY <2>1, CombinedMap, Zenon DEF OutputOf
<1> QED BY <1>1, <1>2, <1>3

LEMMA NoChangeIsSame ==
  ASSUME NEW self \in Maps, NEW other \in Maps, ChangedKeys(self, other) = {}
  PROVE  self = other
<1>1. \A k \in Key : Got(self)[k] = Got(other)[k]
  BY DiffItems, GotFacts
<1>2. MapOf(Got(self)) = MapOf(Got(other))
  BY <1>1, MapOfSame
<1> QED BY <1>2, MapIsMapOf DEF Got

LEMMA NothingMerged == MapOf(Combined(EmptyMap, EmptyMap)) = EmptyMap
<1>1. \A k \in Key : Combined(EmptyMap, EmptyMap)[k] = None
  BY DEF Combined, MapGet, EmptyMap
<1>2. {x \in Key : Combined(EmptyMap, EmptyMap)[x] # None} = {}
  BY <1>1
<1>3. MapOf(Combined(EmptyMap, EmptyMap)) = [k \in {} |-> Combined(EmptyMap, EmptyMap)[k]]
  BY <1>2, Zenon DEF MapOf
<1> QED BY <1>3 DEF EmptyMap

\* The end of every run.
LEMMA ReturnKeeps ==
  ASSUME MapInv, op # "mapi", NEW output, NEW didChange, NEW keys \in SUBSET Key,
         Return(output, didChange, keys), output = OutputOf(op, left, right),
         memory # None => didChange \/ output = memory.output
  PROVE  MapInv'
<1>1. /\ memory' = [left |-> left, right |-> right, output |-> output]
      /\ visited' = keys /\ stale' = FALSE /\ op' = op /\ left' = left /\ right' = right
      /\ seen' = IF didChange \/ memory = None THEN output ELSE seen
  BY DEF Return
<1>2. seen' = output
  BY <1>1 DEF MapInv, Remembered
<1>3. memory'.left = left /\ memory'.right = right /\ memory'.output = output
  BY <1>1
<1>4. MapTypes'
  BY <1>1 DEF MapInv, MapTypes
<1>5. Remembered'
  BY <1>1, <1>2, <1>3, Zenon DEF MapInv, MapTypes, Remembered
<1>6. UpToDate'
  BY <1>1, <1>2, <1>3, Zenon DEF UpToDate
<1> QED BY <1>4, <1>5, <1>6 DEF MapInv

\* What each run returns, and for which keys it calls the closure.
Allowed(keys) ==
  /\ keys \in SUBSET Key
  /\ memory # None => keys \subseteq ChangedKeys(memory.left, left) \union ChangedKeys(memory.right, right)

Returns ==
  \E output, didChange, keys :
    /\ Return(output, didChange, keys) /\ output = OutputOf(op, left, right)
    /\ memory # None => didChange \/ output = memory.output
    /\ Allowed(keys)

LEMMA FilterMapiReturns == ASSUME MapInv, RunFilterMapi PROVE Returns
<1>1. op = "filter_mapi" /\ left \in Maps /\ right \in Maps /\ DOMAIN left \in SUBSET Key
  BY MapFacts DEF RunFilterMapi, MapInv, MapTypes
<1>2. OutputOf(op, left, right) = FilterMapCollect(left)
  BY <1>1, OutputIs
<1>3. CASE left = EmptyMap \/ memory = None
  <2>1. Return(FilterMapCollect(left), TRUE, DOMAIN left)
    BY <1>3, Zenon DEF RunFilterMapi
  <2>2. left = EmptyMap => DOMAIN left = {}
    BY DEF EmptyMap
  <2>3. Allowed(DOMAIN left)
    BY <1>1, <1>3, <2>2 DEF Allowed
  <2> QED BY <1>2, <2>1, <2>3, Zenon DEF Returns
<1>4. CASE ~(left = EmptyMap \/ memory = None)
  <2> DEFINE diff == SymmetricDiff(memory.left, left)
             output == FoldLeft(FilterMapStep, memory.output, diff)
             keys == {k \in KeysOf(diff) : k \in DOMAIN left}
  <2>1. Return(output, diff # <<>>, keys)
    BY <1>4, Zenon DEF RunFilterMapi
  <2>2. /\ memory.left \in Maps /\ memory.right \in Maps
        /\ memory.output = OutputOf(op, memory.left, memory.right)
    BY <1>4 DEF MapInv, Remembered
  <2>3. memory.output = FilterMapCollect(memory.left)
    BY <1>1, <2>2, OutputIs
  <2>4. output = FilterMapCollect(left)
    BY <1>1, <2>2, <2>3, FilterMapPatched
  <2>5. diff = <<>> => memory.left = left
    BY <1>1, <2>2, DiffItems, NoChangeIsSame
  <2>6. KeysOf(diff) = ChangedKeys(memory.left, left)
    BY <1>1, <2>2, DiffItems
  <2>7. Allowed(keys)
    BY <1>1, <2>6 DEF Allowed
  <2>8. diff # <<>> \/ output = memory.output
    BY <2>3, <2>4, <2>5, Zenon
  <2> HIDE DEF diff, output, keys
  <2> QED BY <1>2, <2>1, <2>4, <2>7, <2>8, Zenon DEF Returns
<1> QED BY <1>3, <1>4

LEMMA FoldReturns == ASSUME MapInv, RunFold PROVE Returns
<1>1. op \in Folds /\ left \in Maps /\ right \in Maps /\ DOMAIN left \in SUBSET Key
  BY MapFacts DEF RunFold, MapInv, MapTypes
<1>2. OutputOf(op, left, right) = FoldOf(left)
  BY <1>1, OutputIs
<1>3. CASE memory = None
  <2>1. Return(InitialFold(left), TRUE, DOMAIN left)
    BY <1>3, Zenon DEF RunFold
  <2>2. InitialFold(left) = FoldOf(left)
    BY <1>1, InitialFolded
  <2>3. Allowed(DOMAIN left)
    BY <1>1, <1>3 DEF Allowed
  <2> QED BY <1>2, <2>1, <2>2, <2>3, Zenon DEF Returns
<1>4. ASSUME memory # None
      PROVE  /\ memory.left \in Maps /\ memory.right \in Maps
             /\ memory.output = FoldOf(memory.left)
  <2>1. /\ memory.left \in Maps /\ memory.right \in Maps
        /\ memory.output = OutputOf(op, memory.left, memory.right)
    BY <1>4 DEF MapInv, Remembered
  <2> QED BY <1>1, <2>1, OutputIs
<1>5. CASE memory # None /\ RevertToInitWhenEmpty /\ left = EmptyMap
  <2>1. Return(FoldInit, memory.left # EmptyMap, {})
    BY <1>5, Zenon DEF RunFold
  <2>2. FoldInit = FoldOf(left)
    BY <1>5, NothingFolded
  <2>3. Allowed({})
    BY DEF Allowed
  <2>4. memory.left # EmptyMap \/ FoldInit = memory.output
    BY <1>4, <1>5, <2>2, Zenon
  <2> QED BY <1>2, <2>1, <2>2, <2>3, <2>4, Zenon DEF Returns
<1>6. CASE memory # None /\ ~(RevertToInitWhenEmpty /\ left = EmptyMap)
  <2> DEFINE diff == SymmetricDiff(memory.left, left)
             output == FoldLeft(FoldStep, memory.output, diff)
             keys == KeysOf(diff)
  <2>1. Return(output, diff # <<>>, keys)
    BY <1>6, Zenon DEF RunFold
  <2>2. output = FoldOf(left)
    BY <1>1, <1>4, <1>6, FoldPatched
  <2>3. diff = <<>> => memory.left = left
    BY <1>1, <1>4, <1>6, DiffItems, NoChangeIsSame
  <2>4. keys = ChangedKeys(memory.left, left) /\ keys \in SUBSET Key
    BY <1>1, <1>4, <1>6, DiffItems
  <2>5. Allowed(keys)
    BY <2>4 DEF Allowed
  <2>6. diff # <<>> \/ output = memory.output
    BY <1>4, <1>6, <2>2, <2>3, Zenon
  <2> HIDE DEF diff, output, keys
  <2> QED BY <1>2, <2>1, <2>2, <2>5, <2>6, Zenon DEF Returns
<1> QED BY <1>3, <1>5, <1>6

LEMMA MergeReturns == ASSUME MapInv, RunMerge PROVE Returns
<1> DEFINE old == IF memory = None
                  THEN [left |-> EmptyMap, right |-> EmptyMap, output |-> EmptyMap]
                  ELSE memory
           oldLeft == old.left
           oldRight == old.right
           oldOutput == old.output
           elements == MergeOnceWith(SymmetricDiff(oldLeft, left), SymmetricDiff(oldRight, right))
           output == FoldLeft(MergeStep, oldOutput, elements)
           keys == {k \in KeysOf(elements) : k \in DOMAIN left \union DOMAIN right}
<1>1. op = "merge" /\ left \in Maps /\ right \in Maps /\ DOMAIN left \in SUBSET Key /\ DOMAIN right \in SUBSET Key
  BY MapFacts DEF RunMerge, MapInv, MapTypes
<1>2. OutputOf(op, left, right) = MapOf(Combined(left, right))
  BY <1>1, OutputIs
<1>3. Return(output, elements # <<>>, keys)
  BY Zenon DEF RunMerge
<1>4. /\ oldLeft \in Maps /\ oldRight \in Maps /\ oldOutput = MapOf(Combined(oldLeft, oldRight))
      /\ memory # None => oldLeft = memory.left /\ oldRight = memory.right /\ oldOutput = memory.output
  <2>1. CASE memory = None
    <3>1. oldLeft = EmptyMap /\ oldRight = EmptyMap /\ oldOutput = EmptyMap
      BY <2>1
    <3> QED BY <2>1, <3>1, NothingMerged, NothingFolded
  <2>2. CASE memory # None
    <3>1. oldLeft = memory.left /\ oldRight = memory.right /\ oldOutput = memory.output
      BY <2>2
    <3>2. /\ memory.left \in Maps /\ memory.right \in Maps
          /\ memory.output = OutputOf(op, memory.left, memory.right)
      BY <2>2 DEF MapInv, Remembered
    <3>3. memory.output = MapOf(Combined(memory.left, memory.right))
      BY <1>1, <3>2, OutputIs
    <3> QED BY <3>1, <3>2, <3>3, Zenon
  <2> QED BY <2>1, <2>2
<1> HIDE DEF old, oldLeft, oldRight, oldOutput
<1>5. elements = Merged(oldLeft, oldRight)
  BY DEF Merged
<1> HIDE DEF elements
<1>6. output = MapOf(Combined(left, right))
  BY <1>1, <1>4, <1>5, MergePatched
<1>7. /\ KeysOf(elements) = ChangedIn(oldLeft, oldRight)
      /\ elements = <<>> => ChangedIn(oldLeft, oldRight) = {}
  BY <1>1, <1>4, <1>5, MergedItems
<1>8. Allowed(keys)
  BY <1>1, <1>4, <1>7 DEF Allowed, ChangedIn
<1>9. ASSUME memory # None, elements = <<>> PROVE output = memory.output
  <2>1. ChangedKeys(oldLeft, left) = {} /\ ChangedKeys(oldRight, right) = {}
    BY <1>7, <1>9 DEF ChangedIn
  <2>2. oldLeft = left /\ oldRight = right
    BY <1>1, <1>4, <2>1, NoChangeIsSame
  <2> HIDE DEF output
  <2> QED BY <1>4, <1>6, <1>9, <2>2
<1> HIDE DEF output, keys
<1> QED BY <1>2, <1>3, <1>6, <1>8, <1>9, Zenon DEF Returns

-----------------------------------------------------------------------------
(***************************************************************************)
(* What the operators remember, in every reachable state.                  *)
(***************************************************************************)
LEMMA EmptyIsMap == EmptyMap \in Maps
BY NothingFolded

LEMMA MapStarts == ASSUME Init PROVE MapInv
<1>1. op \in Operators \union {"mapi"} /\ left \in Maps /\ right \in Maps
      /\ memory = None /\ stale = TRUE /\ visited = {}
  BY DEF Init, MapInit
<1> QED BY <1>1 DEF MapInv, MapTypes, Remembered, UpToDate

LEMMA InputSet ==
  ASSUME MapInv, op' = op, left' \in Maps, right' \in Maps, stale' = TRUE,
         memory' = memory, seen' = seen, visited' = visited
  PROVE  MapInv'
<1>1. MapTypes'
  BY DEF MapInv, MapTypes
<1>2. Remembered'
  BY Zenon DEF MapInv, Remembered
<1> QED BY <1>1, <1>2 DEF MapInv, UpToDate

LEMMA MapUnchanged == ASSUME MapInv, UNCHANGED mapVars PROVE MapInv'
<1>1. /\ op' = op /\ left' = left /\ right' = right /\ memory' = memory /\ stale' = stale
      /\ seen' = seen /\ visited' = visited
  BY DEF mapVars
<1> QED BY <1>1, Zenon DEF MapInv, MapTypes, Remembered, UpToDate

RunsNode == RunFilterMapi \/ RunFold \/ RunMerge

LEMMA RunReturns == ASSUME MapInv, RunsNode PROVE op # "mapi" /\ Returns
<1>1. op # "mapi"
  BY DEF RunsNode, RunFilterMapi, RunFold, RunMerge, Folds
<1> QED BY <1>1, FilterMapiReturns, FoldReturns, MergeReturns DEF RunsNode

LEMMA MapStep == ASSUME MapInv, MapNext PROVE MapInv'
<1>1. CASE SetLeft
  BY <1>1, InputSet DEF SetLeft, MapInv, MapTypes
<1>2. CASE SetRight
  BY <1>2, InputSet DEF SetRight, MapInv, MapTypes
<1>3. CASE RunsNode
  <2>1. op # "mapi" /\ Returns
    BY <1>3, RunReturns
  <2>2. PICK output, didChange, keys :
          /\ Return(output, didChange, keys) /\ output = OutputOf(op, left, right)
          /\ memory # None => didChange \/ output = memory.output
          /\ Allowed(keys)
    BY <2>1, Zenon DEF Returns
  <2>3. keys \in SUBSET Key
    BY <2>2 DEF Allowed
  <2> QED BY <2>1, <2>2, <2>3, ReturnKeeps
<1> QED BY <1>1, <1>2, <1>3 DEF MapNext, RunsNode

LEMMA NextKeepsMapInv == ASSUME MapInv, [Next]_vars PROVE MapInv'
BY MapStep, MapUnchanged DEF Next, vars

(* In every reachable state, for any keys, values and closures, an         *)
(* operator's node has the value of the operator for the inputs of its     *)
(* last run, and its parents have read that value.                         *)
THEOREM NodesRememberTheirInputs == Spec => []MapInv
<1>1. Init => MapInv
  BY MapStarts
<1>2. MapInv /\ [Next]_vars => MapInv'
  BY NextKeepsMapInv
<1> QED BY <1>1, <1>2, PTL DEF Spec

(* Both iterators over a difference of maps yield exactly the keys whose   *)
(* values differ, in order and once each, with both values.                *)
THEOREM DiffsOfAnyMaps ==
  \A self, other \in Maps : /\ IsDiff(SymmetricDiff(self, other), self, other)
                            /\ IsDiff(SymmetricDiffOwned(self, other), self, other)
BY ReferencedDiff, OwnedDiff, DiffIsDiff

(* So do they for the input that a node remembers and the present one, in  *)
(* every reachable state.                                                  *)
THEOREM EveryDiffIsExact == Spec => []DiffsAreExact
<1>1. MapInv => DiffsAreExact
  BY DiffsOfAnyMaps DEF MapInv, MapTypes, Remembered, DiffsAreExact
<1> QED BY <1>1, NodesRememberTheirInputs, PTL

(* After any sequence of inputs and stabilisations, the output that was    *)
(* patched with differences is the operator's value for the whole input,   *)
(* for all five operators and any closures.                                *)
THEOREM PatchedOutputIsOperator == Spec => []OutputIsOperator
<1>1. MapInv => OutputIsOperator
  BY ReferenceIs, Zenon DEF MapInv, UpToDate, OutputIsOperator
<1> QED BY <1>1, NodesRememberTheirInputs, PTL

(* A run of an operator's node calls the user's closure for keys of the    *)
(* difference only.                                                        *)
THEOREM ClosureSeesChangesOnly == Spec => OnlyChangedKeysVisited
<1> DEFINE Visits == memory # None /\ stale /\ ~stale' =>
             visited' \subseteq ChangedKeys(memory.left, left) \union ChangedKeys(memory.right, right)
<1>1. ASSUME MapInv, [Next]_vars PROVE Visits
  <2> SUFFICES ASSUME memory # None, stale, ~stale'
               PROVE  visited' \subseteq ChangedKeys(memory.left, left) \union ChangedKeys(memory.right, right)
    OBVIOUS
  <2>1. MapNext
    BY <1>1 DEF Next, vars, mapVars
  <2>2. RunsNode
    BY <2>1 DEF MapNext, RunsNode, SetLeft, SetRight
  <2>3. PICK output, didChange, keys : Return(output, didChange, keys) /\ Allowed(keys)
    BY <1>1, <2>2, RunReturns, Zenon DEF Returns
  <2>4. visited' = keys
    BY <2>3 DEF Return
  <2> QED BY <2>3, <2>4 DEF Allowed
<1>2. MapInv /\ [Next]_vars => [Visits]_vars
  BY <1>1
<1> QED BY <1>2, NodesRememberTheirInputs, PTL DEF Spec, OnlyChangedKeysVisited

-----------------------------------------------------------------------------
(***************************************************************************)
(* incr_filter_mapi_: the nodes for the keys, between any two steps.       *)
(***************************************************************************)
MapiTypes ==
  /\ input \in Maps /\ prevMap \in Maps /\ outer \in Value
  /\ {stabilising, observed, willFire, panicked} \subseteq BOOLEAN
  /\ nodes \subseteq Key /\ kept \subseteq nodes
  /\ above \subseteq nodes /\ handles \subseteq nodes /\ unheard \subseteq nodes
  /\ innerDue \subseteq nodes /\ mappedDue \subseteq nodes /\ due \subseteq {"lhs", "result"}
  /\ inner \in [Key -> Value \union {NoValue}]
  /\ mapped = [k \in Key |-> mapped[k]]
  /\ acc = MapOf(Got(acc))

\* A node that is not due has the value that what it depends on gives.
LhsSeen == "lhs" \notin due => prevMap = input
InnerRight == \A k \in nodes \ innerDue : inner[k] = prevMap[k]
MappedRight ==
  \A k \in nodes \ mappedDue :
    (k \in above => inner[k] # NoValue) /\ mapped[k] = MappedValue(k)

\* Without an observer the edges' callbacks are not called: they will all be.
WillFireUnlessObserved == ~observed => willFire

EntryOf(v) == IF v = NoValue THEN None ELSE v
AccRight ==
  /\ "result" \notin due \/ ~willFire =>
       \A k \in nodes \ unheard : MapGet(acc, k) = EntryOf(mapped[k])
  /\ \A k \in unheard : MapGet(acc, k) = None
ValueRight == "result" \notin due => value = acc
AllInnerRan == ~stabilising /\ observed => InnerDueBelow = {}

MapiInv ==
  /\ MapiTypes /\ NodesMatchMap /\ LhsSeen /\ InnerRight /\ MappedRight
  /\ WillFireUnlessObserved /\ AccRight /\ ValueRight /\ AllInnerRan

LEMMA MapiStarts == ASSUME Init PROVE MapiInv
<1>1. /\ input \in Maps /\ outer \in Value
      /\ stabilising = FALSE /\ observed = FALSE /\ kept = {}
      /\ prevMap = EmptyMap /\ nodes = {} /\ edges = {} /\ above = {} /\ handles = {}
      /\ acc = EmptyMap /\ value = NoValue
      /\ inner = [k \in Key |-> NoValue] /\ mapped = [k \in Key |-> NoValue]
      /\ due = {"lhs", "result"} /\ innerDue = {} /\ mappedDue = {}
      /\ willFire = TRUE /\ panicked = FALSE /\ unheard = {}
  BY Zenon DEF Init, MapiInit
<1>2. EmptyMap \in Maps /\ DOMAIN EmptyMap = {}
  BY EmptyIsMap DEF EmptyMap
<1>3. acc = MapOf(Got(acc))
  BY <1>1, <1>2, MapIsMapOf DEF Got
<1>4. MapiTypes
  BY <1>1, <1>2, <1>3 DEF MapiTypes
<1> QED BY <1>1, <1>2, <1>4 DEF MapiInv, NodesMatchMap, LhsSeen, InnerRight, MappedRight,
           WillFireUnlessObserved, AccRight, ValueRight, AllInnerRan

-----------------------------------------------------------------------------
(***************************************************************************)
(* The loop of lhs_change.  Before each turn, the nodes are those of a map *)
(* that has the new entries for the keys D that were handled, and the old  *)
(* ones for the others.                                                    *)
(***************************************************************************)
NewKeys == DOMAIN input \ DOMAIN prevMap
AsideValues == {Aside(k, v) : k \in Key, v \in Value}
LhsStates(V, M) ==
  [nodes : SUBSET Key, edges : SUBSET Key, above : SUBSET Key, handles : SUBSET Key,
   kept : SUBSET Key, innerDue : SUBSET Key, mappedDue : SUBSET Key,
   inner : [Key -> Value \union {NoValue}], mapped : [Key -> M], acc : MapsTo(V),
   due : SUBSET {"lhs", "result"}, unheard : SUBSET Key, panicked : BOOLEAN,
   answers : [NewKeys -> Answers]]

LEMMA PanicFields ==
  ASSUME NEW V, NEW M, NEW s \in LhsStates(V, M)
  PROVE  Panic(s) \in LhsStates(V, M) /\ Panic(s).panicked = TRUE
BY DEF LhsStates, Panic

LEMMA RemovedFields ==
  ASSUME NEW V, NEW M, NEW s \in LhsStates(V, M), None \in V, NoValue \in M, NEW k \in Key
  PROVE  /\ Removed(s, k) \in LhsStates(V, M)
         /\ Removed(s, k).nodes = s.nodes \ {k} /\ Removed(s, k).edges = s.edges \ {k}
         /\ Removed(s, k).above = s.above \ {k} /\ Removed(s, k).handles = s.handles \ {k}
         /\ Removed(s, k).kept = s.kept \ {k}
         /\ Removed(s, k).innerDue = s.innerDue \ {k} /\ Removed(s, k).mappedDue = s.mappedDue \ {k}
         /\ Removed(s, k).inner = [s.inner EXCEPT ![k] = NoValue]
         /\ Removed(s, k).mapped = [s.mapped EXCEPT ![k] = NoValue]
         /\ Removed(s, k).acc = MapRemove(s.acc, k)
         /\ Removed(s, k).due = s.due \union {"result"}
         /\ Removed(s, k).unheard = s.unheard \ {k} /\ Removed(s, k).panicked = s.panicked
<1>1. MapRemove(s.acc, k) \in MapsTo(V)
  <2>1. s.acc \in MapsTo(V) /\ MapRemove(s.acc, k) = InsertIfSome(s.acc, k, None)
    BY DEF LhsStates, InsertIfSome
  <2> QED BY <2>1, PatchClosed
<1>2. Removed(s, k) \in LhsStates(V, M)
  BY <1>1 DEF LhsStates, Removed
<1> QED BY <1>2 DEF Removed, LhsStates

\* What the user's function may return for a new key.
LEMMA AnswerFields ==
  ASSUME NEW V, NEW M, NEW s \in LhsStates(V, M), AsideValues \subseteq M, NoValue \in M,
         NEW k \in NewKeys, k \in Key
  PROVE  /\ s.answers[k].last \in Value \union {NoValue}
         /\ s.answers[k].above => s.answers[k].last = NoValue
         /\ s.answers[k].last # NoValue => Aside(k, s.answers[k].last) \in M
<1>1. s.answers \in [NewKeys -> Answers]
  BY DEF LhsStates
<1>2. s.answers[k] \in AnyAnswer
  BY <1>1, AnswersAssumption
<1>3. ASSUME NEW a \in AnyAnswer
      PROVE  a.last \in Value \union {NoValue} /\ (a.above => a.last = NoValue)
  <2>1. CASE a = Above
    BY <2>1 DEF Above
  <2>2. CASE a \in [above : {FALSE}, held : BOOLEAN, last : Value \union {NoValue}]
    BY <2>2
  <2> QED BY <2>1, <2>2 DEF AnyAnswer
<1> QED BY <1>2, <1>3 DEF AsideValues

LEMMA OnRightFields ==
  ASSUME NEW V, NEW M, NEW s \in LhsStates(V, M), AsideValues \subseteq M, NoValue \in M,
         NEW k \in NewKeys, k \in Key
  PROVE  /\ OnRight(s, k) \in LhsStates(V, M)
         /\ OnRight(s, k).nodes = s.nodes \union {k} /\ OnRight(s, k).edges = s.edges \union {k}
         /\ OnRight(s, k).above = IF s.answers[k].above THEN s.above \union {k} ELSE s.above
         /\ OnRight(s, k).handles = IF s.answers[k].held THEN s.handles \union {k} ELSE s.handles
         /\ OnRight(s, k).kept = s.kept /\ OnRight(s, k).innerDue = s.innerDue \union {k}
         /\ OnRight(s, k).mappedDue =
              IF s.answers[k].last = outer THEN s.mappedDue ELSE s.mappedDue \union {k}
         /\ OnRight(s, k).inner = [s.inner EXCEPT ![k] = NoValue]
         /\ OnRight(s, k).mapped =
              [s.mapped EXCEPT ![k] = ValueAt(k, s.answers[k].last)]
         /\ OnRight(s, k).acc = s.acc /\ OnRight(s, k).due = s.due \union {"result"}
         /\ OnRight(s, k).unheard =
              IF willFire \/ s.answers[k].last = NoValue THEN s.unheard ELSE s.unheard \union {k}
         /\ OnRight(s, k).panicked = s.panicked
<1> DEFINE a == s.answers[k]
           node == ValueAt(k, a.last)
           mappedThen == [s.mapped EXCEPT ![k] = node]
           innerThen == [s.inner EXCEPT ![k] = NoValue]
<1>1. node \in M
  BY AnswerFields DEF ValueAt
<1>2. mappedThen \in [Key -> M] /\ innerThen \in [Key -> Value \union {NoValue}]
  <2> HIDE DEF node
  <2> QED BY <1>1 DEF LhsStates
<1> HIDE DEF node, a, mappedThen, innerThen
<1>3. OnRight(s, k) =
        [nodes |-> s.nodes \union {k}, edges |-> s.edges \union {k},
         above |-> IF a.above THEN s.above \union {k} ELSE s.above,
         handles |-> IF a.held THEN s.handles \union {k} ELSE s.handles, kept |-> s.kept,
         innerDue |-> s.innerDue \union {k},
         mappedDue |-> IF a.last = outer THEN s.mappedDue ELSE s.mappedDue \union {k},
         inner |-> innerThen, mapped |-> mappedThen,
         acc |-> s.acc, due |-> s.due \union {"result"},
         unheard |-> IF willFire \/ a.last = NoValue THEN s.unheard ELSE s.unheard \union {k},
         panicked |-> s.panicked, answers |-> s.answers]
  BY Zenon DEF OnRight, innerThen, mappedThen, node, a
<1>4. OnRight(s, k) \in LhsStates(V, M)
  BY <1>2, <1>3 DEF LhsStates
<1> QED BY <1>3, <1>4 DEF innerThen, mappedThen, node, a

LEMMA OnUnequalFields ==
  ASSUME NEW V, NEW M, NEW s \in LhsStates(V, M), NEW k \in Key, Alive(s, k)
  PROVE  /\ OnUnequal(s, k) \in LhsStates(V, M)
         /\ OnUnequal(s, k).innerDue = s.innerDue \union {k} /\ OnUnequal(s, k).nodes = s.nodes
         /\ OnUnequal(s, k).edges = s.edges /\ OnUnequal(s, k).above = s.above
         /\ OnUnequal(s, k).handles = s.handles /\ OnUnequal(s, k).kept = s.kept
         /\ OnUnequal(s, k).mappedDue = s.mappedDue /\ OnUnequal(s, k).inner = s.inner
         /\ OnUnequal(s, k).mapped = s.mapped /\ OnUnequal(s, k).acc = s.acc
         /\ OnUnequal(s, k).due = s.due /\ OnUnequal(s, k).unheard = s.unheard
         /\ OnUnequal(s, k).panicked = s.panicked
BY DEF LhsStates, OnUnequal

LEMMA RemovedGet ==
  \A m, k, x : MapGet(MapRemove(m, k), x) = IF x = k THEN None ELSE MapGet(m, x)
BY DEF MapGet, MapRemove, Restrict

Entry(D, k) == IF k \in D THEN MapGet(input, k) ELSE MapGet(prevMap, k)

TablesRight(s, D) ==
  /\ \A k \in Key : k \in s.nodes <=> Entry(D, k) # None
  /\ s.edges = s.nodes
  /\ s.kept \subseteq s.nodes /\ s.above \subseteq s.nodes /\ s.handles \subseteq s.nodes
  /\ \A k \in Key \ D : (k \in s.above <=> k \in above) /\ (k \in s.handles <=> k \in handles)

DueRight(s, D) ==
  /\ s.innerDue \subseteq s.nodes /\ s.mappedDue \subseteq s.nodes
  /\ \A k \in s.nodes \ s.innerDue : k \notin D /\ s.inner[k] = prevMap[k]
  /\ \A k \in s.nodes \ s.mappedDue :
       /\ k \in s.above => s.inner[k] # NoValue
       /\ s.mapped[k] = IF k \in s.above THEN Mapped(k, s.inner[k], outer) ELSE Aside(k, outer)

AccsRight(s) ==
  /\ s.unheard \subseteq s.nodes
  /\ \A k \in Key \ s.nodes : MapGet(s.acc, k) = None
  /\ \A k \in s.unheard : MapGet(s.acc, k) = None
  /\ "result" \notin s.due \/ ~willFire =>
       \A k \in s.nodes \ s.unheard : MapGet(s.acc, k) = EntryOf(s.mapped[k])
  /\ "result" \notin s.due => value = s.acc

LetGo == \E k \in nodes : k \notin above \union handles

Partway(s, D) ==
  IF s.panicked THEN LetGo ELSE TablesRight(s, D) /\ DueRight(s, D) /\ AccsRight(s)

\* A weak reference that cannot be upgraded was let go of by the user's function.
LEMMA DeadIsLetGo ==
  ASSUME NEW V, NEW M, NEW s \in LhsStates(V, M), NEW D \in SUBSET Key, NEW k \in Key, k \notin D,
         nodes = DOMAIN prevMap, ~s.panicked, Partway(s, D), MapGet(prevMap, k) # None, ~Alive(s, k)
  PROVE  LetGo
<1>1. TablesRight(s, D)
  BY DEF Partway
<1>2. k \in s.nodes /\ k \in s.edges /\ (k \in s.above <=> k \in above) /\ (k \in s.handles <=> k \in handles)
  BY <1>1 DEF TablesRight, Entry
<1>3. k \notin above \union handles
  BY <1>2 DEF Alive
<1>4. k \in nodes
  BY DEF MapGet
<1> QED BY <1>3, <1>4 DEF LetGo

LEMMA RemovalKeepsPartway ==
  ASSUME NEW V, NEW M, NEW s \in LhsStates(V, M), None \in V, NoValue \in M,
         NEW D \in SUBSET Key, NEW k \in Key, k \notin D, ~s.panicked, Partway(s, D),
         MapGet(input, k) = None
  PROVE  Partway(Removed(s, k), D \union {k})
<1> DEFINE t == Removed(s, k)
<1>1. /\ t.nodes = s.nodes \ {k} /\ t.edges = s.edges \ {k} /\ t.above = s.above \ {k}
      /\ t.handles = s.handles \ {k} /\ t.kept = s.kept \ {k}
      /\ t.innerDue = s.innerDue \ {k} /\ t.mappedDue = s.mappedDue \ {k}
      /\ t.inner = [s.inner EXCEPT ![k] = NoValue] /\ t.mapped = [s.mapped EXCEPT ![k] = NoValue]
      /\ t.acc = MapRemove(s.acc, k) /\ t.due = s.due \union {"result"}
      /\ t.unheard = s.unheard \ {k} /\ ~t.panicked
  BY RemovedFields
<1>2. /\ s.nodes \in SUBSET Key /\ s.unheard \in SUBSET Key
      /\ s.inner \in [Key -> Value \union {NoValue}] /\ s.mapped \in [Key -> M]
  BY DEF LhsStates
<1>3. \A x \in Key \ {k} : t.inner[x] = s.inner[x] /\ t.mapped[x] = s.mapped[x]
  BY <1>1, <1>2
<1>4. \A x \in Key : MapGet(t.acc, x) = IF x = k THEN None ELSE MapGet(s.acc, x)
  BY <1>1, RemovedGet
<1> HIDE DEF t
<1>5. TablesRight(s, D) /\ DueRight(s, D) /\ AccsRight(s)
  BY DEF Partway
<1>6. TablesRight(t, D \union {k})
  BY <1>1, <1>5 DEF TablesRight, Entry
<1>7. DueRight(t, D \union {k})
  BY <1>1, <1>2, <1>3, <1>5 DEF DueRight
<1>8. AccsRight(t)
  BY <1>1, <1>2, <1>3, <1>4, <1>5 DEF AccsRight
<1> QED BY <1>1, <1>6, <1>7, <1>8 DEF Partway, t

LEMMA AdditionKeepsPartway ==
  ASSUME NEW V, NEW M, NEW s \in LhsStates(V, M), AsideValues \subseteq M, NoValue \in M,
         outer \in Value, NEW D \in SUBSET Key, NEW k \in Key, k \in NewKeys, k \notin D,
         ~s.panicked, Partway(s, D), MapGet(input, k) # None, MapGet(prevMap, k) = None
  PROVE  Partway(OnRight(s, k), D \union {k})
<1> DEFINE t == OnRight(s, k)
           a == s.answers[k]
           node == ValueAt(k, a.last)
<1>1. /\ t.nodes = s.nodes \union {k} /\ t.edges = s.edges \union {k}
      /\ t.above = IF a.above THEN s.above \union {k} ELSE s.above
      /\ t.handles = IF a.held THEN s.handles \union {k} ELSE s.handles
      /\ t.kept = s.kept /\ t.innerDue = s.innerDue \union {k}
      /\ t.mappedDue = IF a.last = outer THEN s.mappedDue ELSE s.mappedDue \union {k}
      /\ t.inner = [s.inner EXCEPT ![k] = NoValue] /\ t.mapped = [s.mapped EXCEPT ![k] = node]
      /\ t.acc = s.acc /\ t.due = s.due \union {"result"}
      /\ t.unheard = IF willFire \/ a.last = NoValue THEN s.unheard ELSE s.unheard \union {k}
      /\ t.panicked = s.panicked
  BY Zenon DEF OnRight
<1>2. a.last \in Value \union {NoValue} /\ (a.above => a.last = NoValue)
  BY AnswerFields
<1>3. /\ s.nodes \in SUBSET Key /\ s.unheard \in SUBSET Key
      /\ s.inner \in [Key -> Value \union {NoValue}] /\ s.mapped \in [Key -> M]
  BY DEF LhsStates
<1>4. outer # NoValue
  BY NoValueAssumption
<1> HIDE DEF t, a
<1>5. /\ \A x \in Key \ {k} : t.inner[x] = s.inner[x] /\ t.mapped[x] = s.mapped[x]
      /\ t.mapped[k] = node
  BY <1>1, <1>3
<1>6. TablesRight(s, D) /\ DueRight(s, D) /\ AccsRight(s)
  BY DEF Partway
<1>7. k \notin s.nodes
  BY <1>6 DEF TablesRight, Entry
<1>8. TablesRight(t, D \union {k})
  BY <1>1, <1>6 DEF TablesRight, Entry
<1>9. DueRight(t, D \union {k})
  <2>1. t.innerDue \subseteq t.nodes /\ t.mappedDue \subseteq t.nodes
    BY <1>1, <1>6 DEF DueRight
  <2>2. \A x \in t.nodes \ t.innerDue : x \notin D \union {k} /\ t.inner[x] = prevMap[x]
    BY <1>1, <1>3, <1>5, <1>6 DEF DueRight
  <2>3. ASSUME NEW x \in t.nodes \ t.mappedDue
        PROVE  /\ x \in t.above => t.inner[x] # NoValue
               /\ t.mapped[x] = IF x \in t.above THEN Mapped(x, t.inner[x], outer) ELSE Aside(x, outer)
    <3>1. CASE x = k
      <4>1. a.last = outer /\ ~a.above /\ node = Aside(k, outer)
        BY <1>1, <1>2, <1>4, <2>3, <3>1 DEF ValueAt
      <4>2. k \notin t.above
        BY <1>1, <1>6, <1>7, <4>1 DEF TablesRight
      <4> QED BY <1>5, <3>1, <4>1, <4>2
    <3>2. CASE x # k
      <4>1. x \in s.nodes \ s.mappedDue /\ x \in Key /\ (x \in t.above <=> x \in s.above)
        BY <1>1, <1>3, <2>3, <3>2
      <4> QED BY <1>5, <1>6, <3>2, <4>1 DEF DueRight
    <3> QED BY <3>1, <3>2
  <2> QED BY <2>1, <2>2, <2>3 DEF DueRight
<1>10. AccsRight(t)
  <2>1. MapGet(s.acc, k) = None
    BY <1>6, <1>7 DEF AccsRight
  <2>2. t.unheard \subseteq t.nodes
    BY <1>1, <1>6 DEF AccsRight
  <2>3. \A x \in Key \ t.nodes : MapGet(t.acc, x) = None
    BY <1>1, <1>6 DEF AccsRight
  <2>4. \A x \in t.unheard : MapGet(t.acc, x) = None
    BY <1>1, <1>6, <2>1 DEF AccsRight
  <2>5. ASSUME ~willFire, NEW x \in t.nodes \ t.unheard
        PROVE  MapGet(t.acc, x) = EntryOf(t.mapped[x])
    <3>1. CASE x = k
      <4>1. a.last = NoValue
        BY <1>1, <2>5, <3>1
      <4> QED BY <1>1, <1>5, <2>1, <3>1, <4>1 DEF EntryOf, ValueAt
    <3>2. CASE x # k
      <4>1. x \in s.nodes \ s.unheard /\ x \in Key
        BY <1>1, <1>3, <2>5, <3>2
      <4> QED BY <1>1, <1>5, <1>6, <2>5, <3>2, <4>1 DEF AccsRight
    <3> QED BY <3>1, <3>2
  <2> QED BY <1>1, <2>2, <2>3, <2>4, <2>5 DEF AccsRight
<1> QED BY <1>1, <1>8, <1>9, <1>10 DEF Partway, t

LEMMA ChangeKeepsPartway ==
  ASSUME NEW V, NEW M, NEW s \in LhsStates(V, M),
         NEW D \in SUBSET Key, NEW k \in Key, k \notin D, ~s.panicked, Partway(s, D), Alive(s, k),
         MapGet(input, k) # None, MapGet(prevMap, k) # None
  PROVE  Partway(OnUnequal(s, k), D \union {k})
<1> DEFINE t == OnUnequal(s, k)
<1>1. /\ t.nodes = s.nodes /\ t.edges = s.edges /\ t.above = s.above /\ t.handles = s.handles
      /\ t.kept = s.kept /\ t.innerDue = s.innerDue \union {k} /\ t.mappedDue = s.mappedDue
      /\ t.inner = s.inner /\ t.mapped = s.mapped /\ t.acc = s.acc /\ t.due = s.due
      /\ t.unheard = s.unheard /\ ~t.panicked
  BY OnUnequalFields
<1>2. TablesRight(s, D) /\ DueRight(s, D) /\ AccsRight(s)
  BY DEF Partway
<1>3. k \in s.nodes
  BY <1>2 DEF TablesRight, Entry
<1> HIDE DEF t
<1>4. TablesRight(t, D \union {k})
  BY <1>1, <1>2, <1>3 DEF TablesRight, Entry
<1>5. DueRight(t, D \union {k})
  BY <1>1, <1>2, <1>3 DEF DueRight
<1>6. AccsRight(t)
  BY <1>1, <1>2, Zenon DEF AccsRight
<1> QED BY <1>1, <1>4, <1>5, <1>6 DEF Partway, t

LEMMA LhsStepKeepsPartway ==
  ASSUME NEW V, NEW M, NEW s \in LhsStates(V, M), None \in V, NoValue \in M, AsideValues \subseteq M,
         prevMap \in Maps, outer \in Value, nodes = DOMAIN prevMap,
         NEW D \in SUBSET Key, NEW k \in Key, k \notin D, MapGet(prevMap, k) # MapGet(input, k), Partway(s, D)
  PROVE  Partway(LhsStep(s, DiffElement(prevMap, input, k)), D \union {k})
<1> DEFINE e == DiffElement(prevMap, input, k)
<1>1. e.key = k /\ e.new = MapGet(input, k) /\ e.old = MapGet(prevMap, k)
  BY DEF DiffElement
<1> HIDE DEF e
<1>2. CASE s.panicked
  BY <1>2 DEF LhsStep, Partway, e
<1>3. ASSUME ~s.panicked, MapGet(prevMap, k) # None, ~Alive(s, k)
      PROVE  Partway(LhsStep(s, e), D \union {k})
  <2>1. LhsStep(s, e) = Panic(s)
    BY <1>1, <1>3 DEF LhsStep, OnLeft, OnUnequal
  <2>2. Panic(s).panicked = TRUE
    BY PanicFields
  <2>3. LetGo
    BY <1>3, DeadIsLetGo
  <2> QED BY <2>1, <2>2, <2>3 DEF Partway
<1>4. ASSUME ~s.panicked, MapGet(prevMap, k) # None, Alive(s, k), MapGet(input, k) = None
      PROVE  Partway(LhsStep(s, e), D \union {k})
  <2>1. LhsStep(s, e) = Removed(s, k)
    BY <1>1, <1>4 DEF LhsStep, OnLeft
  <2> QED BY <1>4, <2>1, RemovalKeepsPartway
<1>5. ASSUME ~s.panicked, MapGet(prevMap, k) = None
      PROVE  Partway(LhsStep(s, e), D \union {k})
  <2>1. MapGet(input, k) # None
    BY <1>5
  <2>2. LhsStep(s, e) = OnRight(s, k)
    BY <1>1, <1>5, <2>1 DEF LhsStep
  <2>3. k \in NewKeys
    BY <1>5, <2>1, MapFacts DEF NewKeys, MapGet
  <2> QED BY <1>5, <2>1, <2>2, <2>3, AdditionKeepsPartway
<1>6. ASSUME ~s.panicked, MapGet(prevMap, k) # None, Alive(s, k), MapGet(input, k) # None
      PROVE  Partway(LhsStep(s, e), D \union {k})
  <2>1. LhsStep(s, e) = OnUnequal(s, k)
    BY <1>1, <1>6 DEF LhsStep
  <2> QED BY <1>6, <2>1, ChangeKeepsPartway
<1> QED BY <1>2, <1>3, <1>4, <1>5, <1>6 DEF e

LEMMA LhsStepsClosed ==
  ASSUME NEW V, NEW M, None \in V, NoValue \in M, AsideValues \subseteq M, prevMap \in Maps
  PROVE  LhsClosed(LhsStates(V, M), Elements(prevMap, input))
<1> SUFFICES ASSUME NEW s \in LhsStates(V, M), NEW k \in Key
             PROVE  LhsStep(s, DiffElement(prevMap, input, k)) \in LhsStates(V, M)
  BY DEF LhsClosed, Elements
<1> DEFINE e == DiffElement(prevMap, input, k)
<1>1. e.key = k /\ e.new = MapGet(input, k) /\ e.old = MapGet(prevMap, k)
  BY DEF DiffElement
<1>2. Panic(s) \in LhsStates(V, M) /\ Removed(s, k) \in LhsStates(V, M)
  BY PanicFields, RemovedFields
<1>3. OnLeft(s, k) \in LhsStates(V, M)
  BY <1>2 DEF OnLeft
<1>4. OnUnequal(s, k) \in LhsStates(V, M)
  BY <1>2, OnUnequalFields DEF OnUnequal
<1>5. k \in NewKeys => OnRight(s, k) \in LhsStates(V, M)
  BY OnRightFields
<1>6. e.new # None /\ e.old = None => k \in NewKeys
  BY <1>1, MapFacts DEF NewKeys, MapGet
<1> HIDE DEF e
<1> QED BY <1>1, <1>3, <1>4, <1>5, <1>6, Zenon DEF LhsStep, e

LEMMA LhsFolded ==
  ASSUME NEW V, NEW M, NEW now \in LhsStates(V, M), None \in V, NoValue \in M,
         AsideValues \subseteq M, prevMap \in Maps, input \in Maps, outer \in Value,
         nodes = DOMAIN prevMap, Partway(now, {})
  PROVE  /\ LhsFold(now, SymmetricDiff(prevMap, input)) \in LhsStates(V, M)
         /\ Partway(LhsFold(now, SymmetricDiff(prevMap, input)), ChangedKeys(prevMap, input))
<1> DEFINE diff == SymmetricDiff(prevMap, input)
           E == Elements(prevMap, input)
           S == LhsStates(V, M)
<1>1. PICK n, s : Lists(diff, n, s, prevMap, input)
  BY DiffItems
<1>2. /\ n \in Nat /\ s \in [1 .. n -> Key] /\ Once(s, n)
      /\ diff \in Seq(E) /\ Len(diff) = n
      /\ \A i \in 1 .. n : diff[i] = DiffElement(prevMap, input, s[i])
      /\ ChangedKeys(prevMap, input) = {s[i] : i \in 1 .. n}
  <2>1. Once(s, n)
    BY <1>1, ListsOnce
  <2>2. ChangedKeys(prevMap, input) = {s[i] : i \in 1 .. n}
    BY <1>1 DEF Lists
  <2> QED BY <1>1, <2>1, <2>2 DEF Lists
<1>3. LhsClosed(S, E)
  BY LhsStepsClosed
<1> HIDE DEF diff, E, S
<1>4. PICK f \in [0 .. n -> S] :
        /\ f[0] = now /\ f[n] = LhsFold(now, diff)
        /\ \A i \in 1 .. n : f[i] = LhsStep(f[i - 1], diff[i])
  <2>1. now \in S
    BY DEF S
  <2>2. \E f \in [0 .. Len(diff) -> S] :
          /\ f[0] = now /\ f[Len(diff)] = LhsFold(now, diff)
          /\ \A i \in 1 .. Len(diff) : f[i] = LhsStep(f[i - 1], diff[i])
    BY <1>2, <1>3, <2>1, LhsLoop
  <2> QED BY <1>2, <2>2, Zenon
<1> DEFINE Done(i) == {s[x] : x \in 1 .. i}
           P == {i \in 0 .. n : Partway(f[i], Done(i))}
<1>5. 0 \in P
  <2>1. Done(0) = {} /\ 0 \in 0 .. n
    BY <1>2
  <2> HIDE DEF Done
  <2>2. Partway(f[0], Done(0))
    BY <1>4, <2>1, Zenon
  <2> QED BY <2>1, <2>2
<1>6. ASSUME NEW i \in 0 .. n - 1, i \in P PROVE i + 1 \in P
  <2>1. i + 1 \in 1 .. n /\ (i + 1) - 1 = i /\ i + 1 \in 0 .. n /\ i \in 0 .. n
    BY <1>2
  <2> DEFINE k == s[i + 1]
             D == Done(i)
  <2>2. k \in Key /\ D \in SUBSET Key
    BY <1>2, <2>1
  <2>3. k \notin D /\ MapGet(prevMap, k) # MapGet(input, k)
    <3>1. k \notin D
      BY <1>2, <2>1 DEF Once
    <3>2. k \in ChangedKeys(prevMap, input)
      BY <1>2, <2>1
    <3> QED BY <3>1, <3>2 DEF ChangedKeys
  <2>4. Done(i + 1) = D \union {k}
    <3>1. i + 1 \in 1 .. i + 1 /\ \A x \in 1 .. i + 1 : x = i + 1 \/ x \in 1 .. i
      OBVIOUS
    <3>2. \A x \in 1 .. i : x \in 1 .. i + 1
      OBVIOUS
    <3> QED BY <3>1, <3>2
  <2>5. f[i] \in LhsStates(V, M) /\ Partway(f[i], D)
    BY <1>4, <1>6, <2>1 DEF S
  <2>6. f[i + 1] = LhsStep(f[i], DiffElement(prevMap, input, k))
    BY <1>2, <1>4, <2>1, Zenon
  <2> HIDE DEF Done, D, k
  <2>7. Partway(f[i + 1], Done(i + 1))
    BY <2>2, <2>3, <2>4, <2>5, <2>6, LhsStepKeepsPartway
  <2> QED BY <2>1, <2>7
<1>7. n \in P
  <2> HIDE DEF P
  <2>1. \A i \in 0 .. n : i \in P
    BY <1>2, <1>5, <1>6, Induction
  <2> QED BY <1>2, <2>1
<1>8. Partway(f[n], ChangedKeys(prevMap, input))
  BY <1>2, <1>7
<1>9. f[n] \in S
  BY <1>2, <1>4
<1> QED BY <1>4, <1>8, <1>9, Zenon DEF diff, S

LEMMA PanicKeeps ==
  ASSUME MapiInv, LetGo, panicked' = TRUE, observed' = observed, stabilising' = stabilising,
         input' = input, outer' = outer, value' = value, willFire' = willFire,
         UNCHANGED <<prevMap, tables, values, kept, innerDue, mappedDue, acc, due, unheard>>
  PROVE  MapiInv'
<1>1. /\ prevMap' = prevMap /\ nodes' = nodes /\ edges' = edges /\ above' = above
      /\ handles' = handles /\ inner' = inner /\ mapped' = mapped /\ kept' = kept
      /\ innerDue' = innerDue /\ mappedDue' = mappedDue /\ acc' = acc /\ due' = due
      /\ unheard' = unheard
  BY DEF tables, values
<1>2. MapiTypes'
  BY <1>1 DEF MapiInv, MapiTypes, Got
<1>3. NodesMatchMap'
  BY <1>1 DEF MapiInv, NodesMatchMap, LetGo
<1> QED BY <1>1, <1>2, <1>3 DEF MapiInv, LhsSeen, InnerRight, MappedRight, MappedValue,
           WillFireUnlessObserved, AccRight, ValueRight, AllInnerRan, InnerDueBelow

LEMMA ReturnKeepsMapi ==
  ASSUME NEW V, NEW M, NEW then \in LhsStates(V, M),
         MapiInv, stabilising, ~panicked, input \in Maps, prevMap \in Maps, outer \in Value,
         TablesRight(then, ChangedKeys(prevMap, input)),
         DueRight(then, ChangedKeys(prevMap, input)), AccsRight(then),
         nodes' = then.nodes, edges' = then.edges, above' = then.above,
         handles' = then.handles, kept' = then.kept,
         innerDue' = then.innerDue, mappedDue' = then.mappedDue,
         inner' = then.inner, mapped' = then.mapped, acc' = then.acc, due' = then.due,
         unheard' = then.unheard, prevMap' = input, panicked' = panicked,
         input' = input, outer' = outer, stabilising' = stabilising, observed' = observed,
         value' = value, willFire' = willFire
  PROVE  MapiInv'
<1> DEFINE K == ChangedKeys(prevMap, input)
<1>1. \A k \in Key : k \notin K => MapGet(prevMap, k) = MapGet(input, k)
  BY DiffItems
<1>2. TablesRight(then, K) /\ DueRight(then, K) /\ AccsRight(then)
  OBVIOUS
<1> HIDE DEF K
<1>3. nodes' \in SUBSET Key /\ \A k \in Key : k \in nodes' <=> MapGet(input, k) # None
  BY <1>1, <1>2 DEF TablesRight, Entry, LhsStates
<1>4. nodes' = DOMAIN input
  BY <1>3, MapFacts DEF MapGet
<1>5. MapiTypes'
  <2>1. /\ kept' \subseteq nodes' /\ innerDue' \subseteq nodes' /\ mappedDue' \subseteq nodes'
        /\ above' \subseteq nodes' /\ handles' \subseteq nodes' /\ unheard' \subseteq nodes'
    BY <1>2 DEF TablesRight, DueRight, AccsRight
  <2>2. due' \subseteq {"lhs", "result"} /\ inner' \in [Key -> Value \union {NoValue}]
        /\ mapped' = [k \in Key |-> mapped'[k]]
    BY DEF LhsStates
  <2>3. acc' = MapOf(Got(acc'))
    <3>1. PICK g \in [Key -> V] : acc' = MapOf(g)
      BY DEF LhsStates, MapsTo
    <3>2. \A k \in Key : Got(acc')[k] = g[k]
      BY <3>1, MapOfItems DEF Got
    <3> QED BY <3>1, <3>2, MapOfSame
  <2>4. {stabilising', observed', willFire', panicked'} \subseteq BOOLEAN
    BY DEF MapiInv, MapiTypes
  <2> QED BY <1>3, <2>1, <2>2, <2>3, <2>4 DEF MapiTypes
<1>6. NodesMatchMap'
  <2>1. \A k \in Key \ nodes' : MapGet(acc', k) = None
    BY <1>2 DEF AccsRight
  <2>2. DOMAIN acc' \subseteq nodes'
    <3>1. acc' = MapOf(Got(acc'))
      BY <1>5 DEF MapiTypes
    <3>2. DOMAIN acc' = {x \in Key : Got(acc')[x] # None}
      BY <3>1, MapOfItems, Zenon
    <3>3. \A x \in Key : Got(acc')[x] = MapGet(acc', x)
      BY DEF Got
    <3> QED BY <2>1, <3>2, <3>3
  <2>3. edges' = nodes' /\ ~panicked'
    BY <1>2 DEF TablesRight
  <2> QED BY <1>4, <2>2, <2>3 DEF NodesMatchMap
<1>7. InnerRight'
  <2> SUFFICES ASSUME NEW k \in nodes' \ innerDue' PROVE inner'[k] = input[k]
    BY DEF InnerRight
  <2>1. k \in Key /\ k \notin K /\ inner'[k] = prevMap[k] /\ k \in DOMAIN input
    BY <1>2, <1>3, <1>4 DEF DueRight
  <2>2. MapGet(prevMap, k) = MapGet(input, k) /\ MapGet(input, k) # None
    BY <1>1, <1>3, <2>1
  <2> QED BY <2>1, <2>2 DEF MapGet
<1>8. MappedRight'
  BY <1>2 DEF DueRight, MappedRight, MappedValue
<1>9. AccRight' /\ ValueRight'
  BY <1>2, Zenon DEF AccsRight, AccRight, ValueRight, EntryOf
<1>10. LhsSeen' /\ WillFireUnlessObserved' /\ AllInnerRan'
  BY DEF MapiInv, LhsSeen, WillFireUnlessObserved, AllInnerRan
<1> QED BY <1>5, <1>6, <1>7, <1>8, <1>9, <1>10 DEF MapiInv

\* What the closure does, when the difference comes to `then`.
Closure(then) ==
  \/ /\ then.panicked /\ panicked' = TRUE
     /\ UNCHANGED <<prevMap, tables, values, kept, innerDue, mappedDue, acc, due, unheard>>
  \/ /\ ~then.panicked /\ prevMap' = input
     /\ nodes' = then.nodes /\ edges' = then.edges /\ above' = then.above
     /\ handles' = then.handles /\ kept' = then.kept
     /\ innerDue' = then.innerDue /\ mappedDue' = then.mappedDue
     /\ inner' = then.inner /\ mapped' = then.mapped
     /\ acc' = then.acc /\ due' = then.due /\ unheard' = then.unheard
     /\ UNCHANGED panicked

LEMMA LhsChangeFolds ==
  ASSUME MapiInv, RunLhsChange
  PROVE  \E V, M : \E now \in LhsStates(V, M) :
            /\ None \in V /\ NoValue \in M /\ AsideValues \subseteq M
            /\ now.nodes = nodes /\ now.edges = edges /\ now.above = above /\ now.handles = handles
            /\ now.innerDue = innerDue /\ now.mappedDue = mappedDue /\ now.kept = kept
            /\ now.inner = inner /\ now.mapped = mapped /\ now.acc = acc /\ now.due = due \ {"lhs"}
            /\ now.unheard = unheard /\ ~now.panicked
            /\ Closure(LhsFold(now, SymmetricDiff(prevMap, input)))
<1> DEFINE diff == SymmetricDiff(prevMap, input)
           V == {Got(acc)[k] : k \in Key} \union {None}
           M == {mapped[k] : k \in Key} \union {NoValue} \union AsideValues
           Start(answers) ==
             [nodes |-> nodes, edges |-> edges, above |-> above, handles |-> handles, kept |-> kept,
              innerDue |-> innerDue, mappedDue |-> mappedDue, inner |-> inner, mapped |-> mapped,
              acc |-> acc, due |-> due \ {"lhs"}, unheard |-> unheard, panicked |-> FALSE,
              answers |-> answers]
<1>1. PICK answers \in [NewKeys -> Answers] : Closure(LhsFold(Start(answers), diff))
  BY Zenon DEF RunLhsChange, Closure, LhsFold, AfterDiff, NewKeys
<1> DEFINE now == Start(answers)
<1>2. MapiTypes /\ nodes = DOMAIN prevMap /\ edges = nodes /\ DOMAIN acc \subseteq nodes
      /\ input \in Maps /\ prevMap \in Maps /\ outer \in Value
  BY DEF MapiInv, NodesMatchMap, MapiTypes
<1>3. now \in LhsStates(V, M)
  <2>1. acc \in MapsTo(V)
    <3>1. Got(acc) \in [Key -> V]
      BY DEF Got
    <3> HIDE DEF V
    <3> QED BY <1>2, <3>1 DEF MapiTypes, MapsTo
  <2>2. mapped \in [Key -> M]
    <3>1. \A k \in Key : mapped[k] \in M
      OBVIOUS
    <3> HIDE DEF M
    <3> QED BY <1>2, <3>1 DEF MapiTypes
  <2> HIDE DEF V, M
  <2> QED BY <1>2, <2>1, <2>2 DEF MapiTypes, LhsStates
<1>4. now.nodes = nodes /\ now.edges = edges /\ now.above = above /\ now.handles = handles
      /\ now.innerDue = innerDue /\ now.mappedDue = mappedDue /\ now.kept = kept
      /\ now.inner = inner /\ now.mapped = mapped /\ now.acc = acc /\ now.due = due \ {"lhs"}
      /\ now.unheard = unheard /\ ~now.panicked
  OBVIOUS
<1>5. None \in V /\ NoValue \in M /\ AsideValues \subseteq M
  OBVIOUS
<1> HIDE DEF now, V, M
<1> QED BY <1>1, <1>3, <1>4, <1>5, Zenon DEF now

LEMMA LhsChangeKeeps == ASSUME MapiInv, RunLhsChange PROVE MapiInv'
<1> DEFINE diff == SymmetricDiff(prevMap, input)
           K == ChangedKeys(prevMap, input)
<1>1. PICK V, M : \E now \in LhsStates(V, M) :
              /\ None \in V /\ NoValue \in M /\ AsideValues \subseteq M
              /\ now.nodes = nodes /\ now.edges = edges /\ now.above = above /\ now.handles = handles
              /\ now.innerDue = innerDue /\ now.mappedDue = mappedDue /\ now.kept = kept
              /\ now.inner = inner /\ now.mapped = mapped /\ now.acc = acc /\ now.due = due \ {"lhs"}
              /\ now.unheard = unheard /\ ~now.panicked
              /\ Closure(LhsFold(now, SymmetricDiff(prevMap, input)))
  BY LhsChangeFolds
<1>2. /\ stabilising /\ ~panicked
      /\ input' = input /\ outer' = outer /\ stabilising' = stabilising /\ observed' = observed
      /\ value' = value /\ willFire' = willFire
  BY DEF RunLhsChange
<1>3. MapiTypes /\ nodes = DOMAIN prevMap /\ edges = nodes /\ DOMAIN acc \subseteq nodes
      /\ input \in Maps /\ prevMap \in Maps /\ outer \in Value
  BY DEF MapiInv, NodesMatchMap, MapiTypes
<1>4. PICK now \in LhsStates(V, M) :
            /\ None \in V /\ NoValue \in M /\ AsideValues \subseteq M
            /\ now.nodes = nodes /\ now.edges = edges /\ now.above = above /\ now.handles = handles
            /\ now.innerDue = innerDue /\ now.mappedDue = mappedDue /\ now.kept = kept
            /\ now.inner = inner /\ now.mapped = mapped /\ now.acc = acc /\ now.due = due \ {"lhs"}
            /\ now.unheard = unheard /\ ~now.panicked
            /\ Closure(LhsFold(now, SymmetricDiff(prevMap, input)))
  BY <1>1
<1> DEFINE then == LhsFold(now, diff)
<1>5. now.nodes = nodes /\ now.edges = edges /\ now.above = above /\ now.handles = handles
      /\ now.innerDue = innerDue /\ now.mappedDue = mappedDue /\ now.kept = kept
      /\ now.inner = inner /\ now.mapped = mapped /\ now.acc = acc /\ now.due = due \ {"lhs"}
      /\ now.unheard = unheard /\ ~now.panicked
  BY <1>4
<1>6. None \in V /\ NoValue \in M /\ AsideValues \subseteq M
  BY <1>4
<1>7. Partway(now, {})
  <2>1. TablesRight(now, {})
    BY <1>3, <1>5, MapFacts DEF TablesRight, Entry, MapGet, MapiTypes
  <2>2. DueRight(now, {})
    BY <1>3, <1>5 DEF MapiInv, MapiTypes, InnerRight, MappedRight, MappedValue, DueRight
  <2>3. AccsRight(now)
    <3>1. \A k \in Key \ nodes : MapGet(acc, k) = None
      BY <1>3 DEF MapGet
    <3>2. AccRight /\ ValueRight
      BY DEF MapiInv
    <3> QED BY <1>3, <1>5, <3>1, <3>2 DEF AccRight, ValueRight, AccsRight, MapiTypes
  <2> QED BY <1>5, <2>1, <2>2, <2>3 DEF Partway
<1>8. then \in LhsStates(V, M) /\ Partway(then, K)
  BY <1>3, <1>6, <1>7, LhsFolded
<1>9. CASE then.panicked
  <2>1. /\ panicked' = TRUE
        /\ UNCHANGED <<prevMap, tables, values, kept, innerDue, mappedDue, acc, due, unheard>>
    BY <1>4, <1>9 DEF Closure
  <2>2. LetGo
    BY <1>8, <1>9 DEF Partway
  <2> QED BY <1>2, <2>1, <2>2, PanicKeeps
<1>10. CASE ~then.panicked
  <2>1. /\ nodes' = then.nodes /\ edges' = then.edges /\ above' = then.above
        /\ handles' = then.handles /\ kept' = then.kept
        /\ innerDue' = then.innerDue /\ mappedDue' = then.mappedDue
        /\ inner' = then.inner /\ mapped' = then.mapped /\ acc' = then.acc /\ due' = then.due
        /\ unheard' = then.unheard /\ prevMap' = input /\ panicked' = panicked
    BY <1>4, <1>10 DEF Closure
  <2>2. TablesRight(then, K) /\ DueRight(then, K) /\ AccsRight(then)
    BY <1>8, <1>10 DEF Partway
  <2> HIDE DEF then
  <2> QED BY <1>2, <1>3, <1>8, <2>1, <2>2, ReturnKeepsMapi
<1> QED BY <1>9, <1>10

-----------------------------------------------------------------------------
(***************************************************************************)
(* The result, when all callbacks are called.                              *)
(***************************************************************************)
LEMMA ListedSet ==
  \A K \in SUBSET Key :
    /\ SetToSeq(K) \in Seq(K) /\ Len(SetToSeq(K)) = Cardinality(K)
    /\ SetToSeq(K) \in [1 .. Cardinality(K) -> K] /\ Once(SetToSeq(K), Cardinality(K))
    /\ \A k \in K : \E i \in 1 .. Cardinality(K) : SetToSeq(K)[i] = k
<1> SUFFICES ASSUME NEW K \in SUBSET Key
             PROVE  /\ SetToSeq(K) \in Seq(K) /\ Len(SetToSeq(K)) = Cardinality(K)
                    /\ SetToSeq(K) \in [1 .. Cardinality(K) -> K] /\ Once(SetToSeq(K), Cardinality(K))
                    /\ \A k \in K : \E i \in 1 .. Cardinality(K) : SetToSeq(K)[i] = k
  OBVIOUS
<1> DEFINE n == Cardinality(K)
           s == SetToSeq(K)
<1>1. n \in Nat /\ IsFiniteSet(K)
  BY KeysAreFinite
<1>2. s \in [1 .. n -> K] /\ IsInjective(s)
  <2>1. PICK u \in [1 .. n -> K] : Increasing(u)
    BY IncreasingExists
  <2>2. \A i \in 1 .. n : u[i] \in Nat
    BY KeyAssumption
  <2>3. IsInjective(u)
    BY <1>1, <2>1, <2>2 DEF IsInjective, Increasing
  <2> QED BY <2>1, <2>3, Zenon DEF SetToSeq
<1> HIDE DEF s, n
<1>3. s \in Seq(K) /\ Len(s) = n
  BY <1>1, <1>2
<1>4. Once(s, n)
  BY <1>1, <1>2 DEF Once, IsInjective
<1>5. s \in Surjection(1 .. n, K)
  <2>1. IsFiniteSet(1 .. n) /\ Cardinality(1 .. n) = n
    BY <1>1, FS_Interval
  <2>2. s \in Injection(1 .. n, K)
    BY <1>2 DEF Injection
  <2> QED BY <1>1, <2>1, <2>2, FS_Injection DEF n
<1>6. \A k \in K : \E i \in 1 .. n : s[i] = k
  BY <1>5 DEF Surjection
<1> QED BY <1>2, <1>3, <1>4, <1>6, Zenon DEF s, n

LEMMA ResultFolded ==
  ASSUME acc = MapOf(Got(acc)), nodes \in SUBSET Key
  PROVE  \E g : /\ ResultFold(acc, SetToSeq(nodes)) = MapOf(g)
                /\ \A k \in Key : g[k] = IF k \in nodes THEN mapped[k] ELSE MapGet(acc, k)
<1> DEFINE seq == SetToSeq(nodes)
           n == Cardinality(nodes)
           g0 == Got(acc)
           g1 == [k \in Key |-> IF k \in nodes THEN mapped[k] ELSE MapGet(acc, k)]
           V == {Got(acc)[k] : k \in Key} \union {mapped[k] : k \in nodes}
           S == MapsTo(V)
<1>1. n \in Nat /\ seq \in Seq(nodes) /\ Len(seq) = n /\ seq \in [1 .. n -> nodes] /\ Once(seq, n)
      /\ \A k \in nodes : \E i \in 1 .. n : seq[i] = k
  BY ListedSet, KeysAreFinite
<1>2. acc \in S
  <2>1. Got(acc) \in [Key -> V]
    BY Zenon DEF Got
  <2> HIDE DEF V
  <2> QED BY <2>1 DEF MapsTo
<1>3. ResultClosed(S, nodes)
  <2> SUFFICES ASSUME NEW m \in S, NEW k \in nodes PROVE OnInnerChange(m, k, mapped[k]) \in S
    BY DEF ResultClosed
  <2>1. mapped[k] \in V /\ k \in Key
    OBVIOUS
  <2> HIDE DEF V
  <2> QED BY <2>1, PatchClosed
<1>4. \A k \in Key : /\ g0[k] = MapGet(acc, k)
                     /\ g1[k] = IF k \in nodes THEN mapped[k] ELSE MapGet(acc, k)
  BY DEF Got
<1> HIDE DEF seq, n, g0, g1, V, S
<1>5. PICK f \in [0 .. n -> S] :
        /\ f[0] = acc /\ f[n] = ResultFold(acc, seq)
        /\ \A i \in 1 .. n : f[i] = OnInnerChange(f[i - 1], seq[i], mapped[seq[i]])
  <2> DEFINE base == acc
             E == nodes
  <2>1. base \in S /\ seq \in Seq(E) /\ ResultClosed(S, E)
    BY <1>1, <1>2, <1>3
  <2> HIDE DEF base, E
  <2>2. \E f \in [0 .. Len(seq) -> S] :
          /\ f[0] = base /\ f[Len(seq)] = ResultFold(base, seq)
          /\ \A i \in 1 .. Len(seq) : f[i] = OnInnerChange(f[i - 1], seq[i], mapped[seq[i]])
    BY <2>1, ResultLoop
  <2> QED BY <1>1, <2>2, Zenon DEF base
<1>6. \A i \in 1 .. n : seq[i] \in nodes /\ seq[i] \in Key
  BY <1>1
<1>7. Patches(f, n, seq, g1)
  <2>1. \A i \in 1 .. n : mapped[seq[i]] = g1[seq[i]]
    BY <1>4, <1>6
  <2> QED BY <1>5, <2>1, Zenon DEF Patches, InsertIfSome, OnInnerChange
<1>8. SameElsewhere(n, seq, g0, g1)
  BY <1>1, <1>4 DEF SameElsewhere
<1>9. f[n] = MapOf(g1)
  <2>1. seq \in [1 .. n -> Key]
    BY <1>1
  <2>2. PatchesEach(f, n, seq, g0, g1)
    BY <1>1, <1>7, <2>1, PatchSimply
  <2>3. f[0] = MapOf(g0)
    BY <1>5, Zenon DEF g0
  <2> QED BY <1>1, <1>8, <2>1, <2>2, <2>3, PatchAll
<1> QED BY <1>4, <1>5, <1>9, Zenon DEF seq

LEMMA ResultKeeps == ASSUME MapiInv, RunResult PROVE MapiInv'
<1>1. /\ stabilising /\ observed /\ "result" \in due
      /\ edges \intersect (InnerDueBelow \union mappedDue) = {}
      /\ acc' = IF willFire THEN ResultFold(acc, SetToSeq(edges)) ELSE acc
      /\ unheard' = IF willFire THEN {} ELSE unheard
      /\ value' = acc' /\ due' = due \ {"result"} /\ willFire' = FALSE
      /\ input' = input /\ outer' = outer /\ stabilising' = stabilising /\ observed' = observed
      /\ kept' = kept /\ prevMap' = prevMap /\ nodes' = nodes /\ edges' = edges /\ above' = above
      /\ handles' = handles /\ inner' = inner /\ mapped' = mapped
      /\ innerDue' = innerDue /\ mappedDue' = mappedDue /\ panicked' = panicked
  BY Zenon DEF RunResult, ResultFold, tables, values
<1>2. MapiTypes /\ acc = MapOf(Got(acc)) /\ nodes \in SUBSET Key /\ edges = nodes
      /\ nodes = DOMAIN prevMap /\ DOMAIN acc \subseteq nodes
      /\ unheard \subseteq nodes /\ above \subseteq nodes
  BY DEF MapiInv, MapiTypes, NodesMatchMap
<1>3. \A k \in nodes : mapped[k] # NoValue
  <2> SUFFICES ASSUME NEW k \in nodes PROVE mapped[k] # NoValue
    OBVIOUS
  <2>1. k \notin mappedDue /\ k \in Key /\ outer \in Value
    BY <1>1, <1>2 DEF MapiTypes
  <2>2. mapped[k] = MappedValue(k)
    BY <2>1 DEF MapiInv, MappedRight
  <2>3. CASE k \in above
    <3>1. k \notin innerDue
      BY <1>1, <1>2, <2>3 DEF InnerDueBelow
    <3>2. inner[k] = prevMap[k]
      BY <3>1 DEF MapiInv, InnerRight
    <3>3. prevMap[k] \in Value
      BY <1>2, MapFacts DEF MapiTypes
    <3> QED BY <2>1, <2>2, <2>3, <3>2, <3>3, NoValueAssumption DEF MappedValue
  <2>4. CASE k \notin above
    BY <2>1, <2>2, <2>4, NoValueAssumption DEF MappedValue
  <2> QED BY <2>3, <2>4
<1>4. \E g : /\ acc' = MapOf(g)
             /\ \A k \in Key : g[k] = IF k \in nodes \ unheard' THEN mapped[k] ELSE None
  <2>1. CASE willFire
    <3>1. PICK g : /\ acc' = MapOf(g)
                   /\ \A k \in Key : g[k] = IF k \in nodes THEN mapped[k] ELSE MapGet(acc, k)
      BY <1>1, <1>2, <2>1, ResultFolded, Zenon
    <3>2. \A k \in Key : k \notin nodes => MapGet(acc, k) = None
      BY <1>2 DEF MapGet
    <3>3. unheard' = {}
      BY <1>1, <2>1
    <3> QED BY <3>1, <3>2, <3>3
  <2>2. CASE ~willFire
    <3>1. \A k \in nodes \ unheard : MapGet(acc, k) = mapped[k]
      BY <1>3, <2>2 DEF MapiInv, AccRight, EntryOf
    <3>2. \A k \in Key : k \notin nodes => MapGet(acc, k) = None
      BY <1>2 DEF MapGet
    <3>3. \A k \in unheard : MapGet(acc, k) = None
      BY DEF MapiInv, AccRight
    <3>4. unheard' = unheard /\ acc' = acc
      BY <1>1, <2>2
    <3>5. \A k \in Key : Got(acc)[k] = IF k \in nodes \ unheard' THEN mapped[k] ELSE None
      BY <3>1, <3>2, <3>3, <3>4 DEF Got
    <3> QED BY <1>2, <3>4, <3>5, Zenon
  <2> QED BY <2>1, <2>2
<1>5. PICK g : /\ acc' = MapOf(g)
               /\ \A k \in Key : g[k] = IF k \in nodes \ unheard' THEN mapped[k] ELSE None
  BY <1>4
<1>6. DOMAIN acc' \subseteq nodes /\ \A k \in Key : Got(acc')[k] = g[k] /\ MapGet(acc', k) = g[k]
  BY <1>5, MapOfItems DEF Got
<1>7. acc' = MapOf(Got(acc'))
  BY <1>5, <1>6, MapOfSame
<1>8. unheard' \subseteq nodes
  BY <1>1, <1>2
<1>9. MapiTypes'
  BY <1>1, <1>2, <1>7, <1>8 DEF MapiTypes
<1>10. NodesMatchMap'
  BY <1>1, <1>2, <1>6 DEF MapiInv, NodesMatchMap
<1>11. AccRight'
  BY <1>1, <1>2, <1>3, <1>5, <1>6, <1>8 DEF AccRight, EntryOf
<1>12. ValueRight'
  BY <1>1 DEF ValueRight
<1>13. LhsSeen' /\ InnerRight' /\ MappedRight' /\ WillFireUnlessObserved' /\ AllInnerRan'
  BY <1>1 DEF MapiInv, LhsSeen, InnerRight, MappedRight, MappedValue, WillFireUnlessObserved, AllInnerRan
<1> QED BY <1>9, <1>10, <1>11, <1>12, <1>13 DEF MapiInv

-----------------------------------------------------------------------------
(***************************************************************************)
(* The other steps, and the theorems.                                      *)
(***************************************************************************)
LEMMA InnerKeeps == ASSUME MapiInv, NEW k \in Key, RunInner(k) PROVE MapiInv'
<1>1. /\ stabilising /\ k \in innerDue
      /\ inner' = [inner EXCEPT ![k] = prevMap[k]]
      /\ innerDue' = innerDue \ {k}
      /\ mappedDue' = IF inner'[k] # inner[k] THEN mappedDue \union {k} ELSE mappedDue
      /\ input' = input /\ outer' = outer /\ stabilising' = stabilising /\ observed' = observed
      /\ kept' = kept /\ prevMap' = prevMap /\ nodes' = nodes /\ edges' = edges /\ above' = above
      /\ handles' = handles /\ mapped' = mapped /\ acc' = acc
      /\ value' = value /\ due' = due /\ willFire' = willFire /\ panicked' = panicked
      /\ unheard' = unheard
  BY Zenon DEF RunInner, InnerDueBelow, tables
<1>2. MapiTypes /\ nodes = DOMAIN prevMap /\ DOMAIN acc \subseteq nodes /\ k \in nodes
      /\ inner \in [Key -> Value \union {NoValue}] /\ nodes \subseteq Key
  BY <1>1 DEF MapiInv, MapiTypes, NodesMatchMap
<1>3. prevMap[k] \in Value
  BY <1>1, <1>2, MapFacts DEF MapiTypes
<1>4. inner' \in [Key -> Value \union {NoValue}] /\ inner'[k] = prevMap[k]
      /\ \A x \in Key \ {k} : inner'[x] = inner[x]
  BY <1>1, <1>2, <1>3
<1>5. MapiTypes'
  BY <1>1, <1>2, <1>4, Zenon DEF MapiTypes
<1>6. InnerRight'
  BY <1>1, <1>2, <1>4 DEF MapiInv, InnerRight
<1>7. MappedRight'
  BY <1>1, <1>2, <1>3, <1>4, NoValueAssumption DEF MapiInv, MappedRight, MappedValue
<1>8. NodesMatchMap' /\ LhsSeen' /\ WillFireUnlessObserved' /\ AccRight' /\ ValueRight' /\ AllInnerRan'
  BY <1>1 DEF MapiInv, NodesMatchMap, LhsSeen, WillFireUnlessObserved, AccRight, ValueRight, AllInnerRan
<1> QED BY <1>5, <1>6, <1>7, <1>8 DEF MapiInv

LEMMA MappedKeeps == ASSUME MapiInv, NEW k \in Key, RunMapped(k) PROVE MapiInv'
<1> DEFINE v == MappedValue(k)
<1>1. /\ stabilising /\ k \in mappedDue /\ (k \in above => k \notin innerDue)
      /\ mapped' = [mapped EXCEPT ![k] = v]
      /\ v = mapped[k] => acc' = acc /\ due' = due /\ unheard' = unheard
      /\ v # mapped[k] => /\ acc' = IF observed /\ ~willFire THEN OnInnerChange(acc, k, v) ELSE acc
                          /\ unheard' = IF observed /\ ~willFire THEN unheard \ {k} ELSE unheard
                          /\ due' = due \union {"result"}
      /\ mappedDue' = mappedDue \ {k}
      /\ input' = input /\ outer' = outer /\ stabilising' = stabilising /\ observed' = observed
      /\ kept' = kept /\ prevMap' = prevMap /\ nodes' = nodes /\ edges' = edges /\ above' = above
      /\ handles' = handles /\ inner' = inner
      /\ value' = value /\ innerDue' = innerDue /\ willFire' = willFire /\ panicked' = panicked
  BY Zenon DEF RunMapped, tables
<1>2. MapiTypes /\ nodes = DOMAIN prevMap /\ DOMAIN acc \subseteq nodes /\ nodes \subseteq Key
      /\ mapped = [x \in Key |-> mapped[x]] /\ acc = MapOf(Got(acc)) /\ due \subseteq {"lhs", "result"}
      /\ k \in nodes /\ unheard \subseteq nodes /\ outer \in Value
  BY <1>1 DEF MapiInv, MapiTypes, NodesMatchMap
<1>3. k \in above => inner[k] \in Value
  <2>1. prevMap[k] \in Value
    BY <1>2, MapFacts DEF MapiTypes
  <2>2. k \in above => inner[k] = prevMap[k]
    BY <1>1, <1>2 DEF MapiInv, InnerRight
  <2> QED BY <2>1, <2>2
<1>4. v # NoValue /\ (k \in above => inner[k] # NoValue)
  BY <1>2, <1>3, NoValueAssumption DEF MappedValue
<1>5. /\ mapped' = [x \in Key |-> mapped'[x]] /\ mapped'[k] = v
      /\ \A x \in Key \ {k} : mapped'[x] = mapped[x]
  BY <1>1, <1>2
<1>6. MappedRight'
  BY <1>1, <1>2, <1>4, <1>5 DEF MapiInv, MappedRight, MappedValue
<1> HIDE DEF v
<1>7. OnInnerChange(acc, k, v) = MapOf([Got(acc) EXCEPT ![k] = v])
  <2> DEFINE g == Got(acc)
  <2>1. g = [x \in Key |-> g[x]]
    BY DEF Got
  <2>2. acc = MapOf(g)
    BY <1>2
  <2> HIDE DEF g
  <2>3. OnInnerChange(MapOf(g), k, v) = MapOf([g EXCEPT ![k] = v])
    BY <2>1, PatchOne
  <2> QED BY <2>2, <2>3, Zenon DEF g
<1>8. \E g : /\ acc' = MapOf(g) /\ \A x \in Key \ {k} : g[x] = MapGet(acc, x)
             /\ g[k] = IF v # mapped[k] /\ observed /\ ~willFire THEN v ELSE MapGet(acc, k)
  <2>1. \A x \in Key : Got(acc)[x] = MapGet(acc, x)
    BY DEF Got
  <2>2. CASE v # mapped[k] /\ observed /\ ~willFire
    <3> DEFINE g == [Got(acc) EXCEPT ![k] = v]
    <3>1. g[k] = v /\ \A x \in Key \ {k} : g[x] = MapGet(acc, x)
      BY <2>1 DEF Got
    <3>2. acc' = MapOf(g)
      BY <1>1, <1>7, <2>2, Zenon
    <3> QED BY <2>2, <3>1, <3>2, Zenon
  <2>3. CASE ~(v # mapped[k] /\ observed /\ ~willFire)
    <3>1. acc' = acc
      BY <1>1, <2>3
    <3> QED BY <1>2, <2>1, <2>3, <3>1, Zenon
  <2> QED BY <2>2, <2>3
<1>9. PICK g : /\ acc' = MapOf(g) /\ \A x \in Key \ {k} : g[x] = MapGet(acc, x)
               /\ g[k] = IF v # mapped[k] /\ observed /\ ~willFire THEN v ELSE MapGet(acc, k)
  BY <1>8
<1>10. DOMAIN acc' = {x \in Key : g[x] # None}
       /\ \A x \in Key : Got(acc')[x] = g[x] /\ MapGet(acc', x) = g[x]
  BY <1>9, MapOfItems DEF Got
<1>11. acc' = MapOf(Got(acc'))
  BY <1>9, <1>10, MapOfSame
<1>12. MapiTypes'
  <2>1. due' \subseteq {"lhs", "result"} /\ mappedDue' \subseteq nodes /\ unheard' \subseteq nodes
    BY <1>1, <1>2 DEF MapiTypes
  <2> QED BY <1>1, <1>2, <1>5, <1>11, <2>1, Zenon DEF MapiTypes
<1>13. NodesMatchMap'
  <2>1. DOMAIN acc' \subseteq nodes
    BY <1>1, <1>2, <1>9, <1>10 DEF MapGet
  <2> QED BY <1>1, <2>1 DEF MapiInv, NodesMatchMap
<1>14. AccRight'
  <2>1. ASSUME "result" \notin due' \/ ~willFire', NEW x \in nodes \ unheard'
        PROVE  MapGet(acc', x) = EntryOf(mapped'[x])
    <3>1. "result" \notin due \/ ~willFire
      BY <1>1, <2>1
    <3>2. x \in Key /\ x \in nodes
      BY <1>2
    <3>3. CASE x # k
      <4>1. x \notin unheard
        BY <1>1, <2>1, <3>3
      <4>2. MapGet(acc, x) = EntryOf(mapped[x])
        BY <3>1, <3>2, <4>1 DEF MapiInv, AccRight
      <4> QED BY <1>5, <1>9, <1>10, <3>2, <3>3, <4>2
    <3>4. CASE x = k /\ v = mapped[k]
      <4>1. x \notin unheard
        BY <1>1, <2>1, <3>4
      <4>2. MapGet(acc, x) = EntryOf(mapped[x])
        BY <3>1, <3>2, <4>1 DEF MapiInv, AccRight
      <4> QED BY <1>5, <1>9, <1>10, <3>2, <3>4, <4>2
    <3>5. CASE x = k /\ v # mapped[k]
      <4>1. ~willFire /\ observed
        BY <1>1, <2>1, <3>5 DEF MapiInv, WillFireUnlessObserved
      <4>2. MapGet(acc', x) = v /\ mapped'[x] = v
        BY <1>5, <1>9, <1>10, <3>2, <3>5, <4>1
      <4> QED BY <1>4, <4>2 DEF EntryOf
    <3> QED BY <3>3, <3>4, <3>5
  <2>2. ASSUME NEW x \in unheard' PROVE MapGet(acc', x) = None
    <3>1. x \in unheard /\ x \in Key
      BY <1>1, <1>2, <2>2
    <3>2. MapGet(acc, x) = None
      BY <3>1 DEF MapiInv, AccRight
    <3>3. x = k => ~(v # mapped[k] /\ observed /\ ~willFire)
      BY <1>1, <2>2
    <3> QED BY <1>9, <1>10, <3>1, <3>2, <3>3
  <2> QED BY <1>1, <2>1, <2>2 DEF AccRight
<1>15. ValueRight'
  BY <1>1 DEF MapiInv, ValueRight
<1>16. LhsSeen' /\ InnerRight' /\ WillFireUnlessObserved' /\ AllInnerRan'
  BY <1>1 DEF MapiInv, LhsSeen, InnerRight, WillFireUnlessObserved, AllInnerRan
<1> QED BY <1>6, <1>12, <1>13, <1>14, <1>15, <1>16 DEF MapiInv

LEMMA InputKeeps == ASSUME MapiInv, SetInput \/ SetOuter PROVE MapiInv'
<1>1. CASE SetInput
  <2>1. /\ input' \in Maps /\ due' = due \union {"lhs"} /\ ~stabilising
        /\ outer' = outer /\ stabilising' = stabilising /\ observed' = observed
        /\ kept' = kept /\ prevMap' = prevMap /\ nodes' = nodes /\ edges' = edges /\ above' = above
        /\ handles' = handles /\ inner' = inner /\ mapped' = mapped
        /\ acc' = acc /\ value' = value /\ innerDue' = innerDue /\ mappedDue' = mappedDue
        /\ willFire' = willFire /\ panicked' = panicked /\ unheard' = unheard
    BY <1>1 DEF SetInput, tables, values
  <2>2. MapiTypes'
    BY <2>1 DEF MapiInv, MapiTypes
  <2> QED BY <2>1, <2>2 DEF MapiInv, NodesMatchMap, LhsSeen, InnerRight, MappedRight, MappedValue,
             WillFireUnlessObserved, AccRight, ValueRight, AllInnerRan, InnerDueBelow
<1>2. CASE SetOuter
  <2>1. /\ outer' \in Value /\ mappedDue' = nodes /\ ~stabilising
        /\ input' = input /\ stabilising' = stabilising /\ observed' = observed
        /\ kept' = kept /\ prevMap' = prevMap /\ nodes' = nodes /\ edges' = edges /\ above' = above
        /\ handles' = handles /\ inner' = inner /\ mapped' = mapped
        /\ acc' = acc /\ value' = value /\ innerDue' = innerDue /\ due' = due /\ willFire' = willFire
        /\ panicked' = panicked /\ unheard' = unheard
    BY <1>2 DEF SetOuter, tables, values
  <2>2. MapiTypes'
    BY <2>1 DEF MapiInv, MapiTypes
  <2> QED BY <2>1, <2>2 DEF MapiInv, NodesMatchMap, LhsSeen, InnerRight, MappedRight,
             WillFireUnlessObserved, AccRight, ValueRight, AllInnerRan, InnerDueBelow
<1> QED BY <1>1, <1>2

LEMMA BoundaryKeeps == ASSUME MapiInv, StabiliseStart \/ StabiliseEnd PROVE MapiInv'
<1>1. CASE StabiliseStart
  <2>1. /\ stabilising' = TRUE /\ observed' \in BOOLEAN /\ kept' \subseteq nodes
        /\ handles' \subseteq handles
        /\ willFire' = (willFire \/ (observed /\ ~observed'))
        /\ input' = input /\ outer' = outer
        /\ prevMap' = prevMap /\ nodes' = nodes /\ edges' = edges /\ above' = above
        /\ inner' = inner /\ mapped' = mapped /\ panicked' = panicked /\ unheard' = unheard
        /\ acc' = acc /\ value' = value /\ due' = due /\ innerDue' = innerDue /\ mappedDue' = mappedDue
    BY <1>1 DEF StabiliseStart, values
  <2>2. MapiTypes'
    BY <2>1 DEF MapiInv, MapiTypes
  <2> QED BY <2>1, <2>2 DEF MapiInv, NodesMatchMap, LhsSeen, InnerRight, MappedRight, MappedValue,
             WillFireUnlessObserved, AccRight, ValueRight, AllInnerRan
<1>2. CASE StabiliseEnd
  <2>1. /\ \A k \in InnerDueBelow \union mappedDue : ~KeyNecessary(k)
        /\ stabilising' = FALSE /\ observed' = observed
        /\ kept' = kept /\ willFire' = willFire /\ input' = input /\ outer' = outer
        /\ prevMap' = prevMap /\ nodes' = nodes /\ edges' = edges /\ above' = above
        /\ handles' = handles /\ inner' = inner /\ mapped' = mapped
        /\ panicked' = panicked /\ unheard' = unheard
        /\ acc' = acc /\ value' = value /\ due' = due /\ innerDue' = innerDue /\ mappedDue' = mappedDue
    BY <1>2 DEF StabiliseEnd, tables, values
  <2>2. AllInnerRan'
    BY <2>1 DEF MapiInv, MapiTypes, NodesMatchMap, KeyNecessary, AllInnerRan, InnerDueBelow
  <2>3. MapiTypes'
    BY <2>1 DEF MapiInv, MapiTypes
  <2> QED BY <2>1, <2>2, <2>3 DEF MapiInv, NodesMatchMap, LhsSeen, InnerRight, MappedRight, MappedValue,
             WillFireUnlessObserved, AccRight, ValueRight
<1> QED BY <1>1, <1>2

LEMMA MapiUnchanged == ASSUME MapiInv, UNCHANGED mapiVars PROVE MapiInv'
<1>1. /\ outer' = outer /\ stabilising' = stabilising /\ observed' = observed /\ input' = input
      /\ kept' = kept /\ prevMap' = prevMap /\ nodes' = nodes /\ edges' = edges /\ above' = above
      /\ handles' = handles /\ inner' = inner /\ mapped' = mapped
      /\ acc' = acc /\ value' = value /\ due' = due /\ innerDue' = innerDue /\ mappedDue' = mappedDue
      /\ willFire' = willFire /\ panicked' = panicked /\ unheard' = unheard
  BY DEF mapiVars, tables, values
<1> QED BY <1>1 DEF MapiInv, MapiTypes, Got, NodesMatchMap, LhsSeen, InnerRight, MappedRight,
           MappedValue, WillFireUnlessObserved, AccRight, ValueRight, AllInnerRan, InnerDueBelow

LEMMA NextKeepsMapiInv == ASSUME MapiInv, [Next]_vars PROVE MapiInv'
<1>1. ASSUME MapiNext PROVE MapiInv'
  <2>1. CASE StabiliseStart \/ StabiliseEnd
    BY <2>1, BoundaryKeeps
  <2> QED BY <1>1, <2>1, InputKeeps, LhsChangeKeeps, ResultKeeps, InnerKeeps, MappedKeeps,
             MapiUnchanged DEF MapiNext
<1> QED BY <1>1, MapiUnchanged DEF Next, vars

(* A key's nodes, and the entry of the result, are right whenever they are *)
(* not due, for any keys, values and any function of the user: its nodes   *)
(* may hold their argument or not, and be new or made earlier.  Only of a  *)
(* node that the result was not told of is there no entry.                 *)
THEOREM NodesThatAreNotDueAreRight == Spec => []MapiInv
<1>1. Init => MapiInv
  BY MapiStarts
<1>2. MapiInv /\ [Next]_vars => MapiInv'
  BY NextKeepsMapiInv
<1> QED BY <1>1, <1>2, PTL DEF Spec

(* Every variable of both kinds of operators stays in its type; a kept     *)
(* key, and one whose nodes are due, has nodes.                            *)
THEOREM TypesOfMapOperators == Spec => []TypeOK
<1>1. MapInv /\ MapiInv => TypeOK
  BY Zenon DEF MapInv, MapTypes, MapiInv, MapiTypes, NodesMatchMap, TypeOK
<1> QED BY <1>1, NodesRememberTheirInputs, NodesThatAreNotDueAreRight, PTL

(* prev_nodes, prev_map and the result's edges are about the same keys,    *)
(* and the closure of lhs_change fails to upgrade a weak reference only if *)
(* the user's function returned a node that does not hold its argument and *)
(* nobody else does.                                                       *)
THEOREM ClosuresFindTheirNodes == Spec => []NodesMatchMap
<1>1. MapiInv => NodesMatchMap
  BY DEF MapiInv
<1> QED BY <1>1, NodesThatAreNotDueAreRight, PTL

\* When all nodes are settled, what the result has for each key.
LEMMA SettledResult ==
  ASSUME MapiInv, ~stabilising, observed, due = {}, mappedDue = {}
  PROVE  /\ value = Restrict(MappedReference, DOMAIN MappedReference \ unheard)
         /\ nodes = DOMAIN input
<1>1. /\ InnerDueBelow = {} /\ prevMap = input /\ nodes = DOMAIN input /\ DOMAIN acc \subseteq nodes
      /\ value = acc /\ acc = MapOf(Got(acc)) /\ input \in Maps /\ outer \in Value
      /\ unheard \subseteq nodes
  BY DEF MapiInv, MapiTypes, AllInnerRan, LhsSeen, NodesMatchMap, ValueRight
<1>2. \A k \in DOMAIN input : k \in Key /\ input[k] \in Value
  BY <1>1, MapFacts
<1>3. \A k \in Key : Got(acc)[k] = MapGet(acc, k)
  BY DEF Got
<1>4. ASSUME NEW k \in nodes PROVE mapped[k] = MappedNow(k) /\ mapped[k] # NoValue
  <2>1. mapped[k] = MappedValue(k) /\ k \in Key /\ input[k] \in Value
    BY <1>1, <1>2 DEF MapiInv, MappedRight
  <2>2. CASE k \in above
    <3>1. inner[k] = input[k]
      BY <1>1, <2>2 DEF MapiInv, InnerRight, InnerDueBelow
    <3> QED BY <1>1, <2>1, <2>2, <3>1, NoValueAssumption DEF MappedValue, MappedNow
  <2>3. CASE k \notin above
    BY <1>1, <2>1, <2>3, NoValueAssumption DEF MappedValue, MappedNow
  <2> QED BY <2>2, <2>3
<1>5. \A k \in nodes \ unheard : Got(acc)[k] = MappedNow(k)
  BY <1>1, <1>2, <1>3, <1>4 DEF MapiInv, AccRight, EntryOf
<1>6. \A k \in Key : k \notin nodes \ unheard => Got(acc)[k] = None
  BY <1>1, <1>3 DEF MapiInv, AccRight, MapGet
<1> DEFINE D == {x \in Key : Got(acc)[x] # None}
           R == {x \in DOMAIN input : MappedNow(x) # None}
<1>7. R \ unheard = D
  BY <1>1, <1>2, <1>5, <1>6
<1>8. \A k \in D : Got(acc)[k] = MappedNow(k) /\ k \in R
  BY <1>5, <1>6, <1>7
<1>9. acc = [k \in D |-> Got(acc)[k]]
  BY <1>1, Zenon DEF MapOf
<1>10. MappedReference = [k \in R |-> MappedNow(k)]
  BY DEF MappedReference
<1> HIDE DEF D, R
<1>11. [k \in D |-> Got(acc)[k]] = [k \in D |-> MappedReference[k]]
  BY <1>8, <1>10
<1>12. DOMAIN MappedReference = R
  BY <1>10
<1> QED BY <1>1, <1>7, <1>9, <1>11, <1>12, Zenon DEF Restrict

(* After any history of inputs, of observers that come and go and of       *)
(* invalidated nodes, and for any function of the user, the result has the *)
(* present value of every node that the function returned, except of those *)
(* that had theirs when the observed result was made to depend on them.    *)
THEOREM ResultIsTheWholeMapMapped == Spec => []ResultIsMapped
<1>1. MapiInv => ResultIsMapped
  BY SettledResult DEF ResultIsMapped
<1> QED BY <1>1, NodesThatAreNotDueAreRight, PTL

-----------------------------------------------------------------------------
(***************************************************************************)
(* What a user may rely on whose function returns nothing but new nodes    *)
(* above its argument, as in benches/shares_per_symbol.rs.                 *)
(***************************************************************************)
AllAbove == nodes \subseteq above /\ unheard = {}
AnswersAbove == \A a \in Answers : a.above

LEMMA AboveFolded ==
  ASSUME NEW V, NEW M, NEW now \in LhsStates(V, M), None \in V, NoValue \in M,
         AsideValues \subseteq M, prevMap \in Maps, input \in Maps, AnswersAbove,
         now.nodes \subseteq now.above, now.unheard = {}
  PROVE  LET then == LhsFold(now, SymmetricDiff(prevMap, input))
         IN  then.nodes \subseteq then.above /\ then.unheard = {}
<1> DEFINE diff == SymmetricDiff(prevMap, input)
           E == Elements(prevMap, input)
           S == {s \in LhsStates(V, M) : s.nodes \subseteq s.above /\ s.unheard = {}}
<1>1. LhsClosed(LhsStates(V, M), E)
  BY LhsStepsClosed
<1>2. ASSUME NEW s \in S, NEW k \in Key
      PROVE  LET t == LhsStep(s, DiffElement(prevMap, input, k))
             IN  t.nodes \subseteq t.above /\ t.unheard = {}
  <2> DEFINE e == DiffElement(prevMap, input, k)
  <2>1. e.key = k /\ e.new = MapGet(input, k) /\ e.old = MapGet(prevMap, k)
    BY DEF DiffElement
  <2> HIDE DEF e
  <2>2. s \in LhsStates(V, M) /\ s.nodes \subseteq s.above /\ s.unheard = {}
    OBVIOUS
  <2> HIDE DEF S
  <2>3. Panic(s).nodes \subseteq Panic(s).above /\ Panic(s).unheard = {}
    BY <2>2 DEF Panic, LhsStates
  <2>4. Removed(s, k).nodes \subseteq Removed(s, k).above /\ Removed(s, k).unheard = {}
    BY <2>2 DEF Removed
  <2>5. OnLeft(s, k).nodes \subseteq OnLeft(s, k).above /\ OnLeft(s, k).unheard = {}
    BY <2>3, <2>4 DEF OnLeft
  <2>6. OnUnequal(s, k).nodes \subseteq OnUnequal(s, k).above /\ OnUnequal(s, k).unheard = {}
    <3>1. CASE Alive(s, k)
      BY <2>2, <3>1, OnUnequalFields
    <3>2. CASE ~Alive(s, k)
      BY <2>3, <3>2 DEF OnUnequal
    <3> QED BY <3>1, <3>2
  <2>7. ASSUME k \in NewKeys
        PROVE  OnRight(s, k).nodes \subseteq OnRight(s, k).above /\ OnRight(s, k).unheard = {}
    <3>1. s.answers[k] \in Answers
      BY <2>2, <2>7 DEF LhsStates
    <3>2. s.answers[k].above /\ s.answers[k].last = NoValue
      BY <2>2, <2>7, <3>1, AnswerFields DEF AnswersAbove
    <3>3. OnRight(s, k).nodes = s.nodes \union {k} /\ OnRight(s, k).above = s.above \union {k}
          /\ OnRight(s, k).unheard = s.unheard
      BY <3>2 DEF OnRight
    <3> QED BY <2>2, <3>3
  <2>8. e.new # None /\ e.old = None => k \in NewKeys
    BY <2>1, MapFacts DEF NewKeys, MapGet
  <2> QED BY <2>1, <2>2, <2>5, <2>6, <2>7, <2>8, Zenon DEF LhsStep, e
<1>3. LhsClosed(S, E)
  <2> SUFFICES ASSUME NEW s \in S, NEW k \in Key
               PROVE  LhsStep(s, DiffElement(prevMap, input, k)) \in S
    BY Zenon DEF LhsClosed, Elements
  <2>1. LhsStep(s, DiffElement(prevMap, input, k)) \in LhsStates(V, M)
    BY <1>1 DEF LhsClosed, Elements
  <2> QED BY <1>2, <2>1
<1>4. now \in S
  OBVIOUS
<1>5. diff \in Seq(E) /\ Len(diff) \in Nat
  <2>1. PICK n, s : Lists(diff, n, s, prevMap, input)
    BY DiffItems
  <2> QED BY <2>1 DEF Lists
<1> HIDE DEF diff, E, S
<1>6. \E f \in [0 .. Len(diff) -> S] :
        /\ f[0] = now /\ f[Len(diff)] = LhsFold(now, diff)
        /\ \A i \in 1 .. Len(diff) : f[i] = LhsStep(f[i - 1], diff[i])
  BY <1>3, <1>4, <1>5, LhsLoop
<1>7. LhsFold(now, diff) \in S
  BY <1>5, <1>6
<1> QED BY <1>7 DEF S, diff

LEMMA AboveKept == ASSUME AnswersAbove, MapiInv, AllAbove, [Next]_vars PROVE AllAbove'
<1>1. CASE RunLhsChange
  <2>1. PICK V, M : \E now \in LhsStates(V, M) :
            /\ None \in V /\ NoValue \in M /\ AsideValues \subseteq M
            /\ now.nodes = nodes /\ now.edges = edges /\ now.above = above /\ now.handles = handles
            /\ now.innerDue = innerDue /\ now.mappedDue = mappedDue /\ now.kept = kept
            /\ now.inner = inner /\ now.mapped = mapped /\ now.acc = acc /\ now.due = due \ {"lhs"}
            /\ now.unheard = unheard /\ ~now.panicked
            /\ Closure(LhsFold(now, SymmetricDiff(prevMap, input)))
    BY <1>1, LhsChangeFolds
  <2>2. PICK now \in LhsStates(V, M) :
            /\ None \in V /\ NoValue \in M /\ AsideValues \subseteq M
            /\ now.nodes = nodes /\ now.edges = edges /\ now.above = above /\ now.handles = handles
            /\ now.innerDue = innerDue /\ now.mappedDue = mappedDue /\ now.kept = kept
            /\ now.inner = inner /\ now.mapped = mapped /\ now.acc = acc /\ now.due = due \ {"lhs"}
            /\ now.unheard = unheard /\ ~now.panicked
            /\ Closure(LhsFold(now, SymmetricDiff(prevMap, input)))
    BY <2>1
  <2> DEFINE then == LhsFold(now, SymmetricDiff(prevMap, input))
  <2>3. then.nodes \subseteq then.above /\ then.unheard = {}
    <3>1. prevMap \in Maps /\ input \in Maps
      BY DEF MapiInv, MapiTypes
    <3> QED BY <2>2, <3>1, AboveFolded DEF AllAbove
  <2>4. Closure(then)
    BY <2>2
  <2> HIDE DEF then
  <2>5. CASE then.panicked
    BY <2>4, <2>5 DEF Closure, AllAbove, tables
  <2>6. CASE ~then.panicked
    BY <2>3, <2>4, <2>6 DEF Closure, AllAbove
  <2> QED BY <2>5, <2>6
<1>2. CASE RunResult
  BY <1>2 DEF RunResult, AllAbove, tables
<1>3. ASSUME NEW k \in Key, RunMapped(k) PROVE AllAbove'
  <2>1. nodes' = nodes /\ above' = above
    BY <1>3 DEF RunMapped, tables
  <2>2. unheard' = unheard \/ unheard' = unheard \ {k}
    BY <1>3 DEF RunMapped
  <2> QED BY <2>1, <2>2 DEF AllAbove
<1>4. ASSUME NEW k \in Key, RunInner(k) PROVE AllAbove'
  BY <1>4 DEF RunInner, AllAbove, tables
<1>5. CASE SetInput \/ SetOuter
  BY <1>5 DEF SetInput, SetOuter, AllAbove, tables
<1>6. CASE StabiliseStart \/ StabiliseEnd
  BY <1>6 DEF StabiliseStart, StabiliseEnd, AllAbove, tables
<1>7. CASE UNCHANGED mapiVars
  BY <1>7 DEF mapiVars, AllAbove, tables
<1> QED BY <1>1, <1>2, <1>3, <1>4, <1>5, <1>6, <1>7 DEF Next, MapiNext, vars

(* If the user's function returns nothing but new nodes above its          *)
(* argument, the closure of lhs_change never panics, and when stabilise    *)
(* has returned the result is the whole map, mapped.                       *)
THEOREM WholeMapWhenNodesAreAbove ==
  ASSUME AnswersAbove
  PROVE  Spec => [](~panicked /\ (~stabilising /\ observed /\ due = {} /\ mappedDue = {}
                                    => value = MappedReference))
<1> DEFINE Whole == ~panicked /\ (~stabilising /\ observed /\ due = {} /\ mappedDue = {}
                                    => value = MappedReference)
<1>1. Init => AllAbove
  BY DEF Init, MapiInit, AllAbove
<1>2. MapiInv /\ AllAbove /\ [Next]_vars => AllAbove'
  BY AboveKept
<1>3. MapiInv /\ AllAbove => Whole
  <2> SUFFICES ASSUME MapiInv, AllAbove PROVE Whole
    OBVIOUS
  <2>1. ~panicked
    BY DEF MapiInv, NodesMatchMap, AllAbove
  <2>2. ASSUME ~stabilising, observed, due = {}, mappedDue = {} PROVE value = MappedReference
    <3>1. value = Restrict(MappedReference, DOMAIN MappedReference \ unheard)
      BY <2>2, SettledResult
    <3>2. DOMAIN MappedReference \ unheard = DOMAIN MappedReference
      BY DEF AllAbove
    <3>3. Restrict(MappedReference, DOMAIN MappedReference) = MappedReference
      BY DEF Restrict, MappedReference
    <3> QED BY <3>1, <3>2, <3>3
  <2> QED BY <2>1, <2>2
<1> HIDE DEF Whole
<1>4. Spec => []Whole
  BY <1>1, <1>2, <1>3, NodesThatAreNotDueAreRight, PTL DEF Spec
<1> QED BY <1>4 DEF Whole
=============================================================================
