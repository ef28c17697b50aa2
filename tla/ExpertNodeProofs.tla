-------------------------- MODULE ExpertNodeProofs --------------------------
(***************************************************************************)
(* Proofs about ExpertNode, for any set of children and any number of      *)
(* stabilisations.                                                         *)
(***************************************************************************)
EXTENDS ExpertNode, FiniteSetTheorems, TLAPS

\* Only a linked node waits, and one that is not necessary will fire all callbacks.
QueueAndReset ==
  /\ node.pending => IsLinked
  /\ ~node.necessary /\ node.valid => node.willFire

\* Once the node has run, its inputs are settled for this stabilisation.
Settled ==
  node.valid /\ node.recomputedAt = now => stabilising /\ ~running /\ deps \intersect due = {}

\* An input that is not due has a value, except the driver in its first run.
InputsComputed ==
  /\ due \intersect invalid = {}
  /\ running => stabilising /\ Driver \notin due
  /\ \A c \in Input \ due : changedAt[c] = Never => c = Driver /\ running

\* A dependency that is invalid became so, or was added, after the node last computed.
InvalidIsStale == node.valid /\ deps \intersect invalid # {} => IsStale

\* The inductive invariant.
IInv ==
  /\ TypeOK
  /\ QueueAndReset
  /\ Settled
  /\ InputsComputed
  /\ PendingWhenStale
  /\ InvalidIsCounted
  /\ InvalidIsStale
  /\ ToldOrWillBe

-----------------------------------------------------------------------------
LEMMA InvalidCount ==
  ASSUME TypeOK
  PROVE  /\ Cardinality(deps \intersect invalid) \in Nat
         /\ Cardinality(deps \intersect invalid) = 0 => deps \intersect invalid = {}
<1>1. IsFiniteSet(Input)
  BY InputAssumption, FS_AddElement DEF Input
<1>2. IsFiniteSet(deps \intersect invalid)
  BY <1>1, FS_Subset DEF TypeOK
<1> QED BY <1>2, FS_CardinalityType, FS_EmptySet

LEMMA InitInv == Init => IInv
<1> SUFFICES ASSUME Init PROVE IInv
  OBVIOUS
<1>1. TypeOK
  <2>1. now \in 1 .. MaxStab + 1 /\ changedAt \in [Input -> 0 .. now]
    BY BoundAssumption DEF Init, Never
  <2>2. node \in [necessary : BOOLEAN, valid : BOOLEAN, pending : BOOLEAN,
                  forceStale : BOOLEAN, willFire : BOOLEAN, numInvalid : Nat,
                  recomputedAt : 0 .. now]
    BY DEF Init, Never
  <2> QED BY <2>1, <2>2 DEF Init, TypeOK, Input
<1> QED BY <1>1 DEF Init, IInv, QueueAndReset, Settled, InputsComputed, PendingWhenStale,
                    InvalidIsCounted, InvalidIsStale, ToldOrWillBe, IsLinked, Never

LEMMA StabiliseStartInv == ASSUME IInv, StabiliseStart PROVE IInv'
<1> USE DEF IInv
<1>1. PICK set \in SUBSET (Input \ invalid) : due' = due \union set
  BY DEF StabiliseStart
<1>2. UNCHANGED <<now, others, invalid, changedAt, running, deps, told, late, node>>
      /\ stabilising' = TRUE /\ ~stabilising /\ now <= MaxStab
  BY DEF StabiliseStart, edgeVars
<1>3. TypeOK'
  BY <1>1, <1>2 DEF TypeOK
<1>4. IsLinked' = IsLinked /\ IsStale' = IsStale
  BY <1>2 DEF IsLinked, IsStale
<1>5. QueueAndReset' /\ PendingWhenStale' /\ InvalidIsCounted' /\ InvalidIsStale'
      /\ ToldOrWillBe'
  BY <1>2, <1>4 DEF QueueAndReset, PendingWhenStale, InvalidIsCounted, InvalidIsStale,
         ToldOrWillBe
<1>6. Settled'
  BY <1>2 DEF Settled
<1>7. InputsComputed'
  BY <1>1, <1>2 DEF InputsComputed
<1> QED BY <1>3, <1>5, <1>6, <1>7

LEMMA StabiliseEndInv == ASSUME IInv, StabiliseEnd PROVE IInv'
<1> USE DEF IInv
<1>1. /\ UNCHANGED <<others, due, invalid, changedAt, running, deps, told, late, node>>
      /\ stabilising /\ stabilising' = FALSE /\ now' = now + 1 /\ ~running
  BY DEF StabiliseEnd, edgeVars, TypeOK
<1>2. now \in Nat /\ now' \in 1 .. MaxStab + 1 /\ 0 .. now \subseteq 0 .. now'
  BY <1>1, BoundAssumption DEF TypeOK
<1>3. TypeOK'
  <2>1. node' \in [necessary : BOOLEAN, valid : BOOLEAN, pending : BOOLEAN,
                   forceStale : BOOLEAN, willFire : BOOLEAN, numInvalid : Nat,
                   recomputedAt : 0 .. now']
    BY <1>1, <1>2 DEF TypeOK
  <2>2. changedAt' \in [Input -> 0 .. now']
    BY <1>1, <1>2 DEF TypeOK
  <2> QED BY <1>1, <1>2, <2>1, <2>2 DEF TypeOK
<1>4. IsLinked' = IsLinked /\ IsStale' = IsStale
  BY <1>1 DEF IsLinked, IsStale
<1>5. QueueAndReset' /\ PendingWhenStale' /\ InvalidIsCounted' /\ InvalidIsStale'
      /\ ToldOrWillBe'
  BY <1>1, <1>4 DEF QueueAndReset, PendingWhenStale, InvalidIsCounted, InvalidIsStale,
         ToldOrWillBe
<1>6. Settled'
  BY <1>1, <1>2 DEF Settled, TypeOK
<1>7. InputsComputed'
  BY <1>1 DEF InputsComputed
<1> QED BY <1>3, <1>5, <1>6, <1>7

-----------------------------------------------------------------------------
\* The end of a run of an input, whichever it is.
LEMMA InputRan ==
  ASSUME IInv, NEW c \in deps \union Child,
         ChildChanged(c) \/ CutOff(c),
         due' = due \ {c},
         c \in due \/ (c = Driver /\ running),
         UNCHANGED <<stabilising, now, others, invalid, deps>>,
         running' = FALSE, running => c = Driver, stabilising
  PROVE  IInv'
<1> USE DEF IInv
<1>1. c \in Input /\ Driver \in deps /\ deps \subseteq Input
  BY DEF TypeOK, Input
<1>2. c \in deps /\ node.valid => node.recomputedAt < now
  <2>1. c \in deps /\ node.valid => node.recomputedAt # now
    BY DEF Settled
  <2> QED BY <2>1 DEF TypeOK
<1>3. CASE ChildChanged(c)
  <2>1. /\ changedAt' = [changedAt EXCEPT ![c] = now]
        /\ told' = IF Linked(c) /\ ~node.willFire THEN told \union {c} ELSE told \ {c}
        /\ late' = late \ {c}
        /\ node' = [node EXCEPT !.pending = node.pending \/ Linked(c)]
    BY <1>3 DEF ChildChanged
  <2>2. Linked(c) \in BOOLEAN /\ now \in Nat /\ now > 0
    BY DEF Linked, IsLinked, TypeOK
  <2>3. /\ node'.necessary = node.necessary /\ node'.valid = node.valid
        /\ node'.forceStale = node.forceStale /\ node'.willFire = node.willFire
        /\ node'.numInvalid = node.numInvalid /\ node'.recomputedAt = node.recomputedAt
        /\ node'.pending = (node.pending \/ Linked(c))
    BY <2>1 DEF TypeOK
  <2>4. /\ changedAt'[c] = now
        /\ \A d \in Input : d # c => changedAt'[d] = changedAt[d]
    BY <2>1, <1>1 DEF TypeOK
  <2>5. told' \subseteq deps
    BY <2>1 DEF TypeOK, Linked
  <2>6. TypeOK'
    <3>1. changedAt' \in [Input -> 0 .. now]
      BY <2>1, <2>2, <1>1 DEF TypeOK
    <3>2. node' \in [necessary : BOOLEAN, valid : BOOLEAN, pending : BOOLEAN,
                     forceStale : BOOLEAN, willFire : BOOLEAN, numInvalid : Nat,
                     recomputedAt : 0 .. now]
      BY <2>1, <2>2 DEF TypeOK
    <3> QED BY <2>1, <2>5, <3>1, <3>2 DEF TypeOK
  <2>7. IsLinked' = IsLinked
    BY <2>3 DEF IsLinked
  <2>8. QueueAndReset'
    BY <2>3, <2>7 DEF QueueAndReset, Linked
  <2>9. Settled'
    BY <2>3, <1>2 DEF Settled
  <2>10. InputsComputed'
    BY <2>2, <2>4 DEF InputsComputed, Never
  <2>11. PendingWhenStale'
    <3>1. CASE c \in deps
      <4>1. IsLinked => IsStale' /\ node'.pending
        BY <3>1, <2>2, <2>3, <2>4, <1>2 DEF IsStale, Linked, IsLinked, TypeOK
      <4> QED BY <4>1, <2>7 DEF PendingWhenStale
    <3>2. CASE c \notin deps
      <4>1. IsStale' = IsStale
        BY <3>2, <2>3, <2>4, <1>1 DEF IsStale
      <4> QED BY <4>1, <3>2, <2>3, <2>7 DEF PendingWhenStale, Linked
    <3> QED BY <3>1, <3>2
  <2>12. InvalidIsCounted'
    BY <2>3, <2>7 DEF InvalidIsCounted
  <2>13. ToldOrWillBe'
    BY <2>1, <2>3, <2>4, <2>7, <1>1 DEF ToldOrWillBe, Linked
  <2>14. InvalidIsStale'
    <3>1. \A d \in deps : changedAt[d] > node.recomputedAt
                            => changedAt'[d] > node'.recomputedAt
      BY <1>1, <1>2, <2>2, <2>3, <2>4 DEF TypeOK
    <3>2. IsStale => IsStale'
      BY <3>1, <2>3 DEF IsStale
    <3> QED BY <3>2, <2>3 DEF InvalidIsStale
  <2> QED BY <2>6, <2>8, <2>9, <2>10, <2>11, <2>12, <2>13, <2>14
<1>4. CASE CutOff(c)
  <2>1. changedAt[c] # Never /\ UNCHANGED <<changedAt, told, late, node>>
    BY <1>4 DEF CutOff
  <2>2. TypeOK'
    BY <2>1 DEF TypeOK
  <2>3. IsLinked' = IsLinked /\ IsStale' = IsStale
    BY <2>1 DEF IsLinked, IsStale
  <2>4. QueueAndReset' /\ PendingWhenStale' /\ InvalidIsCounted' /\ InvalidIsStale'
      /\ ToldOrWillBe'
    BY <2>1, <2>3 DEF QueueAndReset, PendingWhenStale, InvalidIsCounted, InvalidIsStale,
         ToldOrWillBe
  <2>5. Settled'
    BY <2>1 DEF Settled
  <2>6. InputsComputed'
    BY <2>1 DEF InputsComputed
  <2> QED BY <2>2, <2>4, <2>5, <2>6
<1> QED BY <1>3, <1>4

LEMMA RunChildInv == ASSUME IInv, NEW c \in Input, RunChild(c) PROVE IInv'
<1>1. c \in Child /\ c \in due /\ due' = due \ {c} /\ stabilising /\ ~running /\ running' = FALSE
  BY DEF RunChild
<1>2. UNCHANGED <<stabilising, now, others, invalid, deps>>
  BY DEF RunChild
<1>3. ChildChanged(c) \/ CutOff(c)
  BY DEF RunChild
<1> QED BY <1>1, <1>2, <1>3, InputRan

LEMMA DriverReturnsInv == ASSUME IInv, DriverReturns PROVE IInv'
<1>1. /\ running /\ running' = FALSE /\ stabilising /\ Driver \in deps /\ Driver \notin due
      /\ UNCHANGED <<stabilising, now, others, due, invalid, deps>>
  BY DEF DriverReturns, IInv, InputsComputed, TypeOK
<1>2. due' = due \ {Driver}
  BY <1>1
<1>3. ChildChanged(Driver) \/ CutOff(Driver)
  BY DEF DriverReturns
<1> QED BY <1>1, <1>2, <1>3, InputRan

LEMMA RunDriverInv == ASSUME IInv, RunDriver PROVE IInv'
<1> USE DEF IInv
<1>1. /\ stabilising /\ ~running /\ running' = TRUE /\ Driver \in due /\ due' = due \ {Driver}
      /\ UNCHANGED <<stabilising, now, others, invalid, changedAt, deps, told, late, node>>
  BY DEF RunDriver, edgeVars
<1>2. TypeOK'
  BY <1>1 DEF TypeOK, RunDriver
<1>3. IsLinked' = IsLinked /\ IsStale' = IsStale
  BY <1>1 DEF IsLinked, IsStale
<1>4. QueueAndReset' /\ PendingWhenStale' /\ InvalidIsCounted' /\ InvalidIsStale'
      /\ ToldOrWillBe'
  BY <1>1, <1>3 DEF QueueAndReset, PendingWhenStale, InvalidIsCounted, InvalidIsStale,
         ToldOrWillBe
<1>5. Settled'
  BY <1>1 DEF Settled, TypeOK
<1>6. InputsComputed'
  BY <1>1 DEF InputsComputed
<1> QED BY <1>2, <1>4, <1>5, <1>6

LEMMA InvalidateInputInv == ASSUME IInv, NEW c \in Input, InvalidateInput(c) PROVE IInv'
<1> USE DEF IInv
<1>1. /\ UNCHANGED <<stabilising, now, others, running, deps, told, late>>
      /\ stabilising /\ invalid' = invalid \union {c} /\ due' = due \ {c}
      /\ changedAt' = [changedAt EXCEPT ![c] = now]
      /\ c \in deps => node.recomputedAt < now
  BY DEF InvalidateInput, edgeVars
<1>2. /\ changedAt'[c] = now
      /\ \A d \in Input : d # c => changedAt'[d] = changedAt[d]
      /\ now \in Nat /\ now > 0
  BY <1>1 DEF TypeOK
<1>3. CASE Linked(c)
  <2>1. node' = [node EXCEPT !.numInvalid = node.numInvalid + 1, !.pending = TRUE]
    BY <1>3 DEF InvalidateInput
  <2>2. /\ node'.necessary = node.necessary /\ node'.valid = node.valid
        /\ node'.forceStale = node.forceStale /\ node'.willFire = node.willFire
        /\ node'.numInvalid > 0 /\ node'.recomputedAt = node.recomputedAt
        /\ node'.pending = TRUE
    BY <2>1 DEF TypeOK
  <2>3. TypeOK'
    <3>1. changedAt' \in [Input -> 0 .. now]
      BY <1>1, <1>2 DEF TypeOK
    <3>2. node' \in [necessary : BOOLEAN, valid : BOOLEAN, pending : BOOLEAN,
                     forceStale : BOOLEAN, willFire : BOOLEAN, numInvalid : Nat,
                     recomputedAt : 0 .. now]
      <4>1. node.numInvalid + 1 \in Nat
        BY DEF TypeOK
      <4> QED BY <2>1, <4>1 DEF TypeOK
    <3> QED BY <1>1, <3>1, <3>2 DEF TypeOK
  <2>4. IsLinked' /\ IsStale' /\ c \in deps /\ IsLinked
    BY <1>1, <1>2, <1>3, <2>2 DEF Linked, IsLinked, IsStale
  <2>5. QueueAndReset' /\ PendingWhenStale' /\ InvalidIsCounted' /\ InvalidIsStale'
    BY <2>2, <2>4 DEF QueueAndReset, PendingWhenStale, InvalidIsCounted, InvalidIsStale
  <2>6. Settled'
    BY <1>1, <2>2 DEF Settled
  <2>7. InputsComputed'
    BY <1>1, <1>2 DEF InputsComputed, Never
  <2>8. ToldOrWillBe'
    BY <1>1, <1>2, <2>2, <2>4 DEF ToldOrWillBe, TypeOK
  <2> QED BY <2>3, <2>5, <2>6, <2>7, <2>8
<1>4. CASE ~Linked(c)
  <2>1. node' = node
    BY <1>4 DEF InvalidateInput
  <2>2. IsLinked' = IsLinked /\ (IsLinked => c \notin deps)
    BY <2>1, <1>4 DEF IsLinked, Linked
  <2>3. TypeOK'
    <3>1. changedAt' \in [Input -> 0 .. now]
      BY <1>1, <1>2 DEF TypeOK
    <3> QED BY <1>1, <2>1, <3>1 DEF TypeOK
  <2>4. c \notin deps => IsStale' = IsStale
    BY <1>1, <1>2, <2>1 DEF IsStale, TypeOK
  <2>5. c \in deps => IsStale'
    BY <1>1, <1>2, <2>1 DEF IsStale
  <2>6. QueueAndReset' /\ PendingWhenStale' /\ InvalidIsCounted'
    BY <1>1, <2>1, <2>2, <2>4 DEF QueueAndReset, PendingWhenStale, InvalidIsCounted
  <2>7. InvalidIsStale'
    BY <1>1, <2>1, <2>4, <2>5 DEF InvalidIsStale
  <2>8. Settled'
    BY <1>1, <2>1 DEF Settled
  <2>9. InputsComputed'
    BY <1>1, <1>2 DEF InputsComputed, Never
  <2>10. ToldOrWillBe'
    BY <1>1, <1>2, <2>1, <2>2 DEF ToldOrWillBe, TypeOK
  <2> QED BY <2>3, <2>6, <2>7, <2>8, <2>9, <2>10
<1> QED BY <1>3, <1>4

-----------------------------------------------------------------------------
\* The calls of the driver's closure find the node not yet recomputed.
LEMMA NotYetRecomputed == ASSUME IInv, running, node.valid PROVE node.recomputedAt # now
BY DEF IInv, Settled

LEMMA MakeStaleInv == ASSUME IInv, MakeStale PROVE IInv'
<1> USE DEF IInv
<1>1. /\ UNCHANGED <<stabilising, now, others, due, invalid, changedAt, running, deps, told, late>>
      /\ running /\ node.valid /\ node.recomputedAt # now
      /\ node' = [node EXCEPT !.forceStale = TRUE, !.pending = node.pending \/ node.necessary]
  BY NotYetRecomputed DEF MakeStale, envVars, edgeVars
<1>2. /\ node'.necessary = node.necessary /\ node'.valid = node.valid
      /\ node'.forceStale = TRUE /\ node'.willFire = node.willFire
      /\ node'.numInvalid = node.numInvalid /\ node'.recomputedAt = node.recomputedAt
      /\ node'.pending = (node.pending \/ node.necessary)
  BY <1>1 DEF TypeOK
<1>3. TypeOK'
  <2>1. node' \in [necessary : BOOLEAN, valid : BOOLEAN, pending : BOOLEAN,
                   forceStale : BOOLEAN, willFire : BOOLEAN, numInvalid : Nat,
                   recomputedAt : 0 .. now]
    BY <1>1 DEF TypeOK
  <2> QED BY <1>1, <2>1 DEF TypeOK
<1>4. IsLinked' = IsLinked /\ IsStale'
  BY <1>2 DEF IsLinked, IsStale
<1>5. QueueAndReset' /\ PendingWhenStale' /\ InvalidIsCounted' /\ InvalidIsStale'
      /\ ToldOrWillBe'
  BY <1>1, <1>2, <1>4 DEF QueueAndReset, PendingWhenStale, InvalidIsCounted, InvalidIsStale,
         ToldOrWillBe, IsLinked
<1>6. Settled' /\ InputsComputed'
  BY <1>1, <1>2 DEF Settled, InputsComputed
<1> QED BY <1>3, <1>5, <1>6

LEMMA AddDependencyInv == ASSUME IInv, NEW c \in Child, AddDependency(c) PROVE IInv'
<1> USE DEF IInv
<1>1. /\ UNCHANGED <<stabilising, now, others, due, invalid, changedAt, running, told>>
      /\ running /\ node.valid /\ node.recomputedAt # now
      /\ deps' = deps \union {c} /\ c \in Input
      /\ late' = IF changedAt[c] # Never THEN late \union {c} ELSE late
  BY NotYetRecomputed DEF AddDependency, envVars, Input
<1> DEFINE n == IF node.necessary /\ c \in invalid THEN node.numInvalid + 1 ELSE node.numInvalid
<1>2. /\ n \in Nat
      /\ node' = [node EXCEPT !.forceStale = TRUE, !.pending = node.pending \/ node.necessary,
                             !.numInvalid = n]
  <2>1. n \in Nat
    BY DEF TypeOK
  <2> QED BY <2>1 DEF AddDependency
<1>3. /\ node'.necessary = node.necessary /\ node'.valid = node.valid
      /\ node'.forceStale = TRUE /\ node'.willFire = node.willFire
      /\ node'.numInvalid = n /\ node'.recomputedAt = node.recomputedAt
      /\ node'.pending = (node.pending \/ node.necessary)
  BY <1>2 DEF TypeOK
<1>4. TypeOK'
  <2>1. node' \in [necessary : BOOLEAN, valid : BOOLEAN, pending : BOOLEAN,
                   forceStale : BOOLEAN, willFire : BOOLEAN, numInvalid : Nat,
                   recomputedAt : 0 .. now]
    BY <1>2 DEF TypeOK
  <2> QED BY <1>1, <2>1 DEF TypeOK
<1>5. IsLinked' = IsLinked /\ IsStale'
  BY <1>3 DEF IsLinked, IsStale
<1>6. QueueAndReset' /\ PendingWhenStale' /\ InvalidIsStale'
  BY <1>1, <1>3, <1>5 DEF QueueAndReset, PendingWhenStale, InvalidIsStale, IsLinked
<1>7. InvalidIsCounted'
  <2>1. SUFFICES ASSUME IsLinked, deps' \intersect invalid # {} PROVE n > 0
    BY <1>1, <1>3, <1>5 DEF InvalidIsCounted
  <2>2. CASE c \in invalid
    BY <2>1, <2>2, <1>2 DEF IsLinked, TypeOK
  <2>3. CASE c \notin invalid
    <3>1. node.numInvalid > 0
      BY <2>1, <2>3, <1>1 DEF InvalidIsCounted
    <3> QED BY <3>1, <2>3, <1>2
  <2> QED BY <2>2, <2>3
<1>8. ToldOrWillBe'
  BY <1>1, <1>3, <1>5 DEF ToldOrWillBe
<1>9. Settled' /\ InputsComputed'
  BY <1>1, <1>3 DEF Settled, InputsComputed
<1> QED BY <1>4, <1>6, <1>7, <1>8, <1>9

LEMMA RemoveDependencyInv == ASSUME IInv, NEW c \in Child, RemoveDependency(c) PROVE IInv'
<1> USE DEF IInv
<1>1. /\ UNCHANGED <<stabilising, now, others, due, invalid, changedAt, running>>
      /\ running /\ node.valid /\ node.recomputedAt # now
      /\ deps' = deps \ {c} /\ c # Driver
      /\ told' = told \ {c} /\ late' = late \ {c}
  BY NotYetRecomputed, InputAssumption DEF RemoveDependency, envVars
<1> DEFINE n == IF node.necessary /\ c \in invalid THEN node.numInvalid + 1 ELSE node.numInvalid
<1>2. /\ n \in Nat
      /\ node' = [node EXCEPT !.forceStale = TRUE, !.pending = node.pending \/ node.necessary,
                             !.numInvalid = n]
  <2>1. n \in Nat
    BY DEF TypeOK
  <2> QED BY <2>1 DEF RemoveDependency, DecrInvalidChildren
<1>3. /\ node'.necessary = node.necessary /\ node'.valid = node.valid
      /\ node'.forceStale = TRUE /\ node'.willFire = node.willFire
      /\ node'.numInvalid = n /\ node'.recomputedAt = node.recomputedAt
      /\ node'.pending = (node.pending \/ node.necessary)
  BY <1>2 DEF TypeOK
<1>4. TypeOK'
  <2>1. node' \in [necessary : BOOLEAN, valid : BOOLEAN, pending : BOOLEAN,
                   forceStale : BOOLEAN, willFire : BOOLEAN, numInvalid : Nat,
                   recomputedAt : 0 .. now]
    BY <1>2 DEF TypeOK
  <2> QED BY <1>1, <2>1 DEF TypeOK
<1>5. IsLinked' = IsLinked /\ IsStale'
  BY <1>3 DEF IsLinked, IsStale
<1>6. QueueAndReset' /\ PendingWhenStale' /\ InvalidIsStale'
  BY <1>1, <1>3, <1>5 DEF QueueAndReset, PendingWhenStale, InvalidIsStale, IsLinked
<1>7. InvalidIsCounted'
  <2>1. SUFFICES ASSUME IsLinked, deps' \intersect invalid # {} PROVE n > 0
    BY <1>1, <1>3, <1>5 DEF InvalidIsCounted
  <2>2. node.numInvalid > 0
    BY <2>1, <1>1 DEF InvalidIsCounted
  <2> QED BY <2>2, <1>2 DEF TypeOK
<1>8. ToldOrWillBe'
  BY <1>1, <1>3, <1>5 DEF ToldOrWillBe
<1>9. Settled' /\ InputsComputed'
  BY <1>1, <1>3 DEF Settled, InputsComputed
<1> QED BY <1>4, <1>6, <1>7, <1>8, <1>9

\* The node becomes invalid, by the driver's call or in its own turn.
LEMMA BecomesInvalid ==
  ASSUME IInv, UNCHANGED <<envVars, edgeVars>>,
         node' = [node EXCEPT !.valid = FALSE, !.pending = FALSE, !.recomputedAt = now]
  PROVE  IInv'
<1> USE DEF IInv
<1>1. UNCHANGED <<stabilising, now, others, due, invalid, changedAt, running, deps, told, late>>
  BY DEF envVars, edgeVars
<1>2. node'.valid = FALSE /\ node'.pending = FALSE /\ now \in 0 .. now
  BY DEF TypeOK
<1>3. TypeOK'
  <2>1. node' \in [necessary : BOOLEAN, valid : BOOLEAN, pending : BOOLEAN,
                   forceStale : BOOLEAN, willFire : BOOLEAN, numInvalid : Nat,
                   recomputedAt : 0 .. now]
    BY <1>2 DEF TypeOK
  <2> QED BY <1>1, <2>1 DEF TypeOK
<1>4. QueueAndReset' /\ PendingWhenStale' /\ InvalidIsCounted' /\ InvalidIsStale'
      /\ ToldOrWillBe'
  BY <1>2 DEF QueueAndReset, PendingWhenStale, InvalidIsCounted, InvalidIsStale, ToldOrWillBe,
              IsLinked
<1>5. Settled' /\ InputsComputed'
  BY <1>1, <1>2 DEF Settled, InputsComputed
<1> QED BY <1>3, <1>4, <1>5

LEMMA InvalidateInv == ASSUME IInv, Invalidate PROVE IInv'
BY BecomesInvalid DEF Invalidate

LEMMA RunInvalidInv == ASSUME IInv, RunInvalid PROVE IInv'
BY BecomesInvalid DEF RunInvalid

-----------------------------------------------------------------------------
LEMMA BecomeNecessaryInv == ASSUME IInv, BecomeNecessary PROVE IInv'
<1> USE DEF IInv
<1> DEFINE broken == Cardinality(deps \intersect invalid)
<1>1. /\ UNCHANGED <<stabilising, now, others, due, invalid, changedAt, running, deps, told, late>>
      /\ stabilising /\ ~node.necessary /\ ~IsLinked /\ ~node.pending
  BY DEF BecomeNecessary, envVars, edgeVars, IsLinked, QueueAndReset
<1>2. broken \in Nat /\ (broken = 0 => deps \intersect invalid = {})
  BY InvalidCount
<1>3. CASE ~node.valid
  <2>1. node' = [node EXCEPT !.necessary = TRUE]
    BY <1>3 DEF BecomeNecessary
  <2>2. node'.valid = FALSE /\ node'.pending = FALSE
    BY <1>1, <1>3, <2>1 DEF TypeOK
  <2>3. TypeOK'
    <3>1. node' \in [necessary : BOOLEAN, valid : BOOLEAN, pending : BOOLEAN,
                   forceStale : BOOLEAN, willFire : BOOLEAN, numInvalid : Nat,
                   recomputedAt : 0 .. now]
      BY <2>1 DEF TypeOK
    <3> QED BY <1>1, <3>1 DEF TypeOK
  <2>4. QueueAndReset' /\ PendingWhenStale' /\ InvalidIsCounted' /\ InvalidIsStale'
        /\ ToldOrWillBe'
    BY <2>2 DEF QueueAndReset, PendingWhenStale, InvalidIsCounted, InvalidIsStale,
                ToldOrWillBe, IsLinked
  <2>5. Settled' /\ InputsComputed'
    BY <1>1, <2>2 DEF Settled, InputsComputed
  <2> QED BY <2>3, <2>4, <2>5
<1>4. CASE node.valid
  <2> DEFINE n == node.numInvalid + broken
             p == IsStale \/ broken > 0
  <2>1. n \in Nat /\ p \in BOOLEAN /\ (broken > 0 => n > 0)
    BY <1>2 DEF TypeOK, IsStale
  <2>2. node' = [node EXCEPT !.necessary = TRUE, !.numInvalid = n, !.pending = p]
    BY <1>4 DEF BecomeNecessary
  <2> HIDE DEF n, p
  <2>3. /\ node'.necessary = TRUE /\ node'.valid = TRUE
        /\ node'.forceStale = node.forceStale /\ node'.willFire = TRUE
        /\ node'.numInvalid = n /\ node'.recomputedAt = node.recomputedAt
        /\ node'.pending = p
    BY <2>2, <1>1, <1>4 DEF TypeOK, QueueAndReset
  <2>4. TypeOK'
    <3>1. node' \in [necessary : BOOLEAN, valid : BOOLEAN, pending : BOOLEAN,
                   forceStale : BOOLEAN, willFire : BOOLEAN, numInvalid : Nat,
                   recomputedAt : 0 .. now]
      BY <2>1, <2>2 DEF TypeOK
    <3> QED BY <1>1, <3>1 DEF TypeOK
  <2>5. IsLinked' /\ IsStale' = IsStale
    BY <1>1, <2>3 DEF IsLinked, IsStale
  <2>6. broken > 0 => IsStale
    <3>1. broken > 0 => deps \intersect invalid # {}
      <4>1. deps \intersect invalid = {} => broken = 0
        BY FS_EmptySet
      <4> QED BY <4>1
    <3> QED BY <3>1, <1>4 DEF InvalidIsStale
  <2>7. p <=> IsStale
    BY <2>6 DEF p
  <2>8. QueueAndReset' /\ PendingWhenStale' /\ InvalidIsStale' /\ ToldOrWillBe'
    BY <1>1, <1>4, <2>3, <2>5, <2>7 DEF QueueAndReset, PendingWhenStale, InvalidIsStale, ToldOrWillBe
  <2>9. InvalidIsCounted'
    BY <1>1, <1>2, <2>1, <2>3 DEF InvalidIsCounted
  <2>10. Settled' /\ InputsComputed'
    BY <1>1, <1>4, <2>3 DEF Settled, InputsComputed
  <2> QED BY <2>4, <2>8, <2>9, <2>10
<1> QED BY <1>3, <1>4

LEMMA BecomeUnnecessaryInv == ASSUME IInv, BecomeUnnecessary PROVE IInv'
<1> USE DEF IInv
<1>1. /\ UNCHANGED <<stabilising, now, others, due, invalid, changedAt, running, deps, told, late>>
      /\ stabilising /\ node.necessary
  BY DEF BecomeUnnecessary, envVars, edgeVars
<1>2. /\ node' \in [necessary : BOOLEAN, valid : BOOLEAN, pending : BOOLEAN,
                   forceStale : BOOLEAN, willFire : BOOLEAN, numInvalid : Nat,
                   recomputedAt : 0 .. now]
      /\ node'.necessary = FALSE /\ node'.valid = node.valid
      /\ node'.pending = FALSE /\ (node.valid => node'.willFire = TRUE)
      /\ node'.recomputedAt = node.recomputedAt /\ node'.forceStale = node.forceStale
  <2>1. CASE node.valid
    <3>1. node' = [node EXCEPT !.necessary = FALSE, !.pending = FALSE,
                               !.willFire = TRUE, !.numInvalid = 0]
      BY <2>1 DEF BecomeUnnecessary
    <3> QED BY <2>1, <3>1 DEF TypeOK
  <2>2. CASE ~node.valid
    <3>1. node' = [node EXCEPT !.necessary = FALSE]
      BY <2>2 DEF BecomeUnnecessary
    <3>2. node.pending = FALSE
      BY <2>2 DEF QueueAndReset, IsLinked, TypeOK
    <3> QED BY <2>2, <3>1, <3>2 DEF TypeOK
  <2> QED BY <2>1, <2>2
<1>3. TypeOK'
  BY <1>1, <1>2 DEF TypeOK
<1>4. ~IsLinked' /\ IsStale' = IsStale
  BY <1>1, <1>2 DEF IsLinked, IsStale
<1>5. QueueAndReset' /\ PendingWhenStale' /\ InvalidIsCounted' /\ InvalidIsStale'
      /\ ToldOrWillBe'
  BY <1>1, <1>2, <1>4 DEF QueueAndReset, PendingWhenStale, InvalidIsCounted, InvalidIsStale,
         ToldOrWillBe
<1>6. Settled' /\ InputsComputed'
  BY <1>1, <1>2 DEF Settled, InputsComputed
<1> QED BY <1>3, <1>5, <1>6

-----------------------------------------------------------------------------
\* When the node computes, all its dependencies are valid and have a value.
LEMMA ComputesOnValidInputs ==
  ASSUME IInv, RunCompute
  PROVE  \A c \in deps : c \notin invalid /\ changedAt[c] # Never
<1>1. IsLinked /\ ~running /\ deps \intersect due = {} /\ node.numInvalid = 0
  BY DEF IInv, QueueAndReset, RunCompute, Runs
<1>2. deps \intersect invalid = {}
  BY <1>1 DEF IInv, InvalidIsCounted
<1>3. deps \subseteq Input \ due
  BY <1>1 DEF IInv, TypeOK
<1> QED BY <1>1, <1>2, <1>3 DEF IInv, InputsComputed

LEMMA RunComputeInv == ASSUME IInv, RunCompute PROVE IInv'
<1> USE DEF IInv
<1>1. /\ UNCHANGED <<stabilising, now, others, due, invalid, changedAt, running, deps, late>>
      /\ stabilising /\ ~running /\ deps \intersect due = {}
      /\ told' = IF node.willFire THEN deps ELSE told
      /\ IsLinked
      /\ node' = [node EXCEPT !.pending = FALSE, !.forceStale = FALSE,
                             !.willFire = FALSE, !.recomputedAt = now]
  BY DEF RunCompute, Runs, envVars, QueueAndReset
<1>2. deps \intersect invalid = {}
  BY ComputesOnValidInputs
<1>3. /\ node'.necessary = node.necessary /\ node'.valid = node.valid
      /\ node'.forceStale = FALSE /\ node'.pending = FALSE /\ node'.recomputedAt = now
  BY <1>1 DEF TypeOK
<1>4. TypeOK'
  <2>1. now \in 0 .. now
    BY DEF TypeOK
  <2>2. node' \in [necessary : BOOLEAN, valid : BOOLEAN, pending : BOOLEAN,
                   forceStale : BOOLEAN, willFire : BOOLEAN, numInvalid : Nat,
                   recomputedAt : 0 .. now]
    BY <1>1, <2>1 DEF TypeOK
  <2>3. told' \subseteq deps
    BY <1>1 DEF TypeOK
  <2> QED BY <1>1, <2>2, <2>3 DEF TypeOK
<1>5. IsLinked' /\ ~IsStale'
  <2>1. \A c \in deps : ~(changedAt[c] > now)
    BY DEF TypeOK
  <2>2. now # Never
    BY DEF TypeOK, Never
  <2> QED BY <1>1, <1>3, <2>1, <2>2 DEF IsLinked, IsStale
<1>6. QueueAndReset' /\ PendingWhenStale' /\ InvalidIsCounted' /\ InvalidIsStale'
  BY <1>1, <1>2, <1>3, <1>5 DEF QueueAndReset, PendingWhenStale, InvalidIsCounted, InvalidIsStale,
         IsLinked
<1>7. Settled' /\ InputsComputed'
  BY <1>1 DEF Settled, InputsComputed
<1>8. ToldOrWillBe'
  <2>1. CASE node.willFire
    BY <2>1, <1>1 DEF ToldOrWillBe
  <2>2. CASE ~node.willFire
    BY <2>2, <1>1 DEF ToldOrWillBe
  <2> QED BY <2>1, <2>2
<1> QED BY <1>4, <1>6, <1>7, <1>8

-----------------------------------------------------------------------------
LEMMA StutterInv == ASSUME IInv, UNCHANGED vars PROVE IInv'
<1>1. /\ UNCHANGED <<stabilising, now, others, due, invalid, changedAt, running>>
      /\ UNCHANGED <<deps, told, late, node>>
  BY DEF vars, envVars, edgeVars
<1>2. IsLinked' = IsLinked /\ IsStale' = IsStale
  BY <1>1 DEF IsLinked, IsStale
<1>3. TypeOK'
  BY <1>1 DEF IInv, TypeOK
<1> QED BY <1>1, <1>2, <1>3 DEF IInv, QueueAndReset, Settled, InputsComputed, PendingWhenStale,
             InvalidIsCounted, InvalidIsStale, ToldOrWillBe

LEMMA NextInv == IInv /\ [Next]_vars => IInv'
<1> SUFFICES ASSUME IInv, [Next]_vars PROVE IInv'
  OBVIOUS
<1>1. ASSUME NEW c \in Input, RunChild(c) \/ InvalidateInput(c) PROVE IInv'
  BY <1>1, RunChildInv, InvalidateInputInv
<1>2. ASSUME NEW c \in Child, AddDependency(c) \/ RemoveDependency(c) PROVE IInv'
  BY <1>2, AddDependencyInv, RemoveDependencyInv
<1>3. CASE StabiliseStart \/ StabiliseEnd
  BY <1>3, StabiliseStartInv, StabiliseEndInv
<1>4. CASE RunDriver \/ DriverReturns \/ MakeStale \/ Invalidate
  BY <1>4, RunDriverInv, DriverReturnsInv, MakeStaleInv, InvalidateInv
<1>5. CASE BecomeNecessary \/ BecomeUnnecessary \/ RunInvalid \/ RunCompute
  BY <1>5, BecomeNecessaryInv, BecomeUnnecessaryInv, RunInvalidInv, RunComputeInv
<1>6. CASE Stop \/ UNCHANGED vars
  BY <1>6, StutterInv DEF Stop
<1> QED BY <1>1, <1>2, <1>3, <1>4, <1>5, <1>6 DEF Next

-----------------------------------------------------------------------------
\* Every reachable state satisfies the inductive invariant.
THEOREM Invariance == Spec => []IInv
BY InitInv, NextInv, PTL DEF Spec

\* Type correctness: among others, an input never changes at a later stabilisation
\* than the present one, and the driver is never removed.
THEOREM TypeCorrect == Spec => []TypeOK
<1>1. IInv => TypeOK
  BY DEF IInv
<1> QED BY <1>1, Invariance, PTL

\* A necessary Expert node waits in the recompute heap exactly when it is stale, so
\* expert_make_stale may return early on one that was forced before.
THEOREM QueuedWhenStale == Spec => []PendingWhenStale
<1>1. IInv => PendingWhenStale
  BY DEF IInv
<1> QED BY <1>1, Invariance, PTL

\* before_main_computation sees a count above zero whenever a dependency is invalid.
THEOREM InvalidNeverMissed == Spec => []InvalidIsCounted
<1>1. IInv => InvalidIsCounted
  BY DEF IInv
<1> QED BY <1>1, Invariance, PTL

\* Each on_change closure was called with the child's present value, or all of them are
\* about to be, or the child has not changed since the dependency was added.
THEOREM ClosuresAreTold == Spec => []ToldOrWillBe
<1>1. IInv => ToldOrWillBe
  BY DEF IInv
<1> QED BY <1>1, Invariance, PTL

\* The Expert node's own closure never reads a dependency that is invalid or has no value.
THEOREM NeverComputesBlind == Spec => ComputesOnValues
<1> DEFINE Ready == \A c \in deps : c \notin invalid /\ changedAt[c] # Never
<1>1. ASSUME IInv, Computes, [Next]_vars PROVE RunCompute
  <2>1. node.pending = TRUE /\ node'.pending = FALSE /\ node'.valid /\ node'.necessary
        /\ node.necessary /\ node' # node
    BY <1>1 DEF Computes, IInv, TypeOK, QueueAndReset, IsLinked
  <2>2. ASSUME NEW c \in Input, ChildChanged(c) PROVE FALSE
    <3>1. node' = [node EXCEPT !.pending = node.pending \/ Linked(c)]
      BY <2>2 DEF ChildChanged
    <3> QED BY <3>1, <2>1, <1>1 DEF IInv, TypeOK
  <2>3. ASSUME NEW c \in Input, RunChild(c) \/ DriverReturns PROVE FALSE
    BY <2>1, <2>2, <2>3 DEF RunChild, DriverReturns, CutOff, Input
  <2>4. ASSUME NEW c \in Input, InvalidateInput(c) PROVE FALSE
    <3>1. node' = [node EXCEPT !.numInvalid = node.numInvalid + 1, !.pending = TRUE]
      BY <2>1, <2>4 DEF InvalidateInput
    <3> QED BY <3>1, <2>1, <1>1 DEF IInv, TypeOK
  <2>5. ASSUME NEW c \in Child, AddDependency(c) \/ RemoveDependency(c) PROVE FALSE
    <3>1. node'.pending = (node.pending \/ node.necessary)
      BY <2>5, <1>1 DEF AddDependency, RemoveDependency, IInv, TypeOK
    <3> QED BY <3>1, <2>1
  <2>6. CASE MakeStale
    <3>1. node'.pending = (node.pending \/ node.necessary)
      BY <2>6, <1>1 DEF MakeStale, IInv, TypeOK
    <3> QED BY <3>1, <2>1
  <2>7. CASE Invalidate \/ RunInvalid
    BY <2>7, <2>1, <1>1 DEF Invalidate, RunInvalid, IInv, TypeOK
  <2>8. CASE BecomeUnnecessary
    <3>1. node.valid
      BY <2>1, <1>1 DEF IInv, QueueAndReset, IsLinked
    <3> QED BY <3>1, <2>8, <2>1, <1>1 DEF BecomeUnnecessary, IInv, TypeOK
  <2>9. CASE StabiliseStart \/ StabiliseEnd \/ Stop \/ RunDriver \/ BecomeNecessary
             \/ UNCHANGED vars
    BY <2>9, <2>1 DEF StabiliseStart, StabiliseEnd, Stop, RunDriver, BecomeNecessary, vars
  <2> QED BY <1>1, <2>3, <2>4, <2>5, <2>6, <2>7, <2>8, <2>9 DEF Next, Input
<1>2. IInv /\ [Next]_vars => [Computes => Ready]_vars
  BY <1>1, ComputesOnValidInputs
<1> QED BY <1>2, Invariance, PTL DEF Spec, ComputesOnValues
=============================================================================
