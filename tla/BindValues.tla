----------------------------- MODULE BindValues ------------------------------
(***************************************************************************)
(* What the user of Binds meant: the value of the node n, and of the       *)
(* result of a closure applied to v, from the variables alone.             *)
(***************************************************************************)
EXTENDS Binds

RECURSIVE Meaning(_), ResultMeaning(_, _, _)
Meaning(n) ==
  CASE TopKind[n] = "Var"  -> varValue[n]
    [] TopKind[n] = "Map"  -> 1 - Meaning(TopChildren[n][1])
    [] TopKind[n] = "Main" -> LET b == TopChildren[n][1]
                                  x == TopChildren[b][1]
                              IN  ResultMeaning(TopCode[b], x, Meaning(x))
ResultMeaning(c, x, v) ==
  LET do == Program[c][v]
      of == Meaning(do.of)
      \* Whether the closure of the bind x makes the right-hand side it has now.
      own == /\ TopKind[x] = "Main"
             /\ LET b == TopChildren[x][1]
                IN  Program[TopCode[b]][Meaning(TopChildren[b][1])].op \in {"map", "bind"}
  IN  CASE do.op = "map"  -> 1 - of
        [] do.op = "bind" -> ResultMeaning(do.code, do.of, of)
        [] do.op = "rhs" /\ own -> v
        [] OTHER -> of

(***************************************************************************)
(* After stabilise, an observed node has the value its definition gives it *)
(* for the present variables, through binds that were nested, replaced,    *)
(* swapped for a node of another scope or not necessary when their input   *)
(* changed.  It is invalid only if it is, or depends on, a bind that has   *)
(* outlived its right-hand side: that was made in a run of another bind    *)
(* which is over, and the bind's own closure, if its input changed in the  *)
(* stabilisation that invalidated it, was given its turn to replace it     *)
(* (propagate_invalidity only queues a main node, for this).               *)
(***************************************************************************)
Current == ~stabilising /\ wanted = observed /\ heap = {} /\ now > 0

OfPastRun(n) == scope[n] # NoNode /\ n \notin Range(created[scope[n]])

\* An invalid node's changed_at is when it was invalidated.
Outlived(m) ==
  /\ kind[m] = "Main" /\ ~valid[m] /\ Len(children[m]) = 2 /\ OfPastRun(children[m][2])
  /\ LET b == children[m][1]
     IN  changedAt[children[b][1]] = changedAt[m] => recomputedAt[b] = changedAt[m]

RightValues ==
  Current /\ ~panicked => \A n \in observed :
    IF valid[n] THEN value[n] = Meaning(n) ELSE \E m \in Held({n}) : Outlived(m)
=============================================================================
