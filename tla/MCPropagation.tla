---------------------------- MODULE MCPropagation ----------------------------
(***************************************************************************)
(* A small graph with every kind of node:                                  *)
(*                                                                         *)
(*   x, y, k   two variables and a constant                                *)
(*   low       x.map                                                       *)
(*   old       low.map_with_old                                            *)
(*   sum       a fold over low, y and y again                              *)
(*   ref       sum.map_ref                                                 *)
(*   top       ref.map3(x, k)                                              *)
(*                                                                         *)
(* x reaches top by two paths of different length; low can be recomputed   *)
(* directly from x while top waits in the heap; y is twice a child of sum; *)
(* sum is cut off when only one of low and y changes; and ref is linked    *)
(* and unlinked together with its child, see MCMapRef for the other case.  *)
(***************************************************************************)
EXTENDS Propagation

MCNode == {"x", "y", "k", "low", "sum", "ref", "old", "top"}

MCValue == 0 .. 1

MCKind == [n \in MCNode |->
  CASE n \in {"x", "y"}     -> "Var"
    [] n = "k"              -> "Const"
    [] n = "low"            -> "Map"
    [] n = "old"            -> "MapWithOld"
    [] n = "ref"            -> "MapRef"
    [] n \in {"sum", "top"} -> "MapN"]

MCChildren == [n \in MCNode |->
  CASE n \in {"x", "y", "k"} -> <<>>
    [] n = "low"             -> <<"x">>
    [] n = "sum"             -> <<"low", "y", "y">>
    [] n = "old"             -> <<"low">>
    [] n = "ref"             -> <<"sum">>
    [] n = "top"             -> <<"ref", "x", "k">>]

MCHeight == [n \in MCNode |->
  CASE n \in {"x", "y", "k"} -> 1
    [] n = "low"             -> 2
    [] n \in {"sum", "old"}  -> 3
    [] n = "ref"             -> 4
    [] n = "top"             -> 5]

MCCompute(n, args) ==
  CASE n = "k"   -> 1
    [] n = "low" -> 1 - args[1]
    [] n = "old" -> args[1]
    [] n = "sum" -> args[1] * args[2] * args[3]
    [] n = "ref" -> 1 - args[1]
    [] n = "top" -> (args[1] + args[2] + args[3]) % 2

\* Cutoff::PartialEq, the default, and Cutoff::Never for low.
MCShouldCutoff(n, old, new) == n # "low" /\ old = new

MCObserving == [o1 |-> "top", o2 |-> "old"]
MCObserver == DOMAIN MCObserving
=============================================================================
