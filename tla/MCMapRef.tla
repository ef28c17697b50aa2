------------------------------ MODULE MCMapRef ------------------------------
(***************************************************************************)
(* A MapRef between a variable and a Map:                                  *)
(*                                                                         *)
(*   x      a variable holding a pair of bits, written as 0 .. 3           *)
(*   first  x.map_ref, the first bit of the pair                           *)
(*   m      first.map                                                      *)
(***************************************************************************)
EXTENDS Propagation

MCNode == {"x", "first", "m"}

MCValue == 0 .. 3

MCKind == [n \in MCNode |->
  CASE n = "x"     -> "Var"
    [] n = "first" -> "MapRef"
    [] n = "m"     -> "Map"]

MCChildren == [n \in MCNode |->
  CASE n = "x"     -> <<>>
    [] n = "first" -> <<"x">>
    [] n = "m"     -> <<"first">>]

MCHeight == [n \in MCNode |->
  CASE n = "x"     -> 1
    [] n = "first" -> 2
    [] n = "m"     -> 3]

MCCompute(n, args) ==
  CASE n = "first" -> args[1] \div 2
    [] n = "m"     -> (args[1] + 1) % 4

\* Cutoff::PartialEq everywhere.
MCShouldCutoff(n, old, new) == old = new

(***************************************************************************)
(* x has an observer of its own that keeps it necessary while m is dropped *)
(* and observed again.                                                     *)
(***************************************************************************)
KeptByObserver == [o1 |-> "x", o2 |-> "m", o3 |-> "m"]
MCObserver == {"o1", "o2", "o3"}
=============================================================================
