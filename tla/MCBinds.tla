------------------------------- MODULE MCBinds -------------------------------
(***************************************************************************)
(* Two variables x and y; a = map x, c = map a; m1 = bind y by "outer" and *)
(* m2 = bind m1 by "second", t = map m2.  l1 and l2 are the lhs-change     *)
(* nodes.  Depending on y, m1 is a Map made above c, higher than the bind, *)
(* or a bind made in the bind, whose right-hand side is made in it or is   *)
(* the node c from outside. Depending on m1, m2 is the low node a, which   *)
(* does not change then, or the right-hand side of m1, a node of the other *)
(* bind's scope that dies when y changes and is higher than all that m2    *)
(* had before.                                                             *)
(*                                                                         *)
(* The user observes m1 and t in any combination, so m1 is at times        *)
(* necessary through t only, and a bind's input changes while the bind is  *)
(* not necessary.                                                          *)
(***************************************************************************)
EXTENDS BindValues

MCTopNode == <<"x", "y", "a", "c", "l1", "m1", "l2", "m2", "t">>
MCFresh == {"f1", "f2", "f3", "f4", "f5", "f6"}
MCTopKind ==
  [n \in Range(MCTopNode) |->
     CASE n \in {"x", "y"} -> "Var"
       [] n \in {"a", "c", "t"} -> "Map"
       [] n \in {"l1", "l2"} -> "Lhs"
       [] n \in {"m1", "m2"} -> "Main"]
MCTopChildren ==
  [n \in Range(MCTopNode) |->
     CASE n \in {"x", "y"} -> <<>>
       [] n = "a" -> <<"x">>
       [] n = "c" -> <<"a">>
       [] n = "l1" -> <<"y">>
       [] n = "m1" -> <<"l1">>
       [] n = "l2" -> <<"m1">>
       [] n = "m2" -> <<"l2">>
       [] n = "t" -> <<"m2">>]
MCTopCode == [l1 |-> "outer", l2 |-> "second"]
Closure(op, of, inner) == [op |-> op, of |-> of, code |-> inner]
MCProgram ==
  [outer  |-> [v \in Bit |-> IF v = 0 THEN Closure("map", "c", NoValue) ELSE Closure("bind", "x", "inner")],
   inner  |-> [v \in Bit |-> IF v = 0 THEN Closure("map", "x", NoValue) ELSE Closure("drop", "c", NoValue)],
   second |-> [v \in Bit |-> IF v = 0 THEN Closure("node", "a", NoValue) ELSE Closure("rhs", "m1", NoValue)]]
MCObservable == <<"m1", "t">>
=============================================================================
