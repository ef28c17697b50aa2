---------------------------- MODULE MCParentLinks ----------------------------
(***************************************************************************)
(* An Expert node that can have one child twice, a map2 of a node with     *)
(* itself, and the main node of a bind whose right-hand side can be either. *)
(***************************************************************************)
EXTENDS ParentLinks

CONSTANTS expert, twice, main, lhsChange, leaf

Ends ==
  [e1 |-> <<expert, twice>>, e2 |-> <<expert, leaf>>, e3 |-> <<expert, leaf>>,
   t1 |-> <<twice, leaf>>,   t2 |-> <<twice, leaf>>,
   m1 |-> <<main, lhsChange>>, m2 |-> <<main, twice>>, m3 |-> <<main, expert>>]

MCEdge == DOMAIN Ends
MCOwner == [e \in MCEdge |-> Ends[e][1]]
MCChild == [e \in MCEdge |-> Ends[e][2]]

MCInitChildren ==
  [n \in Node |-> CASE n = expert -> <<"e1">>
                    [] n = twice  -> <<"t1", "t2">>
                    [] n = main   -> <<"m1">>
                    [] OTHER      -> <<>>]
=============================================================================
