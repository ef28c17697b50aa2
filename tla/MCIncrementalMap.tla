-------------------------- MODULE MCIncrementalMap --------------------------
(* Two keys and two values; the closures keep, change and drop values, and *)
(* treat keys differently.  The user's function of incr_filter_mapi_ may   *)
(* return any of the modelled nodes.                                       *)
EXTENDS IncrementalMap

SomeDropped(k, v) == IF k = v THEN None ELSE v
FirstLeft(k, v) == v = 1
Different(k, l, r) == IF l = r THEN None ELSE <<l, r>>
UnlessOuter(k, v, o) == IF v = o THEN None ELSE v
AsKeyOrNone(k, o) == IF o = k THEN None ELSE k
=============================================================================
