---------------------------- MODULE MCWaypointHub ----------------------------
(***************************************************************************)
(* Instances of WaypointHub for TLC.                                       *)
(***************************************************************************)
EXTENDS WaypointHub, TLC

CONSTANTS w1, w2

\* The file is new, or lists two points.
Empty == {[i \in WaypointIds |-> 0]}
TwoPoints == {[i \in WaypointIds |-> IF i = w1 THEN 1 ELSE IF i = w2 THEN 2 ELSE 0]}
Both == Empty \union TwoPoints

Symmetric == Permutations(Players) \union Permutations(Threads)
==============================================================================
