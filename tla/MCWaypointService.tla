-------------------------- MODULE MCWaypointService --------------------------
(***************************************************************************)
(* Instances of WaypointService for TLC.                                   *)
(***************************************************************************)
EXTENDS WaypointService, TLC

CONSTANT l1

Blank == [revision |-> 0, points |-> NoPoints]

\* A file an older build wrote: two points on one block, one of each player,
\* stamped with the same revision.
Overlapping(p, q, i, j, b) ==
  [revision |-> 1,
   points |-> (i :> [publisher |-> p, block |-> b, label |-> l1, revision |-> 1])
           @@ (j :> [publisher |-> q, block |-> b, label |-> l1, revision |-> 1])
           @@ NoPoints]

\* A fresh file, or such a one, whoever and wherever: the set is symmetric.
OnlyBlank == {Blank}
BlankOrOverlapping ==
  {Blank} \union
    {Overlapping(t[1], t[2], t[3], t[4], t[5]) :
       t \in {u \in Players \X Players \X WaypointIds \X WaypointIds \X Blocks :
                u[1] # u[2] /\ u[3] # u[4]}}

\* Every player an ordinary one; or everybody's level changing
\* between requests.
Ordinary == [id : Players, operator : {FALSE}]
AnyLevel == [id : Players, operator : BOOLEAN]

Symmetric == Permutations(OperationIds) \union Permutations(WaypointIds) \union Permutations(Players) \union Permutations(Blocks)
==============================================================================
