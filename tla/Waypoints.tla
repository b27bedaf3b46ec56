------------------------------ MODULE Waypoints ------------------------------
(***************************************************************************)
(* Points and catalogs of points: the values the shared-waypoint modules   *)
(* talk about.                                                             *)
(*                                                                         *)
(* A catalog is a function from every id a point could be given to the     *)
(* point it lists there, or NoPoint.  The code keeps a list; the order of  *)
(* the list only decides what a page of a listing shows, so it is left out.*)
(***************************************************************************)
EXTENDS Naturals, FiniteSets

CONSTANTS
  WaypointIds,   \* the UUIDs a point can be given
  Players,       \* the UUIDs of players
  Blocks,        \* block positions: dimension and floored x, y, z
  Labels,        \* what is only shown of a point: name, colour, kind, icon
  NoPoint,       \* what a catalog holds under an id it does not list
  MaxRevision    \* the last revision (i64::MAX in the code)

Point == [publisher : Players, block : Blocks, label : Labels, revision : Nat \ {0}]

ASSUME MaxRevisionNat == MaxRevision \in Nat
ASSUME NoPointIsNoPoint == NoPoint \notin Point
ASSUME WaypointIdsFinite == IsFiniteSet(WaypointIds)

Points == [WaypointIds -> Point \union {NoPoint}]

NoPoints == [i \in WaypointIds |-> NoPoint]

\* The ids a catalog lists.
Live(c) == {i \in WaypointIds : c[i] # NoPoint}

\* The ids listed at a block.  A file an older build wrote may list several.
At(c, b) == {i \in Live(c) : c[i].block = b}

\* The ids a player has published.
PublishedBy(c, p) == {i \in Live(c) : c[i].publisher = p}

\* No point is stamped with a revision its catalog has not reached.
StampsReached(r, c) == \A i \in Live(c) : c[i].revision <= r

\* A catalog with its revision, as a snapshot or as the file holds it.
Snapshots == {s \in [revision : 0..MaxRevision, points : Points] :
                StampsReached(s.revision, s.points)}
==============================================================================
