------------------------------- MODULE Catalog -------------------------------
(***************************************************************************)
(* What the shared-waypoint catalog promises, whoever keeps it: one        *)
(* authoritative set of points and one revision counter.  Every change to  *)
(* one point moves the counter by exactly one and stamps the point with    *)
(* it; an administrative wipe moves it by the number of points removed.    *)
(*                                                                         *)
(* The file of WaypointService is shown to implement this module.          *)
(***************************************************************************)
EXTENDS Waypoints

VARIABLES
  revision,      \* the catalog's revision
  points         \* the point under each id, or NoPoint

vars == <<revision, points>>

(***************************************************************************)
(* The steps.                                                              *)
(***************************************************************************)
Init ==
  /\ revision \in 0..MaxRevision
  /\ points \in Points
  /\ StampsReached(revision, points)

\* A new point, on a block nobody holds, under an id nobody holds.
Publish(i, p, b, l) ==
  /\ points[i] = NoPoint
  /\ At(points, b) = {}
  /\ revision < MaxRevision
  /\ revision' = revision + 1
  /\ points' = [points EXCEPT ![i] =
                  [publisher |-> p, block |-> b, label |-> l, revision |-> revision + 1]]

\* A point is relabelled, or moved to a block nobody holds.  It stays the
\* publisher's.
Amend(i, b, l) ==
  /\ points[i] # NoPoint
  /\ b = points[i].block \/ At(points, b) = {}
  /\ revision < MaxRevision
  /\ revision' = revision + 1
  /\ points' = [points EXCEPT ![i] =
                  [publisher |-> points[i].publisher, block |-> b, label |-> l,
                   revision |-> revision + 1]]

Withdraw(i) ==
  /\ points[i] # NoPoint
  /\ revision < MaxRevision
  /\ revision' = revision + 1
  /\ points' = [points EXCEPT ![i] = NoPoint]

\* Every point goes, each at a revision of its own.
Wipe ==
  /\ Live(points) # {}
  /\ revision + Cardinality(Live(points)) <= MaxRevision
  /\ revision' = revision + Cardinality(Live(points))
  /\ points' = NoPoints

Next ==
  \/ \E i \in WaypointIds, p \in Players, b \in Blocks, l \in Labels : Publish(i, p, b, l)
  \/ \E i \in WaypointIds, b \in Blocks, l \in Labels : Amend(i, b, l)
  \/ \E i \in WaypointIds : Withdraw(i)
  \/ Wipe

Spec == Init /\ [][Next]_vars

(***************************************************************************)
(* What every implementation inherits.                                     *)
(***************************************************************************)
TypeOK ==
  /\ revision \in 0..MaxRevision
  /\ points \in Points
  /\ StampsReached(revision, points)

\* No block ever gets a second point: a block that lists several has listed
\* them since the file was read, and never gains one.
OverlapNeverGrows ==
  [][\A b \in Blocks : \/ At(points', b) \subseteq At(points, b)
                       \/ /\ At(points, b) = {}
                          /\ \E i \in WaypointIds : At(points', b) = {i}]_vars

\* A point keeps its publisher for as long as it is listed.
PublisherFixed ==
  [][\A i \in Live(points) \intersect Live(points') :
       points'[i].publisher = points[i].publisher]_vars

\* A revision names one catalog: the points never change while it stands still,
\* and it never goes back.
RevisionNamesCatalog ==
  [][/\ revision' >= revision
     /\ revision' = revision => points' = points]_vars
==============================================================================
