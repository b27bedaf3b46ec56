---------------------------- MODULE CatalogProofs ----------------------------
(***************************************************************************)
(* What the abstract catalog promises, for every set of ids, players,      *)
(* blocks and labels and every last revision.                              *)
(***************************************************************************)
EXTENDS Catalog, FiniteSetTheorems, TLAPS

\* How many ids a catalog lists is a number.
LEMMA LiveCount ==
  ASSUME NEW c
  PROVE  Cardinality(Live(c)) \in Nat
<1>1. Live(c) \subseteq WaypointIds
  BY DEF Live
<1>2. IsFiniteSet(Live(c))
  BY <1>1, WaypointIdsFinite, FS_Subset
<1>3. QED
  BY <1>2, FS_CardinalityType

\* A catalog that lists anything lists at least one id.
LEMMA LivePositive ==
  ASSUME NEW c, Live(c) # {}
  PROVE  Cardinality(Live(c)) > 0
<1>1. Live(c) \subseteq WaypointIds
  BY DEF Live
<1>2. IsFiniteSet(Live(c))
  BY <1>1, WaypointIdsFinite, FS_Subset
<1>3. QED
  BY <1>2, LiveCount, FS_EmptySet

\* What a step does to the catalog: it moves the revision on, within its range, and
\* either empties the catalog or gives one id a point stamped with the new revision,
\* or none.
LEMMA StepChanges ==
  ASSUME TypeOK, Next
  PROVE  /\ revision' \in 0..MaxRevision
         /\ revision' > revision
         /\ \/ points' = NoPoints
            \/ \E i \in WaypointIds, q \in Point \union {NoPoint} :
                 /\ points' = [points EXCEPT ![i] = q]
                 /\ q # NoPoint => q.revision = revision'
<1> USE MaxRevisionNat, NoPointIsNoPoint DEF TypeOK
<1>1. CASE Wipe
  BY <1>1, LiveCount, LivePositive DEF Wipe
<1>2. ASSUME NEW i \in WaypointIds, Withdraw(i)
      PROVE  /\ revision < MaxRevision
             /\ revision' = revision + 1
             /\ points' = [points EXCEPT ![i] = NoPoint]
  BY <1>2 DEF Withdraw
<1>3. ASSUME NEW i \in WaypointIds, NEW b \in Blocks, NEW l \in Labels,
             \/ \E p \in Players : Publish(i, p, b, l)
             \/ Amend(i, b, l)
      PROVE  /\ revision < MaxRevision
             /\ revision' = revision + 1
             /\ \E q \in Point :
                  points' = [points EXCEPT ![i] = q] /\ q.revision = revision'
  BY <1>3 DEF Publish, Amend, Points, Point
<1>4. QED
  BY <1>1, <1>2, <1>3 DEF Next

\* The revision stays in range, the points stay points, and no point is stamped
\* with a revision the catalog has not reached.
THEOREM CatalogTypeOK == Spec => []TypeOK
<1>1. ASSUME TypeOK, Next PROVE TypeOK'
  <2> USE MaxRevisionNat, NoPointIsNoPoint
  <2>1. revision' \in 0..MaxRevision /\ points' \in Points
    BY <1>1, StepChanges DEF TypeOK, Points, NoPoints
  <2>2. StampsReached(revision', points')
    BY <1>1, StepChanges DEF TypeOK, StampsReached, Live, Points, Point, NoPoints
  <2>3. QED
    BY <2>1, <2>2 DEF TypeOK
<1>2. TypeOK /\ [Next]_vars => TypeOK'
  BY <1>1 DEF TypeOK, vars
<1>3. Init => TypeOK
  BY DEF Init, TypeOK
<1>4. QED
  BY <1>2, <1>3, PTL DEF Spec

\* No block ever gets a second point (find_at guards every write that lands on
\* a block).
THEOREM CatalogOverlap == Spec => OverlapNeverGrows
<1>1. TypeOK /\ [Next]_vars
        => [\A b \in Blocks : \/ At(points', b) \subseteq At(points, b)
                              \/ /\ At(points, b) = {}
                                 /\ \E i \in WaypointIds : At(points', b) = {i}]_vars
  <2> SUFFICES ASSUME TypeOK, Next, NEW b \in Blocks
               PROVE  \/ At(points', b) \subseteq At(points, b)
                      \/ /\ At(points, b) = {}
                         /\ \E i \in WaypointIds : At(points', b) = {i}
    OBVIOUS
  <2> USE NoPointIsNoPoint DEF TypeOK, Points, Point, At, Live
  <2>1. ASSUME NEW i \in WaypointIds, NEW p \in Players, NEW c \in Blocks, NEW l \in Labels,
               Publish(i, p, c, l)
        PROVE  \/ At(points', b) \subseteq At(points, b)
               \/ At(points, b) = {} /\ At(points', b) = {i}
    BY <2>1 DEF Publish
  <2>2. ASSUME NEW i \in WaypointIds, NEW c \in Blocks, NEW l \in Labels, Amend(i, c, l)
        PROVE  \/ At(points', b) \subseteq At(points, b)
               \/ At(points, b) = {} /\ At(points', b) = {i}
    BY <2>2 DEF Amend
  <2>3. ASSUME NEW i \in WaypointIds, Withdraw(i)
        PROVE  At(points', b) \subseteq At(points, b)
    BY <2>3 DEF Withdraw
  <2>4. CASE Wipe
    BY <2>4 DEF Wipe, NoPoints
  <2>5. QED
    BY <2>1, <2>2, <2>3, <2>4 DEF Next
<1>2. QED
  BY <1>1, CatalogTypeOK, PTL DEF Spec, OverlapNeverGrows

\* A listed point keeps its publisher (update copies publisher_id).
THEOREM CatalogPublisher == Spec => PublisherFixed
<1>1. TypeOK /\ [Next]_vars
        => [\A i \in Live(points) \intersect Live(points') :
              points'[i].publisher = points[i].publisher]_vars
  <2> SUFFICES ASSUME TypeOK, Next, NEW j \in Live(points) \intersect Live(points')
               PROVE  points'[j].publisher = points[j].publisher
    OBVIOUS
  <2> USE DEF TypeOK, Points, Point, Live
  <2>1. ASSUME NEW i \in WaypointIds, NEW p \in Players, NEW c \in Blocks, NEW l \in Labels,
               Publish(i, p, c, l)
        PROVE  points'[j].publisher = points[j].publisher
    BY <2>1 DEF Publish
  <2>2. ASSUME NEW i \in WaypointIds, NEW c \in Blocks, NEW l \in Labels, Amend(i, c, l)
        PROVE  points'[j].publisher = points[j].publisher
    BY <2>2 DEF Amend
  <2>3. ASSUME NEW i \in WaypointIds, Withdraw(i)
        PROVE  points'[j].publisher = points[j].publisher
    BY <2>3 DEF Withdraw
  <2>4. CASE Wipe
    BY <2>4 DEF Wipe, NoPoints
  <2>5. QED
    BY <2>1, <2>2, <2>3, <2>4 DEF Next
<1>2. QED
  BY <1>1, CatalogTypeOK, PTL DEF Spec, PublisherFixed

\* A revision names one catalog: it never goes back, and the points stand still
\* while it does (next_revision is part of every prepared mutation).
THEOREM CatalogRevision == Spec => RevisionNamesCatalog
<1>1. TypeOK /\ [Next]_vars
        => [/\ revision' >= revision
            /\ revision' = revision => points' = points]_vars
  BY StepChanges, MaxRevisionNat DEF TypeOK, vars
<1>2. QED
  BY <1>1, CatalogTypeOK, PTL DEF Spec, RevisionNamesCatalog
==============================================================================
