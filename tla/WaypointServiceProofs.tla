------------------------ MODULE WaypointServiceProofs ------------------------
(***************************************************************************)
(* What the mutation service promises, for every set of players, points,   *)
(* blocks, requests and operation ids and every value of the limits: its   *)
(* state has the types of the code; the file is what the catalog is and    *)
(* moves as a catalog may, within the quotas; what was applied was applied *)
(* once, to what its author had seen, by who was allowed to; what is       *)
(* retained of it is coherent, and answers tell the truth about it.        *)
(***************************************************************************)
EXTENDS WaypointService, FiniteSetTheorems, SequenceTheorems, TLAPS

(***************************************************************************)
(* Facts about the helpers.                                                *)
(***************************************************************************)
LEMMA RequestParts ==
  ASSUME NEW r \in Requests
  PROVE  /\ r.kind \in {"create", "update", "delete"}
         /\ r.expected \in Revisions
         /\ r.kind \in {"create", "update"} => r.draft \in Drafts
         /\ r.kind \in {"update", "delete"} => r.id \in WaypointIds
BY DEF Requests, CreateRequests, UpdateRequests, DeleteRequests

LEMMA ActorParts ==
  ASSUME NEW a \in Actors
  PROVE  a.id \in Players /\ a.operator \in BOOLEAN
BY ActorsArePlayers

\* How many points a catalog lists is a number, and not 0 when it lists any.
LEMMA LiveCount ==
  ASSUME NEW c
  PROVE  /\ Cardinality(Live(c)) \in Nat
         /\ Live(c) # {} => Cardinality(Live(c)) > 0
<1>1. IsFiniteSet(Live(c))
  <2>1. Live(c) \subseteq WaypointIds
    BY DEF Live
  <2>2. QED
    BY <2>1, WaypointIdsFinite, FS_Subset
<1>2. QED
  BY <1>1, FS_CardinalityType, FS_EmptySet

\* What the checks of a create, an update and a delete let through.
LEMMA CreateAllowed ==
  ASSUME TypeOK, NEW a \in Actors, NEW r \in CreateRequests, Refusal(a, r) = "NONE"
  PROVE  /\ r.expected = revision
         /\ r.draft \in [block : Blocks, label : Labels]
         /\ At(points, r.draft.block) = {}
         /\ revision < MaxRevision
<1>1. r.kind = "create"
  BY DEF CreateRequests
<1>2. CreateRefusal(a, r) = "NONE"
  BY <1>1 DEF Refusal
<1>3. r.draft \in Drafts
  BY DEF CreateRequests
<1>4. revision \in 0..MaxRevision
  BY DEF TypeOK, Revisions
<1>5. /\ ~CatalogMoved(r) /\ Validate(r.draft)
      /\ ~Occupied(r.draft.block) /\ revision # MaxRevision
  BY <1>2 DEF CreateRefusal
<1>6. QED
  BY <1>3, <1>4, <1>5, MaxRevisionNat DEF CatalogMoved, Validate, Occupied, Drafts

LEMMA UpdateAllowed ==
  ASSUME TypeOK, NEW a \in Actors, NEW r \in UpdateRequests, Refusal(a, r) = "NONE"
  PROVE  /\ r.id \in Live(points)
         /\ r.expected = points[r.id].revision
         /\ r.draft \in [block : Blocks, label : Labels]
         /\ r.draft.block = points[r.id].block \/ At(points, r.draft.block) = {}
         /\ CanManage(a, points[r.id])
         /\ revision < MaxRevision
<1>1. r.kind = "update"
  BY DEF UpdateRequests
<1>2. UpdateRefusal(a, r) = "NONE"
  BY <1>1 DEF Refusal
<1>3. r.draft \in Drafts /\ r.id \in WaypointIds
  BY DEF UpdateRequests
<1>4. revision \in 0..MaxRevision
  BY DEF TypeOK, Revisions
<1>5. /\ points[r.id] # NoPoint /\ CanManage(a, points[r.id]) /\ ~PointMoved(r)
      /\ Validate(r.draft) /\ ~MovesOntoAnother(r) /\ revision # MaxRevision
  BY <1>2 DEF UpdateRefusal
<1>6. QED
  BY <1>3, <1>4, <1>5, MaxRevisionNat DEF PointMoved, Validate, MovesOntoAnother, Occupied, Drafts, Live

LEMMA DeleteAllowed ==
  ASSUME TypeOK, NEW a \in Actors, NEW r \in DeleteRequests, Refusal(a, r) = "NONE"
  PROVE  /\ r.id \in Live(points)
         /\ r.expected = points[r.id].revision
         /\ CanManage(a, points[r.id])
         /\ revision < MaxRevision
<1>1. r.kind = "delete"
  BY DEF DeleteRequests
<1>2. DeleteRefusal(a, r) = "NONE"
  BY <1>1 DEF Refusal
<1>3. r.id \in WaypointIds
  BY DEF DeleteRequests
<1>4. revision \in 0..MaxRevision
  BY DEF TypeOK, Revisions
<1>5. /\ points[r.id] # NoPoint /\ CanManage(a, points[r.id]) /\ ~PointMoved(r)
      /\ revision # MaxRevision
  BY <1>2 DEF DeleteRefusal
<1>6. QED
  BY <1>3, <1>4, <1>5, MaxRevisionNat DEF PointMoved, Live

\* What a mutation prepares is a catalog again, one revision further.
LEMMA PreparedIsCatalog ==
  ASSUME TypeOK, NEW a \in Actors, NEW r \in Requests, Refusal(a, r) = "NONE",
         NEW i \in Targets(r)
  PROVE  /\ i \in WaypointIds
         /\ revision + 1 \in Revisions
         /\ [revision |-> revision + 1, points |-> Prepared(a, r, i)] \in Snapshots
<1> USE MaxRevisionNat
<1>1. revision \in 0..MaxRevision /\ points \in Points /\ StampsReached(revision, points)
  BY DEF TypeOK, Revisions
<1>2. a.id \in Players
  BY ActorParts
<1>3. CASE r \in CreateRequests
  <2>1. r.kind = "create"
    BY <1>3 DEF CreateRequests
  <2>2. i \in WaypointIds /\ points[i] = NoPoint
    BY <2>1 DEF Targets, Live
  <2>3. r.draft \in [block : Blocks, label : Labels] /\ revision < MaxRevision
    BY <1>3, CreateAllowed
  <2>4. Prepared(a, r, i) = Created(a, r, i)
    BY <2>1 DEF Prepared
  <2>5. Prepared(a, r, i) \in Points /\ StampsReached(revision + 1, Prepared(a, r, i))
    BY <1>1, <1>2, <2>1, <2>2, <2>3, <2>4 DEF Created, Points, Point, StampsReached, Live
  <2>6. QED
    BY <1>1, <2>2, <2>3, <2>5 DEF Snapshots, Revisions
<1>4. CASE r \in UpdateRequests
  <2>1. r.kind = "update"
    BY <1>4 DEF UpdateRequests
  <2>2. i = r.id /\ r.id \in Live(points)
    BY <1>4, <2>1, UpdateAllowed DEF Targets
  <2>3. r.draft \in [block : Blocks, label : Labels] /\ revision < MaxRevision
    BY <1>4, UpdateAllowed
  <2>4. points[r.id] \in Point
    BY <1>1, <2>2 DEF Points, Live
  <2>5. Prepared(a, r, i) = Updated(a, r)
    BY <2>1 DEF Prepared
  <2>6. Prepared(a, r, i) \in Points /\ StampsReached(revision + 1, Prepared(a, r, i))
    BY <1>1, <2>1, <2>2, <2>3, <2>4, <2>5 DEF Updated, Points, Point, StampsReached, Live
  <2>7. QED
    BY <1>1, <2>2, <2>3, <2>6 DEF Snapshots, Revisions, Live
<1>5. CASE r \in DeleteRequests
  <2>1. r.kind = "delete"
    BY <1>5 DEF DeleteRequests
  <2>2. i = r.id /\ r.id \in Live(points) /\ revision < MaxRevision
    BY <1>5, <2>1, DeleteAllowed DEF Targets
  <2>3. Prepared(a, r, i) = Deleted(r)
    BY <2>1 DEF Prepared
  <2>4. Prepared(a, r, i) \in Points /\ StampsReached(revision + 1, Prepared(a, r, i))
    BY <1>1, <2>1, <2>2, <2>3 DEF Deleted, Points, Point, StampsReached, Live
  <2>5. QED
    BY <1>1, <2>2, <2>4 DEF Snapshots, Revisions, Live
<1>6. QED
  BY <1>3, <1>4, <1>5 DEF Requests

LEMMA MutationTypes ==
  ASSUME TypeOK, NEW a \in Actors, NEW op \in OperationIds, NEW r \in Requests,
         Refusal(a, r) = "NONE", NEW i \in Targets(r)
  PROVE  NextCatalog(a, r, i) \in Snapshots /\ NewEntry(a, op, r, i) \in Entries
<1>1. a.id \in Players /\ a.operator \in BOOLEAN
  BY ActorParts
<1>2. QED
  BY <1>1, PreparedIsCatalog DEF NextCatalog, NewEntry, Entries

\* The table of players stays a sequence of players.
LEMMA TouchType ==
  ASSUME tracked \in Seq(Players), NEW p \in Players, Touch(p)
  PROVE  tracked' \in Seq(Players)
<1>1. CASE Contains(tracked, p)
  <2> DEFINE k == Position(p)
  <2>1. k \in 1..Len(tracked)
    BY <1>1 DEF Contains, Position
  <2>2. \A i \in 1..(k - 1) : tracked[i] \in Players
    BY <2>1, ElementOfSeq
  <2>3. \A i \in (k + 1)..Len(tracked) : tracked[i] \in Players
    BY <2>1, ElementOfSeq
  <2>4. SubSeq(tracked, 1, k - 1) \in Seq(Players)
    <3> HIDE DEF k
    <3> QED
      BY <2>1, <2>2, SubSeqProperties
  <2>5. SubSeq(tracked, k + 1, Len(tracked)) \in Seq(Players)
    <3> HIDE DEF k
    <3> QED
      BY <2>1, <2>3, SubSeqProperties
  <2>6. RemoveAt(tracked, k) \in Seq(Players)
    BY <2>4, <2>5, ConcatProperties DEF RemoveAt
  <2>7. QED
    BY <1>1, <2>6 DEF Touch
<1>2. CASE ~Contains(tracked, p)
  <2>1. CASE Evicted(p) = {}
    BY <1>2, <2>1 DEF Touch
  <2>2. CASE Evicted(p) # {}
    <3>1. Len(tracked) >= MaxTracked /\ MaxTracked > 0
      BY <2>2, BoundsPositive DEF Evicted
    <3>2. tracked # <<>>
      BY <3>1, EmptySeq, BoundsPositive
    <3>3. Tail(tracked) \in Seq(Players)
      BY <3>2, HeadTailProperties
    <3>4. QED
      BY <1>2, <2>2, <3>3 DEF Touch
  <2>3. QED
    BY <2>1, <2>2
<1>3. QED
  BY <1>1, <1>2

\* What admission leaves of the retained results and of the buckets.
LEMMA KeptTypes ==
  ASSUME TypeOK, NEW p \in Players, NEW charged \in BOOLEAN, charged => tokens[p] > 0
  PROVE  /\ ResultsKept(p) \in [Players -> Seq(Entries)]
         /\ TokensLeft(p, charged) \in [Players -> 0..Burst]
<1>1. results \in [Players -> Seq(Entries)] /\ tokens \in [Players -> 0..Burst]
  BY DEF TypeOK
<1>2. <<>> \in Seq(Entries)
  BY EmptySeq
<1>3. Burst \in Nat \ {0}
  BY BoundsPositive
<1>4. ResultsKept(p) \in [Players -> Seq(Entries)]
  BY <1>1, <1>2 DEF ResultsKept
<1>5. TokensLeft(p, charged) \in [Players -> 0..Burst]
  BY <1>1, <1>3 DEF TokensLeft
<1>6. QED
  BY <1>4, <1>5

LEMMA AdmitTypes ==
  ASSUME TypeOK, NEW a \in Actors, NEW op, NEW r, Admit(a, op, r)
  PROVE  /\ tracked' \in Seq(Players)
         /\ results' \in [Players -> Seq(Entries)]
         /\ tokens' \in [Players -> 0..Burst]
<1>1. a.id \in Players
  BY ActorParts
<1>2. Charged(a, r) \in BOOLEAN /\ (Charged(a, r) => tokens[a.id] > 0)
  BY DEF Charged
<1>3. QED
  BY <1>1, <1>2, TouchType, KeptTypes DEF Admit, TypeOK

\* Retaining a result keeps a sequence of results.
LEMMA RememberType ==
  ASSUME NEW kept \in Seq(Entries), NEW e \in Entries
  PROVE  Remember(kept, e) \in Seq(Entries)
<1>1. CASE Len(kept) >= MaxResults
  <2>1. kept # <<>>
    BY <1>1, EmptySeq, BoundsPositive
  <2>2. Tail(kept) \in Seq(Entries)
    BY <2>1, HeadTailProperties
  <2>3. QED
    BY <1>1, <2>2 DEF Remember
<1>2. CASE ~(Len(kept) >= MaxResults)
  BY <1>2 DEF Remember
<1>3. QED
  BY <1>1, <1>2

\* Every refusal is one of the codes a client knows.
LEMMA RefusalIsError ==
  ASSUME NEW a \in Actors, NEW r \in Requests, Refusal(a, r) # "NONE"
  PROVE  Refusal(a, r) \in Errors
<1>1. CASE r.kind = "create"
  BY <1>1 DEF Refusal, CreateRefusal, Errors
<1>2. CASE r.kind = "update"
  BY <1>2 DEF Refusal, UpdateRefusal, Errors
<1>3. CASE r.kind = "delete"
  BY <1>3 DEF Refusal, DeleteRefusal, Errors
<1>4. QED
  BY <1>1, <1>2, <1>3, RequestParts

\* One request, whatever becomes of it, keeps every variable its type.
LEMMA HandleTypes ==
  ASSUME TypeOK, NEW a \in Actors, NEW op \in OperationIds, NEW r \in Requests,
         Handle(a, op, r)
  PROVE  TypeOK'
<1>1. a.id \in Players /\ a.operator \in BOOLEAN
  BY ActorParts
<1>2. CASE Replay(a, op, r)
  <2>1. tracked' \in Seq(Players)
    BY <1>1, <1>2, TouchType DEF Replay, TypeOK
  <2>2. results' \in [Players -> Seq(Entries)] /\ tokens' \in [Players -> 0..Burst]
    BY <1>1, <1>2, KeptTypes DEF Replay
  <2>3. PICK i \in Retained(a.id, op) :
          reply' = IF SameBody(results[a.id][i], r)
                   THEN Applied(a.id, op, r, results[a.id][i].revision)
                   ELSE Rejected("INVALID_REQUEST")
    BY <1>2 DEF Replay
  <2>4. results[a.id][i] \in Entries
    BY <1>1, ElementOfSeq DEF Retained, TypeOK
  <2>5. results[a.id][i].revision \in Revisions
    BY <2>4 DEF Entries
  <2>6. Applied(a.id, op, r, results[a.id][i].revision) \in Replies
    BY <1>1, <2>5 DEF Applied, Replies
  <2>7. Rejected("INVALID_REQUEST") \in Replies
    BY DEF Rejected, Replies, Errors
  <2>8. reply' \in Replies
    BY <2>3, <2>6, <2>7
  <2>9. QED
    BY <1>2, <2>1, <2>2, <2>8 DEF Replay, TypeOK
<1>3. CASE Refuse(a, op, r)
  <2>1. reply' \in Replies
    BY <1>3, RefusalIsError DEF Refuse, Rejected, Replies
  <2>2. QED
    BY <1>3, <2>1, AdmitTypes DEF Refuse, TypeOK
<1>4. CASE SaveFails(a, op, r)
  <2>1. reply' \in Replies
    BY <1>4 DEF SaveFails, Rejected, Replies, Errors
  <2>2. QED
    BY <1>4, <2>1, AdmitTypes DEF SaveFails, TypeOK
<1>5. CASE Save(a, op, r)
  <2>1. PICK i \in Targets(r) :
          /\ file' = NextCatalog(a, r, i)
          /\ pending' = [entry |-> NewEntry(a, op, r, i), next |-> NextCatalog(a, r, i)]
          /\ log' = log \union {NewEntry(a, op, r, i)}
    BY <1>5 DEF Save
  <2>2. NextCatalog(a, r, i) \in Snapshots /\ NewEntry(a, op, r, i) \in Entries
    BY <1>5, MutationTypes DEF Save
  <2>3. pending' \in Writes /\ log' \subseteq Entries /\ file' \in Snapshots
    BY <2>1, <2>2 DEF Writes, TypeOK
  <2>4. tracked' \in Seq(Players) /\ results' \in [Players -> Seq(Entries)]
        /\ tokens' \in [Players -> 0..Burst]
    BY <1>5, AdmitTypes DEF Save
  <2>5. QED
    BY <1>5, <2>3, <2>4 DEF Save, TypeOK
<1>6. QED
  BY <1>2, <1>3, <1>4, <1>5 DEF Handle

\* What a write under way makes, and what an empty catalog is.
LEMMA SnapshotParts ==
  ASSUME NEW s \in Snapshots
  PROVE  /\ s = [revision |-> s.revision, points |-> s.points]
         /\ s.revision \in Revisions
         /\ s.points \in Points
         /\ StampsReached(s.revision, s.points)
BY DEF Snapshots, Revisions

LEMMA EmptyIsSnapshot ==
  ASSUME NEW n \in Revisions
  PROVE  [revision |-> n, points |-> NoPoints] \in Snapshots
BY DEF Snapshots, Revisions, NoPoints, Points, StampsReached, Live

\* Nobody tracked, nothing retained, every bucket full.
LEMMA NobodyTypes ==
  /\ <<>> \in Seq(Players)
  /\ Fresh \in [Players -> Seq(Entries)]
  /\ FullBuckets \in [Players -> 0..Burst]
<1>1. <<>> \in Seq(Players) /\ <<>> \in Seq(Entries)
  BY EmptySeq
<1>2. QED
  BY <1>1, BoundsPositive DEF Fresh, FullBuckets

\* Every variable keeps its type; no point is stamped with a revision its
\* catalog has not reached, in memory or in the file.
THEOREM ServiceTypeOK == Spec => []TypeOK
<1>1. Init => TypeOK
  <2> SUFFICES ASSUME Init PROVE TypeOK
    OBVIOUS
  <2>1. file \in Snapshots
    BY StartFilesLoadable DEF Init
  <2>2. revision \in Revisions /\ points \in Points /\ StampsReached(revision, points)
    BY <2>1, SnapshotParts DEF Init
  <2>3. QED
    BY <2>1, <2>2, NobodyTypes DEF Init, TypeOK
<1>2. TypeOK /\ [Next]_vars => TypeOK'
  <2> SUFFICES ASSUME TypeOK, [Next]_vars PROVE TypeOK'
    OBVIOUS
  <2>1. CASE Create \/ Update \/ Delete
    BY <2>1, HandleTypes DEF Create, Update, Delete, Requests
  <2>2. CASE Commit
    <3>1. pending \in Writes /\ pending.entry \in Entries /\ pending.next \in Snapshots
      BY <2>2 DEF Commit, TypeOK, Writes
    <3> DEFINE e == pending.entry
    <3>2. e.player \in Players /\ e.op \in OperationIds /\ e.request \in Requests
          /\ e.revision \in Revisions
      BY <3>1 DEF Entries
    <3>3. reply' \in Replies
      BY <2>2, <3>2 DEF Commit, Applied, Replies
    <3>4. Remember(results[e.player], e) \in Seq(Entries)
      BY <3>1, <3>2, RememberType DEF TypeOK
    <3>5. results' \in [Players -> Seq(Entries)]
      BY <2>2, <3>2, <3>4 DEF Commit, TypeOK
    <3>6. revision' \in Revisions /\ points' \in Points /\ StampsReached(revision', points')
      BY <2>2, <3>1, SnapshotParts DEF Commit
    <3>7. QED
      BY <2>2, <3>3, <3>5, <3>6 DEF Commit, TypeOK
  <2>3. CASE ClearSave
    <3>1. ClearedRevision \in Revisions
      BY <2>3, LiveCount, MaxRevisionNat DEF ClearSave, ClearedRevision, Revisions, TypeOK
    <3>2. file' \in Snapshots /\ pending' \in Writes
      BY <2>3, <3>1, EmptyIsSnapshot DEF ClearSave, Writes
    <3>3. QED
      BY <2>3, <3>2 DEF ClearSave, TypeOK
  <2>4. CASE ClearInstall
    <3>1. pending.next \in Snapshots
      BY <2>4 DEF ClearInstall, TypeOK, Writes
    <3>2. revision' \in Revisions /\ points' \in Points /\ StampsReached(revision', points')
      BY <2>4, <3>1, SnapshotParts DEF ClearInstall
    <3>3. QED
      BY <2>4, <3>2, NobodyTypes DEF ClearInstall, TypeOK
  <2>5. CASE Refill
    <3>1. tokens' \in [Players -> 0..Burst]
      BY <2>5, BoundsPositive DEF Refill, TypeOK
    <3>2. QED
      BY <2>5, <3>1 DEF Refill, TypeOK
  <2>6. CASE Restart
    <3>1. revision' \in Revisions /\ points' \in Points /\ StampsReached(revision', points')
      BY <2>6, SnapshotParts DEF Restart, TypeOK
    <3>2. QED
      BY <2>6, <3>1, NobodyTypes DEF Restart, TypeOK
  <2>7. CASE UNCHANGED vars
    BY <2>7 DEF vars, TypeOK
  <2>8. QED
    BY <2>1, <2>2, <2>3, <2>4, <2>5, <2>6, <2>7 DEF Next
<1>3. QED
  BY <1>1, <1>2, PTL DEF Spec

(***************************************************************************)
(* The steps of the file.                                                  *)
(***************************************************************************)
\* A mutation by a, under op, that touches id i was written.
Written(a, op, r, i) ==
  /\ Refusal(a, r) = "NONE"
  /\ i \in Targets(r)
  /\ file' = NextCatalog(a, r, i)
  /\ log' = log \union {NewEntry(a, op, r, i)}

\* The file listed points and was wiped.
Wiped ==
  /\ Live(points) # {}
  /\ ClearedRevision <= MaxRevision
  /\ file' = [revision |-> ClearedRevision, points |-> NoPoints]
  /\ log' = log

\* Whatever happens, the file stands still, or a mutation the checks let through
\* is written over the catalog in memory, or a wipe is.
LEMMA FileSteps ==
  ASSUME [Next]_vars
  PROVE  \/ file' = file /\ log' = log
         \/ /\ pending = None
            /\ \E a \in Actors, op \in OperationIds, r \in Requests, i \in WaypointIds :
                 Written(a, op, r, i)
         \/ pending = None /\ Wiped
<1>1. ASSUME NEW a \in Actors, NEW op \in OperationIds, NEW r \in Requests, Handle(a, op, r)
      PROVE  \/ file' = file /\ log' = log
             \/ pending = None /\ \E i \in WaypointIds : Written(a, op, r, i)
  <2>1. CASE Replay(a, op, r)
    BY <2>1 DEF Replay
  <2>2. CASE Refuse(a, op, r)
    BY <2>2 DEF Refuse
  <2>3. CASE SaveFails(a, op, r)
    BY <2>3 DEF SaveFails
  <2>4. CASE Save(a, op, r)
    <3>1. Targets(r) \subseteq WaypointIds
      BY RequestParts DEF Targets
    <3>2. QED
      BY <2>4, <3>1 DEF Save, Admit, Written
  <2>5. QED
    BY <1>1, <2>1, <2>2, <2>3, <2>4 DEF Handle
<1>2. CASE Create \/ Update \/ Delete
  <2>1. PICK a \in Actors, op \in OperationIds, r \in Requests : Handle(a, op, r)
    BY <1>2 DEF Create, Update, Delete, Requests
  <2>2. QED
    BY <1>1, <2>1
<1>3. CASE Commit
  BY <1>3 DEF Commit
<1>4. CASE ClearSave
  BY <1>4 DEF ClearSave, Wiped
<1>5. CASE ClearInstall
  BY <1>5 DEF ClearInstall
<1>6. CASE Refill
  BY <1>6 DEF Refill
<1>7. CASE Restart
  BY <1>7 DEF Restart
<1>8. CASE UNCHANGED vars
  BY <1>8 DEF vars
<1>9. QED
  BY <1>2, <1>3, <1>4, <1>5, <1>6, <1>7, <1>8 DEF Next

(***************************************************************************)
(* The file and the catalog.                                               *)
(***************************************************************************)
\* The catalog clients are served is the one the file would bring back
\* (Service::persist runs before Store::commit).
THEOREM ServiceDurable == Spec => []CatalogIsDurable
<1>1. Init => CatalogIsDurable
  <2> SUFFICES ASSUME Init PROVE CatalogIsDurable
    OBVIOUS
  <2>1. file \in Snapshots
    BY StartFilesLoadable DEF Init
  <2>2. QED
    BY <2>1, SnapshotParts DEF Init, CatalogIsDurable
<1>2. TypeOK /\ CatalogIsDurable /\ [Next]_vars => CatalogIsDurable'
  <2> SUFFICES ASSUME TypeOK, CatalogIsDurable, [Next]_vars PROVE CatalogIsDurable'
    OBVIOUS
  <2>1. ASSUME NEW a \in Actors, NEW op \in OperationIds, NEW r \in Requests, Handle(a, op, r)
        PROVE  CatalogIsDurable'
    <3>1. CASE Replay(a, op, r)
      BY <3>1 DEF Replay, CatalogIsDurable
    <3>2. CASE Refuse(a, op, r)
      BY <3>2 DEF Refuse, CatalogIsDurable
    <3>3. CASE SaveFails(a, op, r)
      BY <3>3 DEF SaveFails, CatalogIsDurable
    <3>4. CASE Save(a, op, r)
      <4>1. PICK i \in Targets(r) :
              /\ file' = NextCatalog(a, r, i)
              /\ pending' = [entry |-> NewEntry(a, op, r, i), next |-> NextCatalog(a, r, i)]
        BY <3>4 DEF Save
      <4>2. pending' \in Writes
        BY <3>4, <4>1, MutationTypes DEF Save, Writes
      <4>3. QED
        BY <4>1, <4>2, NoneIsNothing DEF CatalogIsDurable
    <3>5. QED
      BY <2>1, <3>1, <3>2, <3>3, <3>4 DEF Handle
  <2>2. CASE Create \/ Update \/ Delete
    BY <2>1, <2>2 DEF Create, Update, Delete, Requests
  <2>3. CASE Commit \/ ClearInstall
    <3>1. pending # None /\ pending.next \in Snapshots
      BY <2>3 DEF Commit, ClearInstall, TypeOK, Writes
    <3>2. file' = pending.next /\ pending' = None
          /\ revision' = pending.next.revision /\ points' = pending.next.points
      BY <2>3, <3>1 DEF Commit, ClearInstall, CatalogIsDurable
    <3>3. QED
      BY <3>1, <3>2, SnapshotParts DEF CatalogIsDurable
  <2>4. CASE ClearSave
    <3>1. ClearedRevision \in Revisions
      BY <2>4, LiveCount, MaxRevisionNat DEF ClearSave, ClearedRevision, Revisions, TypeOK
    <3>2. pending' \in Writes /\ file' = pending'.next
      BY <2>4, <3>1, EmptyIsSnapshot DEF ClearSave, Writes
    <3>3. QED
      BY <3>2, NoneIsNothing DEF CatalogIsDurable
  <2>5. CASE Refill
    BY <2>5 DEF Refill, CatalogIsDurable
  <2>6. CASE Restart
    BY <2>6, SnapshotParts DEF Restart, CatalogIsDurable, TypeOK
  <2>7. CASE UNCHANGED vars
    BY <2>7 DEF vars, CatalogIsDurable
  <2>8. QED
    BY <2>2, <2>3, <2>4, <2>5, <2>6, <2>7 DEF Next
<1>3. QED
  BY <1>1, <1>2, ServiceTypeOK, PTL DEF Spec

(***************************************************************************)
(* The file implements the catalog.                                        *)
(***************************************************************************)
\* A mutation that is written is one of the catalog's steps.
LEMMA WrittenIsCatalogStep ==
  ASSUME TypeOK, CatalogIsDurable, pending = None,
         NEW a \in Actors, NEW op \in OperationIds, NEW r \in Requests, NEW i \in WaypointIds,
         Written(a, op, r, i)
  PROVE  Durable!Next
<1>1. file = [revision |-> revision, points |-> points]
  BY DEF CatalogIsDurable
<1>2. revision \in Nat
  BY MaxRevisionNat DEF TypeOK, Revisions
<1>3. a.id \in Players
  BY ActorParts
<1>4. CASE r \in CreateRequests
  <2>1. r.kind = "create"
    BY <1>4 DEF CreateRequests
  <2>2. /\ r.draft \in [block : Blocks, label : Labels]
        /\ At(points, r.draft.block) = {}
        /\ revision < MaxRevision
    BY <1>4, CreateAllowed DEF Written
  <2>3. points[i] = NoPoint
    BY <2>1 DEF Written, Targets, Live
  <2>4. file' = [revision |-> revision + 1, points |-> Created(a, r, i)]
    BY <2>1 DEF Written, NextCatalog, Prepared
  <2>5. Durable!Publish(i, a.id, r.draft.block, r.draft.label)
    BY <1>1, <2>2, <2>3, <2>4 DEF Durable!Publish, Durable!At, Durable!Live, At, Live, Created
  <2>6. r.draft.block \in Blocks /\ r.draft.label \in Labels
    BY <2>2
  <2>7. QED
    BY <1>3, <2>5, <2>6 DEF Durable!Next
<1>5. CASE r \in UpdateRequests
  <2>1. r.kind = "update"
    BY <1>5 DEF UpdateRequests
  <2>2. /\ r.id \in Live(points)
        /\ r.draft \in [block : Blocks, label : Labels]
        /\ r.draft.block = points[r.id].block \/ At(points, r.draft.block) = {}
        /\ revision < MaxRevision
    BY <1>5, UpdateAllowed DEF Written
  <2>3. i = r.id
    BY <2>1 DEF Written, Targets
  <2>4. file' = [revision |-> revision + 1, points |-> Updated(a, r)]
    BY <2>1 DEF Written, NextCatalog, Prepared
  <2>5. Durable!Amend(i, r.draft.block, r.draft.label)
    BY <1>1, <2>2, <2>3, <2>4 DEF Durable!Amend, Durable!At, Durable!Live, At, Live, Updated
  <2>6. r.draft.block \in Blocks /\ r.draft.label \in Labels
    BY <2>2
  <2>7. QED
    BY <2>5, <2>6 DEF Durable!Next
<1>6. CASE r \in DeleteRequests
  <2>1. r.kind = "delete"
    BY <1>6 DEF DeleteRequests
  <2>2. r.id \in Live(points) /\ revision < MaxRevision
    BY <1>6, DeleteAllowed DEF Written
  <2>3. i = r.id
    BY <2>1 DEF Written, Targets
  <2>4. file' = [revision |-> revision + 1, points |-> Deleted(r)]
    BY <2>1 DEF Written, NextCatalog, Prepared
  <2>5. Durable!Withdraw(i)
    BY <1>1, <2>2, <2>3, <2>4 DEF Durable!Withdraw, Live, Deleted
  <2>6. QED
    BY <2>5 DEF Durable!Next
<1>7. QED
  BY <1>4, <1>5, <1>6 DEF Requests

\* The file, read as a catalog, only ever moves as a catalog may: mutations,
\* failed writes, wipes and restarts included.
THEOREM ServiceImplementsCatalog == Spec => ImplementsCatalog
<1>1. Init => Durable!Init
  <2> SUFFICES ASSUME Init PROVE Durable!Init
    OBVIOUS
  <2>1. file \in Snapshots
    BY StartFilesLoadable DEF Init
  <2>2. QED
    BY <2>1 DEF Snapshots, Durable!Init, Durable!Points, Durable!Point, Durable!StampsReached,
                Durable!Live, Points, Point, StampsReached, Live
<1>2. TypeOK /\ CatalogIsDurable /\ [Next]_vars => [Durable!Next]_(Durable!vars)
  <2> SUFFICES ASSUME TypeOK, CatalogIsDurable, [Next]_vars
               PROVE  Durable!Next \/ UNCHANGED Durable!vars
    OBVIOUS
  <2>1. CASE file' = file
    BY <2>1 DEF Durable!vars
  <2>2. CASE pending = None /\ Wiped
    <3>1. file.revision = revision /\ file.points = points
      BY <2>2 DEF CatalogIsDurable
    <3>2. Durable!Live(file.points) = Live(points) /\ Durable!NoPoints = NoPoints
      BY <3>1 DEF Durable!Live, Durable!NoPoints, Live, NoPoints
    <3>3. /\ Durable!Live(file.points) # {}
          /\ file.revision + Cardinality(Durable!Live(file.points)) <= MaxRevision
          /\ file'.revision = file.revision + Cardinality(Durable!Live(file.points))
          /\ file'.points = Durable!NoPoints
      BY <2>2, <3>1, <3>2 DEF Wiped, ClearedRevision
    <3>4. Durable!Cardinality(Durable!Live(file.points)) = Cardinality(Durable!Live(file.points))
      BY DEF Durable!Cardinality, Cardinality
    <3>5. Durable!Wipe
      BY <3>3, <3>4 DEF Durable!Wipe
    <3>6. QED
      BY <3>5 DEF Durable!Next
  <2>3. QED
    BY <2>1, <2>2, FileSteps, WrittenIsCatalogStep
<1>3. QED
  BY <1>1, <1>2, ServiceTypeOK, ServiceDurable, PTL DEF Spec, ImplementsCatalog, Durable!Spec

\* What one step of the catalog does to the publishers and to the blocks.
LEMMA CatalogStepPublishers ==
  ASSUME file.points \in Points, Durable!Next
  PROVE  \A j \in Durable!Live(file.points) \intersect Durable!Live((file.points)') :
           (file.points)'[j].publisher = file.points[j].publisher
<1> USE DEF Points, Point, Durable!Live
<1>1. ASSUME NEW i \in WaypointIds, NEW p \in Players, NEW b \in Blocks, NEW l \in Labels,
             Durable!Publish(i, p, b, l)
      PROVE  \A j \in Durable!Live(file.points) \intersect Durable!Live((file.points)') :
               (file.points)'[j].publisher = file.points[j].publisher
  BY <1>1 DEF Durable!Publish
<1>2. ASSUME NEW i \in WaypointIds, NEW b \in Blocks, NEW l \in Labels, Durable!Amend(i, b, l)
      PROVE  \A j \in Durable!Live(file.points) \intersect Durable!Live((file.points)') :
               (file.points)'[j].publisher = file.points[j].publisher
  BY <1>2 DEF Durable!Amend
<1>3. ASSUME NEW i \in WaypointIds, Durable!Withdraw(i)
      PROVE  \A j \in Durable!Live(file.points) \intersect Durable!Live((file.points)') :
               (file.points)'[j].publisher = file.points[j].publisher
  BY <1>3 DEF Durable!Withdraw
<1>4. CASE Durable!Wipe
  BY <1>4 DEF Durable!Wipe, Durable!NoPoints
<1>5. QED
  BY <1>1, <1>2, <1>3, <1>4 DEF Durable!Next

LEMMA CatalogStepBlocks ==
  ASSUME file.points \in Points, Durable!Next, NEW b \in Blocks
  PROVE  \/ Durable!At((file.points)', b) \subseteq Durable!At(file.points, b)
         \/ /\ Durable!At(file.points, b) = {}
            /\ \E i \in WaypointIds : Durable!At((file.points)', b) = {i}
<1> USE NoPointIsNoPoint DEF Points, Point, Durable!Live, Durable!At
<1>1. ASSUME NEW i \in WaypointIds, NEW p \in Players, NEW c \in Blocks, NEW l \in Labels,
             Durable!Publish(i, p, c, l)
      PROVE  \/ Durable!At((file.points)', b) \subseteq Durable!At(file.points, b)
             \/ Durable!At(file.points, b) = {} /\ Durable!At((file.points)', b) = {i}
  BY <1>1 DEF Durable!Publish
<1>2. ASSUME NEW i \in WaypointIds, NEW c \in Blocks, NEW l \in Labels, Durable!Amend(i, c, l)
      PROVE  \/ Durable!At((file.points)', b) \subseteq Durable!At(file.points, b)
             \/ Durable!At(file.points, b) = {} /\ Durable!At((file.points)', b) = {i}
  BY <1>2 DEF Durable!Amend
<1>3. ASSUME NEW i \in WaypointIds, Durable!Withdraw(i)
      PROVE  Durable!At((file.points)', b) \subseteq Durable!At(file.points, b)
  BY <1>3 DEF Durable!Withdraw
<1>4. CASE Durable!Wipe
  BY <1>4 DEF Durable!Wipe, Durable!NoPoints
<1>5. QED
  BY <1>1, <1>2, <1>3, <1>4 DEF Durable!Next

\* A listed point keeps its publisher, through edits by operators, failed
\* writes and restarts (update copies publisher_id).
THEOREM ServicePublisherFixed == Spec => PublisherFixed
<1>1. TypeOK => file.points \in Points
  BY SnapshotParts DEF TypeOK
<1>2. TypeOK /\ [Durable!Next]_(Durable!vars)
        => [\A i \in Durable!Live(file.points) \intersect Durable!Live((file.points)') :
              (file.points)'[i].publisher = file.points[i].publisher]_(Durable!vars)
  BY <1>1, CatalogStepPublishers
<1>3. QED
  BY <1>2, ServiceTypeOK, ServiceImplementsCatalog, PTL
     DEF ImplementsCatalog, Durable!Spec, PublisherFixed, Durable!PublisherFixed

\* No block ever gets a second point, whatever the file overlaps on to begin
\* with (prepare_create and prepare_update ask find_at).
THEOREM ServiceOverlap == Spec => OverlapNeverGrows
<1>1. TypeOK => file.points \in Points
  BY SnapshotParts DEF TypeOK
<1>2. TypeOK /\ [Durable!Next]_(Durable!vars)
        => [\A b \in Blocks :
              \/ Durable!At((file.points)', b) \subseteq Durable!At(file.points, b)
              \/ /\ Durable!At(file.points, b) = {}
                 /\ \E i \in WaypointIds : Durable!At((file.points)', b) = {i}]_(Durable!vars)
  BY <1>1, CatalogStepBlocks
<1>3. QED
  BY <1>2, ServiceTypeOK, ServiceImplementsCatalog, PTL
     DEF ImplementsCatalog, Durable!Spec, OverlapNeverGrows, Durable!OverlapNeverGrows

(***************************************************************************)
(* The history.                                                            *)
(***************************************************************************)
\* What holds of a mutation at the moment it is written: it is the first at its
\* revision, and was decided on the version its author names.
LEMMA WrittenOnSeen ==
  ASSUME TypeOK, CatalogIsDurable, pending = None,
         NEW a \in Actors, NEW op \in OperationIds, NEW r \in Requests, NEW i \in WaypointIds,
         Written(a, op, r, i)
  PROVE  /\ file.revision = revision /\ file.points = points /\ revision \in Nat
         /\ file'.revision = revision + 1
         /\ \A j \in WaypointIds \ {i} : file'.points[j] = points[j]
         /\ r.kind = "create" =>
              /\ r.expected = revision
              /\ points[i] = NoPoint
              /\ file'.points[i].publisher = a.id
              /\ file'.points[i].revision = revision + 1
         /\ r.kind # "create" =>
              /\ r.id = i
              /\ i \in Live(points)
              /\ points[i].revision \in Nat /\ points[i].revision <= revision
              /\ r.expected = points[i].revision
              /\ CanManage(a, points[i])
              /\ \/ file'.points[i] = NoPoint
                 \/ /\ file'.points[i].publisher = points[i].publisher
                    /\ file'.points[i].revision = revision + 1
<1>1. file.revision = revision /\ file.points = points
  BY DEF CatalogIsDurable
<1>2. revision \in Nat /\ points \in Points /\ StampsReached(revision, points)
  BY MaxRevisionNat DEF TypeOK, Revisions
<1>3. file' = [revision |-> revision + 1, points |-> Prepared(a, r, i)]
  BY DEF Written, NextCatalog
<1>4. CASE r \in CreateRequests
  <2>1. r.kind = "create"
    BY <1>4 DEF CreateRequests
  <2>2. Prepared(a, r, i) = Created(a, r, i)
    BY <2>1 DEF Prepared
  <2>3. r.expected = revision
    BY <1>4, CreateAllowed DEF Written
  <2>4. points[i] = NoPoint
    BY <2>1 DEF Written, Targets, Live
  <2>5. QED
    BY <1>1, <1>2, <1>3, <2>1, <2>2, <2>3, <2>4 DEF Created, Points
<1>5. CASE r \in UpdateRequests
  <2>1. r.kind = "update"
    BY <1>5 DEF UpdateRequests
  <2>2. Prepared(a, r, i) = Updated(a, r)
    BY <2>1 DEF Prepared
  <2>3. r.id = i
    BY <2>1 DEF Written, Targets
  <2>4. i \in Live(points) /\ r.expected = points[i].revision /\ CanManage(a, points[i])
    BY <1>5, <2>3, UpdateAllowed DEF Written
  <2>5. points[i].revision \in Nat /\ points[i].revision <= revision
    BY <1>2, <2>4 DEF Points, Point, Live, StampsReached
  <2>6. QED
    BY <1>1, <1>2, <1>3, <2>1, <2>2, <2>3, <2>4, <2>5 DEF Updated, Points
<1>6. CASE r \in DeleteRequests
  <2>1. r.kind = "delete"
    BY <1>6 DEF DeleteRequests
  <2>2. Prepared(a, r, i) = Deleted(r)
    BY <2>1 DEF Prepared
  <2>3. r.id = i
    BY <2>1 DEF Written, Targets
  <2>4. i \in Live(points) /\ r.expected = points[i].revision /\ CanManage(a, points[i])
    BY <1>6, <2>3, DeleteAllowed DEF Written
  <2>5. points[i].revision \in Nat /\ points[i].revision <= revision
    BY <1>2, <2>4 DEF Points, Point, Live, StampsReached
  <2>6. QED
    BY <1>1, <1>2, <1>3, <2>1, <2>2, <2>3, <2>4, <2>5 DEF Deleted, Points
<1>7. QED
  BY <1>4, <1>5, <1>6 DEF Requests

LEMMA EntryParts ==
  ASSUME TypeOK, NEW e \in log
  PROVE  /\ e.player \in Players
         /\ e.operator \in BOOLEAN
         /\ e.id \in WaypointIds
         /\ e.revision \in Nat
         /\ e.request \in Requests
         /\ e.request.expected \in Nat
<1>1. e \in Entries
  BY DEF TypeOK
<1>2. e.request \in Requests /\ e.revision \in Revisions
  BY <1>1 DEF Entries
<1>3. QED
  BY <1>1, <1>2, RequestParts, MaxRevisionNat DEF Entries, Revisions

\* The inductive invariant of the history.
HistoryInv == HistoryAgrees /\ NothingInBetween /\ OwnersOnly

LEMMA HistoryStart == Init => HistoryInv
BY DEF Init, HistoryInv, HistoryAgrees, NothingInBetween, OwnersOnly

LEMMA HistoryUntouched ==
  ASSUME HistoryInv, file' = file, log' = log
  PROVE  HistoryInv'
BY DEF HistoryInv, HistoryAgrees, NothingInBetween, OwnersOnly

LEMMA HistoryWiped ==
  ASSUME TypeOK, CatalogIsDurable, HistoryInv, pending = None, Wiped
  PROVE  HistoryInv'
<1>1. Live(file'.points) = {}
  BY DEF Wiped, Live, NoPoints
<1>2. file'.revision \in Nat /\ file.revision \in Nat /\ file.revision <= file'.revision
  BY LiveCount, MaxRevisionNat DEF Wiped, ClearedRevision, CatalogIsDurable, TypeOK, Revisions
<1>3. \A e \in log : e.revision <= file.revision => e.revision <= file'.revision
  BY <1>2, EntryParts
<1>4. HistoryAgrees'
  BY <1>1, <1>3 DEF HistoryInv, HistoryAgrees, Wiped
<1>5. NothingInBetween' /\ OwnersOnly'
  BY DEF HistoryInv, NothingInBetween, OwnersOnly, Wiped
<1>6. QED
  BY <1>4, <1>5 DEF HistoryInv

LEMMA HistoryWritten ==
  ASSUME TypeOK, TypeOK', CatalogIsDurable, HistoryInv, pending = None,
         NEW a \in Actors, NEW op \in OperationIds, NEW r \in Requests, NEW i \in WaypointIds,
         Written(a, op, r, i)
  PROVE  HistoryInv'
<1> DEFINE n == NewEntry(a, op, r, i)
<1>1. /\ log' = log \union {n} /\ n.player = a.id /\ n.operator = a.operator
      /\ n.request = r /\ n.id = i /\ n.revision = revision + 1
  BY DEF Written, NewEntry
<1>2. \A e \in log : /\ e.revision \in Nat /\ e.request.expected \in Nat
                     /\ 0 < e.revision /\ e.revision <= revision
                     /\ e.request.expected < e.revision
  BY EntryParts, WrittenOnSeen DEF HistoryInv, HistoryAgrees
<1>3. revision \in Nat /\ file.points = points /\ file'.revision = revision + 1
  BY WrittenOnSeen
<1>4. n.request.expected \in Nat /\ n.request.expected < revision + 1
  BY <1>1, WrittenOnSeen
<1> HIDE DEF n
<1>5. \A e \in log' : /\ 0 < e.revision /\ e.revision <= file'.revision
                      /\ e.request.expected < e.revision
                      /\ e.request.kind = "create" => e.request.expected + 1 = e.revision
                      /\ e.request.kind # "create" => e.request.id = e.id
  <2>1. \A e \in log : /\ 0 < e.revision /\ e.revision <= file'.revision
                       /\ e.request.expected < e.revision
                       /\ e.request.kind = "create" => e.request.expected + 1 = e.revision
                       /\ e.request.kind # "create" => e.request.id = e.id
    BY <1>2, <1>3 DEF HistoryInv, HistoryAgrees
  <2>2. /\ 0 < n.revision /\ n.revision <= file'.revision
        /\ n.request.expected < n.revision
        /\ n.request.kind = "create" => n.request.expected + 1 = n.revision
        /\ n.request.kind # "create" => n.request.id = n.id
    BY <1>1, <1>3, <1>4, WrittenOnSeen
  <2>3. QED
    BY <1>1, <2>1, <2>2
<1>6. \A e \in log' : e.id \in Live(file'.points) => e.revision <= file'.points[e.id].revision
  <2>1. ASSUME NEW e \in log', e.id \in Live(file'.points)
        PROVE  e.revision <= file'.points[e.id].revision
    <3>1. CASE e.id = i
      <4>1. file'.points[i].revision = revision + 1
        BY <2>1, <3>1, WrittenOnSeen, RequestParts DEF Live
      <4>2. e.revision <= revision + 1
        BY <1>1, <1>2, <1>3
      <4>3. QED
        BY <3>1, <4>1, <4>2
    <3>2. CASE e.id # i
      <4>1. e \in log /\ e.id \in WaypointIds
        BY <1>1, <3>2, EntryParts
      <4>2. file'.points[e.id] = file.points[e.id] /\ e.id \in Live(file.points)
        BY <1>3, <2>1, <3>2, <4>1, WrittenOnSeen DEF Live
      <4>3. QED
        BY <4>1, <4>2 DEF HistoryInv, HistoryAgrees
    <3>3. QED
      BY <3>1, <3>2
  <2>2. QED
    BY <2>1
<1>7. \A e1, e2 \in log' : e1.revision = e2.revision => e1 = e2
  <2>1. \A e \in log : e.revision # n.revision
    BY <1>1, <1>2, <1>3
  <2>2. \A e1, e2 \in log : e1.revision = e2.revision => e1 = e2
    BY DEF HistoryInv, HistoryAgrees
  <2>3. QED
    BY <1>1, <2>1, <2>2
<1>8. \A c \in log' :
        /\ c.request.kind = "create"
        /\ c.id \in Live(file'.points)
        /\ \A d \in log' : (d.request.kind = "create" /\ d.id = c.id) => d.revision <= c.revision
        => file'.points[c.id].publisher = c.player
  <2>1. ASSUME NEW c \in log', c.request.kind = "create", c.id \in Live(file'.points),
               \A d \in log' : (d.request.kind = "create" /\ d.id = c.id) => d.revision <= c.revision
        PROVE  file'.points[c.id].publisher = c.player
    <3>1. CASE c = n
      BY <1>1, <2>1, <3>1, WrittenOnSeen
    <3>2. CASE c # n
      <4>1. c \in log
        BY <1>1, <3>2
      <4>2. c.id \in WaypointIds
        BY <4>1, EntryParts
      <4>3. \A d \in log : (d.request.kind = "create" /\ d.id = c.id) => d.revision <= c.revision
        BY <1>1, <2>1
      <4>4. c.id = i => r.kind # "create"
        <5>1. ~(n.revision <= c.revision)
          BY <1>1, <1>2, <1>3, <4>1
        <5>2. QED
          BY <1>1, <2>1, <5>1
      <4>5. /\ c.id \in Live(file.points)
            /\ file'.points[c.id].publisher = file.points[c.id].publisher
        BY <1>3, <2>1, <4>2, <4>4, WrittenOnSeen DEF Live
      <4>6. QED
        BY <2>1, <4>1, <4>3, <4>5 DEF HistoryInv, HistoryAgrees
    <3>3. QED
      BY <3>1, <3>2
  <2>2. QED
    BY <2>1
<1>9. NothingInBetween'
  <2>1. ASSUME NEW e1 \in log', NEW e2 \in log',
               e2.request.expected < e1.revision, e1.revision < e2.revision
        PROVE  e2.request.kind # "create" /\ e1.id # e2.id
    <3>1. e1 \in log
      BY <1>1, <1>2, <1>3, <2>1
    <3>2. CASE e2 = n
      <4>1. e1.revision \in Nat /\ e1.revision <= revision /\ r.expected < e1.revision
        BY <1>1, <1>2, <2>1, <3>1, <3>2
      <4>2. r.kind # "create"
        BY <1>3, <4>1, WrittenOnSeen
      <4>3. CASE e1.id = i
        <5>1. e1.revision <= points[i].revision
          BY <1>3, <3>1, <4>2, <4>3, WrittenOnSeen DEF HistoryInv, HistoryAgrees
        <5>2. r.expected = points[i].revision /\ points[i].revision \in Nat
          BY <4>2, WrittenOnSeen
        <5>3. QED
          BY <4>1, <5>1, <5>2
      <4>4. QED
        BY <1>1, <3>2, <4>2, <4>3
    <3>3. CASE e2 # n
      <4>1. e2 \in log
        BY <1>1, <3>3
      <4>2. QED
        BY <2>1, <3>1, <4>1 DEF HistoryInv, NothingInBetween
    <3>4. QED
      BY <3>2, <3>3
  <2>2. QED
    BY <2>1 DEF NothingInBetween
<1>10. OwnersOnly'
  <2>1. ASSUME NEW e \in log', NEW c \in log',
               ~e.operator, e.request.kind # "create", c.request.kind = "create",
               c.id = e.id, c.revision < e.revision,
               \A d \in log' : (d.request.kind = "create" /\ d.id = e.id) =>
                 (d.revision <= c.revision \/ e.revision < d.revision)
        PROVE  c.player = e.player
    <3>1. c \in log
      BY <1>1, <1>2, <1>3, <2>1
    <3>2. \A d \in log : (d.request.kind = "create" /\ d.id = e.id) =>
            (d.revision <= c.revision \/ e.revision < d.revision)
      BY <1>1, <2>1
    <3>3. CASE e = n
      <4>1. points[i].publisher = a.id /\ i \in Live(points)
        BY <1>1, <2>1, <3>3, WrittenOnSeen DEF CanManage
      <4>2. \A d \in log : (d.request.kind = "create" /\ d.id = c.id) => d.revision <= c.revision
        BY <1>1, <1>2, <1>3, <2>1, <3>2, <3>3
      <4>3. points[i].publisher = c.player
        BY <1>1, <1>3, <2>1, <3>1, <3>3, <4>1, <4>2 DEF HistoryInv, HistoryAgrees
      <4>4. QED
        BY <1>1, <3>3, <4>1, <4>3
    <3>4. CASE e # n
      <4>1. e \in log
        BY <1>1, <3>4
      <4>2. QED
        BY <2>1, <3>1, <3>2, <4>1 DEF HistoryInv, OwnersOnly
    <3>5. QED
      BY <3>3, <3>4
  <2>2. QED
    BY <2>1 DEF OwnersOnly
<1>11. HistoryAgrees'
  BY <1>5, <1>6, <1>7, <1>8 DEF HistoryAgrees
<1>12. QED
  BY <1>9, <1>10, <1>11 DEF HistoryInv

LEMMA HistoryAlways == Spec => []HistoryInv
<1>1. TypeOK /\ TypeOK' /\ CatalogIsDurable /\ HistoryInv /\ [Next]_vars => HistoryInv'
  BY FileSteps, HistoryUntouched, HistoryWiped, HistoryWritten
<1>2. QED
  BY <1>1, HistoryStart, ServiceTypeOK, ServiceDurable, PTL DEF Spec

\* No mutation comes between the version a request names and its application
\* (the revision tests of create, update and delete).
THEOREM ServiceNothingInBetween == Spec => []NothingInBetween
BY HistoryAlways, PTL DEF HistoryInv

\* Without the operator level a player only changes points it created last
\* (can_manage, over every policy change, edit by an operator and restart).
THEOREM ServiceOwnersOnly == Spec => []OwnersOnly
BY HistoryAlways, PTL DEF HistoryInv

\* One mutation per revision, and the file's points bear the stamps and the
\* publishers the history gives them.
THEOREM ServiceHistoryAgrees == Spec => []HistoryAgrees
BY HistoryAlways, PTL DEF HistoryInv

\* A request that is sent again never changes the catalog again, whether its
\* result is still retained or not: its expected revision has been passed.
THEOREM ServiceAppliedAtMostOnce == Spec => []AppliedAtMostOnce
<1>1. TypeOK /\ HistoryInv => AppliedAtMostOnce
  <2> SUFFICES ASSUME TypeOK, HistoryInv, NEW e1 \in log, NEW e2 \in log,
                      e1.request = e2.request, e1 # e2
               PROVE  FALSE
    BY DEF AppliedAtMostOnce
  <2>1. ASSUME NEW d1 \in log, NEW d2 \in log, d1.request = d2.request,
               d1.revision < d2.revision
        PROVE  FALSE
    <3>1. d2.request.expected < d1.revision
      BY <2>1 DEF HistoryInv, HistoryAgrees
    <3>2. d2.request.kind # "create" /\ d1.id # d2.id
      BY <2>1, <3>1 DEF HistoryInv, NothingInBetween
    <3>3. d1.id = d1.request.id /\ d2.id = d2.request.id
      BY <2>1, <3>2 DEF HistoryInv, HistoryAgrees
    <3>4. QED
      BY <2>1, <3>2, <3>3
  <2>2. e1.revision # e2.revision /\ e1.revision \in Nat /\ e2.revision \in Nat
    BY EntryParts DEF HistoryInv, HistoryAgrees
  <2>3. CASE e1.revision < e2.revision
    BY <2>1, <2>3
  <2>4. CASE e2.revision < e1.revision
    BY <2>1, <2>4
  <2>5. QED
    BY <2>2, <2>3, <2>4
<1>2. QED
  BY <1>1, HistoryAlways, ServiceTypeOK, PTL

(***************************************************************************)
(* The answers.                                                            *)
(***************************************************************************)
\* What is retained for a player, waits to be committed or was told a client is
\* in the history, and under that player.
AnswersInv ==
  /\ \A p \in Players : \A j \in 1..Len(results[p]) :
       results[p][j] \in log /\ results[p][j].player = p
  /\ (pending # None /\ pending.entry # None) => pending.entry \in log
  /\ (reply # None /\ reply.status = "APPLIED") =>
       \E e \in log : reply = Applied(e.player, e.op, e.request, e.revision)

LEMMA AnswersHandled ==
  ASSUME TypeOK, AnswersInv, NEW a \in Actors, NEW op \in OperationIds, NEW r \in Requests,
         Handle(a, op, r)
  PROVE  AnswersInv'
<1>1. a.id \in Players
  BY ActorParts
<1>2. Len(<<>>) = 0
  BY EmptySeq
<1>3. ASSUME results' = ResultsKept(a.id), log \subseteq log'
      PROVE  \A p \in Players : \A j \in 1..Len(results'[p]) :
               results'[p][j] \in log' /\ results'[p][j].player = p
  BY <1>2, <1>3 DEF AnswersInv, ResultsKept
<1>4. CASE Replay(a, op, r)
  <2>1. PICK k \in Retained(a.id, op) :
          reply' = IF SameBody(results[a.id][k], r)
                   THEN Applied(a.id, op, r, results[a.id][k].revision)
                   ELSE Rejected("INVALID_REQUEST")
    BY <1>4 DEF Replay
  <2> DEFINE e == results[a.id][k]
  <2>2. e \in log /\ e.player = a.id /\ e.op = op
    <3>1. k \in 1..Len(results[a.id])
      BY <1>1, LenProperties DEF Retained, TypeOK
    <3>2. QED
      BY <1>1, <3>1 DEF AnswersInv, Retained
  <2>3. reply'.status = "APPLIED" => reply' = Applied(e.player, e.op, e.request, e.revision)
    BY <2>1, <2>2 DEF SameBody, Rejected
  <2>4. QED
    BY <1>3, <1>4, <2>2, <2>3 DEF Replay, AnswersInv
<1>5. CASE Refuse(a, op, r) \/ SaveFails(a, op, r)
  <2>1. reply'.status # "APPLIED"
    BY <1>5 DEF Refuse, SaveFails, Rejected
  <2>2. QED
    BY <1>3, <1>5, <2>1 DEF Refuse, SaveFails, Admit, AnswersInv
<1>6. CASE Save(a, op, r)
  <2>1. PICK i \in Targets(r) :
          /\ pending' = [entry |-> NewEntry(a, op, r, i), next |-> NextCatalog(a, r, i)]
          /\ log' = log \union {NewEntry(a, op, r, i)}
    BY <1>6 DEF Save
  <2>2. pending'.entry \in log' /\ log \subseteq log' /\ reply' = reply
    BY <1>6, <2>1 DEF Save
  <2>3. QED
    BY <1>3, <1>6, <2>2 DEF Save, Admit, AnswersInv
<1>7. QED
  BY <1>4, <1>5, <1>6 DEF Handle

LEMMA AnswersCommitted ==
  ASSUME TypeOK, AnswersInv, Commit
  PROVE  AnswersInv'
<1> DEFINE e == pending.entry
           kept == results[e.player]
<1>1. e \in Entries /\ e \in log
  BY DEF Commit, TypeOK, Writes, AnswersInv
<1>2. e.player \in Players
  BY <1>1 DEF Entries
<1>3. kept \in Seq(Entries)
  BY <1>2 DEF TypeOK
<1>4. \A j \in 1..Len(kept) : kept[j] \in log /\ kept[j].player = e.player
  BY <1>2 DEF AnswersInv
<1>5. \A j \in 1..Len(Remember(kept, e)) :
        Remember(kept, e)[j] \in log /\ Remember(kept, e)[j].player = e.player
  <2> HIDE DEF kept, e
  <2>1. CASE Len(kept) >= MaxResults
    <3>1. kept # <<>>
      BY <2>1, EmptySeq, BoundsPositive
    <3>2. /\ Tail(kept) \in Seq(Entries) /\ Len(Tail(kept)) = Len(kept) - 1
          /\ \A j \in 1..Len(Tail(kept)) : Tail(kept)[j] = kept[j + 1]
      BY <1>3, <3>1, HeadTailProperties
    <3>3. Len(kept) \in Nat
      BY <1>3, LenProperties
    <3>4. \A j \in 1..Len(Tail(kept)) : Tail(kept)[j] \in log /\ Tail(kept)[j].player = e.player
      BY <1>4, <3>2, <3>3
    <3>5. Remember(kept, e) = Append(Tail(kept), e)
      BY <2>1 DEF Remember
    <3>6. QED
      BY <1>1, <3>2, <3>4, <3>5, AppendProperties
  <2>2. CASE ~(Len(kept) >= MaxResults)
    <3>1. Remember(kept, e) = Append(kept, e)
      BY <2>2 DEF Remember
    <3>2. QED
      BY <1>1, <1>3, <1>4, <3>1, AppendProperties
  <2>3. QED
    BY <2>1, <2>2
<1>6. results' = [results EXCEPT ![e.player] = Remember(kept, e)] /\ log' = log
  BY DEF Commit
<1>7. \A p \in Players : \A j \in 1..Len(results'[p]) :
        results'[p][j] \in log' /\ results'[p][j].player = p
  BY <1>2, <1>5, <1>6 DEF AnswersInv, TypeOK
<1>8. reply' = Applied(e.player, e.op, e.request, e.revision) /\ pending' = None
  BY DEF Commit
<1>9. QED
  BY <1>1, <1>6, <1>7, <1>8 DEF AnswersInv

LEMMA AnswersAlways == Spec => []AnswersInv
<1>1. Init => AnswersInv
  BY EmptySeq DEF Init, AnswersInv, Fresh
<1>2. TypeOK /\ AnswersInv /\ [Next]_vars => AnswersInv'
  <2> SUFFICES ASSUME TypeOK, AnswersInv, [Next]_vars PROVE AnswersInv'
    OBVIOUS
  <2>1. CASE Create \/ Update \/ Delete
    BY <2>1, AnswersHandled DEF Create, Update, Delete, Requests
  <2>2. CASE Commit
    BY <2>2, AnswersCommitted
  <2>3. CASE ClearSave
    BY <2>3 DEF ClearSave, AnswersInv
  <2>4. CASE ClearInstall
    BY <2>4, EmptySeq DEF ClearInstall, AnswersInv, Fresh
  <2>5. CASE Refill
    BY <2>5 DEF Refill, AnswersInv
  <2>6. CASE Restart
    BY <2>6, EmptySeq DEF Restart, AnswersInv, Fresh
  <2>7. CASE UNCHANGED vars
    BY <2>7 DEF vars, AnswersInv
  <2>8. QED
    BY <2>1, <2>2, <2>3, <2>4, <2>5, <2>6, <2>7 DEF Next
<1>3. QED
  BY <1>1, <1>2, ServiceTypeOK, PTL DEF Spec

\* Nobody is told APPLIED of a mutation that did not happen, that was somebody
\* else's or that had another body (replay_decision, remember and finish).
THEOREM ServiceAnswersTrue == Spec => []AppliedAnswersAreTrue
<1>1. AnswersInv /\ HistoryInv => AppliedAnswersAreTrue
  BY DEF AnswersInv, HistoryInv, HistoryAgrees, AppliedAnswersAreTrue
<1>2. QED
  BY <1>1, AnswersAlways, HistoryAlways, PTL

(***************************************************************************)
(* What is retained.                                                       *)
(***************************************************************************)
NobodyTwice(s) == \A i, j \in 1..Len(s) : s[i] = s[j] => i = j

NoOpTwice(kept) == \A i, j \in 1..Len(kept) : kept[i].op = kept[j].op => i = j

\* The inductive invariant of the retained results: RetentionCoherent, and the
\* mutation that waits to be committed is one that is not retained yet, of a
\* player who is tracked.
ResultsSound ==
  \A p \in Players :
    /\ Len(results[p]) <= MaxResults
    /\ NoOpTwice(results[p])
    /\ Len(results[p]) # 0 => Contains(tracked, p)

TrackedSound == Len(tracked) <= MaxTracked /\ NobodyTwice(tracked)

PendingIsNew ==
  (pending # None /\ pending.entry # None) =>
    /\ Contains(tracked, pending.entry.player)
    /\ \A i \in 1..Len(results[pending.entry.player]) :
         results[pending.entry.player][i].op # pending.entry.op

RetentionInv == ResultsSound /\ TrackedSound /\ PendingIsNew

LEMMA RemoveAtFacts ==
  ASSUME NEW S, NEW s \in Seq(S), NEW k \in 1..Len(s)
  PROVE  /\ RemoveAt(s, k) \in Seq(S)
         /\ Len(RemoveAt(s, k)) = Len(s) - 1
         /\ \A j \in 1..Len(s) - 1 : RemoveAt(s, k)[j] = IF j < k THEN s[j] ELSE s[j + 1]
<1> DEFINE before == SubSeq(s, 1, k - 1)
           after == SubSeq(s, k + 1, Len(s))
<1>1. Len(s) \in Nat /\ \A j \in 1..Len(s) : s[j] \in S
  BY LenProperties, ElementOfSeq
<1>2. /\ before \in Seq(S) /\ Len(before) = k - 1
      /\ \A j \in 1..(k - 1) : before[j] = s[j]
  <2>1. 1 \in Int /\ k - 1 \in Int /\ \A j \in 1..(k - 1) : s[j] \in S
    BY <1>1
  <2>2. /\ before \in Seq(S)
        /\ Len(before) = IF 1 <= k - 1 THEN (k - 1) - 1 + 1 ELSE 0
        /\ \A j \in 1..((k - 1) - 1 + 1) : before[j] = s[1 + j - 1]
    BY <2>1, SubSeqProperties
  <2> HIDE DEF before
  <2> QED BY <1>1, <2>2
<1>3. /\ after \in Seq(S) /\ Len(after) = Len(s) - k
      /\ \A j \in 1..Len(s) - k : after[j] = s[k + j]
  <2>1. k + 1 \in Int /\ Len(s) \in Int /\ \A j \in (k + 1)..Len(s) : s[j] \in S
    BY <1>1
  <2>2. /\ after \in Seq(S)
        /\ Len(after) = IF k + 1 <= Len(s) THEN Len(s) - (k + 1) + 1 ELSE 0
        /\ \A j \in 1..(Len(s) - (k + 1) + 1) : after[j] = s[(k + 1) + j - 1]
    BY <2>1, SubSeqProperties
  <2> HIDE DEF after
  <2> QED BY <1>1, <2>2
<1>4. RemoveAt(s, k) = before \o after
  BY DEF RemoveAt
<1> HIDE DEF before, after
<1>5. /\ before \o after \in Seq(S)
      /\ Len(before \o after) = Len(before) + Len(after)
      /\ \A j \in 1..Len(before) + Len(after) :
           (before \o after)[j] = IF j <= Len(before) THEN before[j] ELSE after[j - Len(before)]
  BY <1>2, <1>3, ConcatProperties
<1> DEFINE u == before \o after
<1>6. u \in Seq(S) /\ Len(u) = Len(s) - 1
  BY <1>1, <1>2, <1>3, <1>5
<1>7. ASSUME NEW j \in 1..Len(s) - 1
      PROVE  u[j] = IF j < k THEN s[j] ELSE s[j + 1]
  <2>1. u[j] = IF j <= k - 1 THEN before[j] ELSE after[j - (k - 1)]
    BY <1>1, <1>2, <1>3, <1>5
  <2> HIDE DEF u
  <2>2. CASE j < k
    BY <1>1, <1>2, <2>1, <2>2
  <2>3. CASE k <= j
    <3>1. j - (k - 1) \in 1..Len(s) - k /\ ~(j <= k - 1) /\ k + (j - (k - 1)) = j + 1
      BY <1>1, <2>3
    <3>2. after[j - (k - 1)] = s[k + (j - (k - 1))]
      BY <1>3, <3>1
    <3> QED BY <1>1, <2>1, <2>3, <3>1, <3>2
  <2> QED BY <1>1, <2>2, <2>3
<1> HIDE DEF u
<1>8. RemoveAt(s, k) = u
  BY <1>4 DEF u
<1> QED BY <1>6, <1>7, <1>8

\* Appending someone who is not there yet.
LEMMA AppendedOnce ==
  ASSUME NEW S, NEW s \in Seq(S), NEW p \in S, NobodyTwice(s), ~Contains(s, p)
  PROVE  /\ NobodyTwice(Append(s, p)) /\ Len(Append(s, p)) = Len(s) + 1
         /\ Contains(Append(s, p), p)
         /\ \A q : Contains(s, q) => Contains(Append(s, p), q)
<1> DEFINE t == Append(s, p)
<1>1. /\ Len(s) \in Nat /\ Len(t) = Len(s) + 1
      /\ \A i \in 1..Len(s) : t[i] = s[i]
      /\ t[Len(s) + 1] = p
  BY AppendProperties, LenProperties
<1> HIDE DEF t
<1>2. NobodyTwice(t)
  BY <1>1 DEF NobodyTwice, Contains
<1>3. Contains(t, p) /\ \A q : Contains(s, q) => Contains(t, q)
  BY <1>1 DEF Contains
<1> QED BY <1>1, <1>2, <1>3 DEF t

\* TrackedPlayers::touch: nobody is listed twice, the table stays within its cap,
\* and only who is pushed out is no longer in it.
LEMMA TouchFacts ==
  ASSUME tracked \in Seq(Players), TrackedSound, NEW p \in Players, Touch(p)
  PROVE  /\ TrackedSound' /\ Contains(tracked', p) /\ p \notin Evicted(p)
         /\ \A q \in Players : Contains(tracked, q) /\ q \notin Evicted(p) => Contains(tracked', q)
<1>1. Len(tracked) \in Nat /\ MaxTracked \in Nat \ {0}
  BY LenProperties, BoundsPositive
<1>2. CASE Contains(tracked, p)
  <2> DEFINE k == Position(p)
  <2>1. k \in 1..Len(tracked) /\ tracked[k] = p
    <3>1. DOMAIN tracked = 1..Len(tracked)
      BY LenProperties
    <3> QED BY <1>2, <3>1 DEF Contains, Position
  <2> HIDE DEF k
  <2> DEFINE u == RemoveAt(tracked, k)
  <2>2. /\ u \in Seq(Players) /\ Len(u) = Len(tracked) - 1
        /\ \A j \in 1..Len(tracked) - 1 : u[j] = IF j < k THEN tracked[j] ELSE tracked[j + 1]
    BY <2>1, RemoveAtFacts
  <2>3. tracked' = Append(u, p) /\ Evicted(p) = {}
    BY <1>2 DEF Touch, Evicted, k
  <2> HIDE DEF u
  <2>4. NobodyTwice(u)
    <3> SUFFICES ASSUME NEW i \in 1..Len(u), NEW j \in 1..Len(u), u[i] = u[j] PROVE i = j
      BY DEF NobodyTwice
    <3> DEFINE h(n) == IF n < k THEN n ELSE n + 1
    <3>1. /\ u[i] = tracked[h(i)] /\ h(i) \in 1..Len(tracked)
          /\ u[j] = tracked[h(j)] /\ h(j) \in 1..Len(tracked)
      BY <1>1, <2>1, <2>2
    <3>2. h(i) = h(j)
      <4> HIDE DEF h
      <4> QED BY <3>1 DEF TrackedSound, NobodyTwice
    <3> QED BY <1>1, <2>1, <2>2, <3>2
  <2>5. ~Contains(u, p)
    <3> SUFFICES ASSUME NEW i \in 1..Len(u), u[i] = p PROVE FALSE
      BY DEF Contains
    <3> DEFINE h(n) == IF n < k THEN n ELSE n + 1
    <3>1. u[i] = tracked[h(i)] /\ h(i) \in 1..Len(tracked) /\ h(i) # k
      BY <1>1, <2>1, <2>2
    <3> HIDE DEF h
    <3> QED BY <2>1, <3>1 DEF TrackedSound, NobodyTwice
  <2>6. \A q \in Players : Contains(tracked, q) => q = p \/ Contains(u, q)
    <3> SUFFICES ASSUME NEW i \in 1..Len(tracked), i # k PROVE Contains(u, tracked[i])
      BY <2>1 DEF Contains
    <3>1. CASE i < k
      BY <1>1, <2>1, <2>2, <3>1 DEF Contains
    <3>2. CASE k < i
      <4>1. i - 1 \in 1..Len(u) /\ u[i - 1] = tracked[i]
        BY <1>1, <2>1, <2>2, <3>2
      <4> QED BY <4>1 DEF Contains
    <3> QED BY <2>1, <3>1, <3>2
  <2>7. /\ NobodyTwice(Append(u, p)) /\ Len(Append(u, p)) = Len(u) + 1
        /\ Contains(Append(u, p), p)
        /\ \A q : Contains(u, q) => Contains(Append(u, p), q)
    BY <2>2, <2>4, <2>5, AppendedOnce
  <2> QED BY <1>1, <2>2, <2>3, <2>6, <2>7 DEF TrackedSound
<1>3. CASE ~Contains(tracked, p) /\ Len(tracked) < MaxTracked
  <2>1. tracked' = Append(tracked, p) /\ Evicted(p) = {}
    BY <1>3 DEF Touch, Evicted
  <2>2. /\ NobodyTwice(Append(tracked, p)) /\ Len(Append(tracked, p)) = Len(tracked) + 1
        /\ Contains(Append(tracked, p), p)
        /\ \A q : Contains(tracked, q) => Contains(Append(tracked, p), q)
    BY <1>3, AppendedOnce DEF TrackedSound
  <2> QED BY <1>1, <1>3, <2>1, <2>2 DEF TrackedSound
<1>4. CASE ~Contains(tracked, p) /\ ~(Len(tracked) < MaxTracked)
  <2> DEFINE u == Tail(tracked)
  <2>1. tracked # <<>>
    BY <1>1, <1>4, EmptySeq
  <2>2. /\ u \in Seq(Players) /\ Len(u) = Len(tracked) - 1
        /\ \A j \in 1..Len(u) : u[j] = tracked[j + 1]
    BY <2>1, HeadTailProperties
  <2>3. tracked' = Append(u, p) /\ Evicted(p) = {Head(tracked)} /\ Head(tracked) = tracked[1]
    BY <1>4 DEF Touch, Evicted
  <2> HIDE DEF u
  <2>4. NobodyTwice(u)
    BY <1>1, <2>2 DEF TrackedSound, NobodyTwice
  <2>5. ~Contains(u, p)
    <3> SUFFICES ASSUME NEW i \in 1..Len(u), u[i] = p PROVE FALSE
      BY DEF Contains
    <3>1. i + 1 \in 1..Len(tracked) /\ tracked[i + 1] = p
      BY <1>1, <2>2
    <3> QED BY <1>4, <3>1 DEF Contains
  <2>6. \A q \in Players : Contains(tracked, q) /\ q # Head(tracked) => Contains(u, q)
    <3> SUFFICES ASSUME NEW i \in 1..Len(tracked), i # 1 PROVE Contains(u, tracked[i])
      BY <2>3 DEF Contains
    <3>1. i - 1 \in 1..Len(u) /\ u[i - 1] = tracked[i]
      BY <1>1, <2>2
    <3> QED BY <3>1 DEF Contains
  <2>7. /\ NobodyTwice(Append(u, p)) /\ Len(Append(u, p)) = Len(u) + 1
        /\ Contains(Append(u, p), p)
        /\ \A q : Contains(u, q) => Contains(Append(u, p), q)
    BY <2>2, <2>4, <2>5, AppendedOnce
  <2>8. p # Head(tracked)
    BY <1>1, <1>4, <2>1, <2>2, <2>3 DEF Contains
  <2> QED BY <1>1, <2>2, <2>3, <2>6, <2>7, <2>8, <1>4 DEF TrackedSound
<1> QED BY <1>2, <1>3, <1>4

\* What a request does to the table keeps what is retained coherent.
LEMMA AdmittedRetention ==
  ASSUME TypeOK, RetentionInv, NEW p \in Players, Touch(p), results' = ResultsKept(p)
  PROVE  /\ ResultsSound' /\ TrackedSound'
         /\ Contains(tracked', p) /\ results'[p] = results[p]
<1>1. /\ TrackedSound' /\ Contains(tracked', p) /\ p \notin Evicted(p)
      /\ \A q \in Players : Contains(tracked, q) /\ q \notin Evicted(p) => Contains(tracked', q)
  BY TouchFacts DEF TypeOK, RetentionInv
<1>2. \A q \in Players : results'[q] = IF q \in Evicted(p) THEN <<>> ELSE results[q]
  BY DEF ResultsKept
<1>3. ASSUME NEW q \in Players
      PROVE  /\ Len(results'[q]) <= MaxResults
             /\ NoOpTwice(results'[q])
             /\ Len(results'[q]) # 0 => Contains(tracked', q)
  <2>1. CASE q \in Evicted(p)
    <3>1. results'[q] = <<>> /\ Len(results'[q]) = 0
      BY <1>2, <2>1, EmptySeq
    <3>2. NoOpTwice(results'[q])
      BY <3>1 DEF NoOpTwice
    <3> QED BY <3>1, <3>2, BoundsPositive
  <2>2. CASE q \notin Evicted(p)
    BY <1>1, <1>2, <2>2 DEF RetentionInv, ResultsSound
  <2> QED BY <2>1, <2>2
<1> QED BY <1>1, <1>2, <1>3 DEF ResultsSound

LEMMA RetentionHandled ==
  ASSUME TypeOK, RetentionInv, NEW a \in Actors, NEW op \in OperationIds, NEW r \in Requests,
         Handle(a, op, r)
  PROVE  RetentionInv'
<1>1. a.id \in Players
  BY ActorParts
<1>2. pending = None /\ Touch(a.id) /\ results' = ResultsKept(a.id)
  BY DEF Handle, Replay, Refuse, SaveFails, Save, Admit
<1>3. /\ ResultsSound' /\ TrackedSound'
      /\ Contains(tracked', a.id) /\ results'[a.id] = results[a.id]
  BY <1>1, <1>2, AdmittedRetention
<1>4. PendingIsNew'
  <2>1. CASE pending' = None
    BY <2>1 DEF PendingIsNew
  <2>2. CASE Save(a, op, r)
    <3>1. PICK i \in Targets(r) :
            pending' = [entry |-> NewEntry(a, op, r, i), next |-> NextCatalog(a, r, i)]
      BY <2>2 DEF Save
    <3>2. pending'.entry.player = a.id /\ pending'.entry.op = op
      BY <3>1 DEF NewEntry
    <3>3. \A j \in 1..Len(results[a.id]) : results[a.id][j].op # op
      <4>1. DOMAIN results[a.id] = 1..Len(results[a.id])
        BY <1>1, LenProperties DEF TypeOK
      <4> QED BY <2>2, <4>1 DEF Save, Admit, Retained
    <3> QED BY <1>3, <3>2, <3>3 DEF PendingIsNew
  <2> QED BY <1>2, <2>1, <2>2 DEF Handle, Replay, Refuse, SaveFails
<1> QED BY <1>3, <1>4 DEF RetentionInv

\* PlayerState::remember keeps one result of an operation, and no more than the cap.
LEMMA RememberFacts ==
  ASSUME NEW kept \in Seq(Entries), NEW e \in Entries, Len(kept) <= MaxResults, NoOpTwice(kept),
         \A i \in 1..Len(kept) : kept[i].op # e.op
  PROVE  Len(Remember(kept, e)) <= MaxResults /\ NoOpTwice(Remember(kept, e))
<1>1. Len(kept) \in Nat /\ MaxResults \in Nat \ {0}
  BY LenProperties, BoundsPositive
<1>2. ASSUME NEW u \in Seq(Entries), Len(u) < MaxResults, NoOpTwice(u),
             \A i \in 1..Len(u) : u[i].op # e.op
      PROVE  Len(Append(u, e)) <= MaxResults /\ NoOpTwice(Append(u, e))
  <2> DEFINE v == Append(u, e)
  <2>1. /\ Len(u) \in Nat /\ Len(v) = Len(u) + 1
        /\ \A i \in 1..Len(u) : v[i] = u[i]
        /\ v[Len(u) + 1] = e
    BY AppendProperties, LenProperties
  <2> HIDE DEF v
  <2>2. NoOpTwice(v)
    BY <1>2, <2>1 DEF NoOpTwice
  <2>3. Len(v) <= MaxResults
    BY <1>1, <1>2, <2>1
  <2> QED BY <2>2, <2>3 DEF v
<1>3. CASE Len(kept) >= MaxResults
  <2> DEFINE u == Tail(kept)
  <2>1. kept # <<>>
    BY <1>1, <1>3, EmptySeq
  <2>2. u \in Seq(Entries) /\ Len(u) = Len(kept) - 1 /\ \A i \in 1..Len(u) : u[i] = kept[i + 1]
    BY <2>1, HeadTailProperties
  <2>3. Remember(kept, e) = Append(u, e)
    BY <1>3 DEF Remember
  <2> HIDE DEF u
  <2>4. /\ \A i \in 1..Len(u) : i + 1 \in 1..Len(kept) /\ u[i] = kept[i + 1]
        /\ \A i, j \in 1..Len(u) : i + 1 = j + 1 => i = j
    BY <1>1, <2>2
  <2>6. NoOpTwice(u)
    BY <2>4 DEF NoOpTwice
  <2>7. \A i \in 1..Len(u) : u[i].op # e.op
    BY <2>4
  <2>5. Len(u) < MaxResults
    BY <1>1, <2>2
  <2> QED BY <1>2, <2>2, <2>3, <2>5, <2>6, <2>7
<1>4. CASE ~(Len(kept) >= MaxResults)
  <2>1. Remember(kept, e) = Append(kept, e) /\ Len(kept) < MaxResults
    BY <1>1, <1>4 DEF Remember
  <2> QED BY <1>2, <2>1
<1> QED BY <1>3, <1>4

LEMMA RetentionCommitted ==
  ASSUME TypeOK, RetentionInv, Commit
  PROVE  RetentionInv'
<1> DEFINE e == pending.entry
           kept == results[e.player]
<1>1. e \in Entries /\ e.player \in Players
  <2>1. e \in Entries
    BY DEF Commit, TypeOK, Writes
  <2> QED BY <2>1 DEF Entries
<1>2. kept \in Seq(Entries)
  BY <1>1 DEF TypeOK
<1>3. /\ Len(kept) <= MaxResults /\ NoOpTwice(kept)
      /\ Contains(tracked, e.player) /\ \A i \in 1..Len(kept) : kept[i].op # e.op
  BY <1>1 DEF RetentionInv, ResultsSound, PendingIsNew, Commit
<1>4. results' = [results EXCEPT ![e.player] = Remember(kept, e)]
      /\ pending' = None /\ tracked' = tracked
  BY DEF Commit
<1> HIDE DEF e, kept
<1>5. Len(Remember(kept, e)) <= MaxResults /\ NoOpTwice(Remember(kept, e))
  BY <1>1, <1>2, <1>3, RememberFacts
<1>6. ASSUME NEW q \in Players
      PROVE  /\ Len(results'[q]) <= MaxResults
             /\ NoOpTwice(results'[q])
             /\ Len(results'[q]) # 0 => Contains(tracked', q)
  BY <1>1, <1>3, <1>4, <1>5 DEF RetentionInv, ResultsSound, TypeOK
<1> QED BY <1>4, <1>6 DEF RetentionInv, ResultsSound, TrackedSound, PendingIsNew

\* Nobody is tracked and nothing is retained.
LEMMA RetentionForgotten ==
  /\ Init => RetentionInv
  /\ tracked' = <<>> /\ results' = Fresh /\ pending' = None => RetentionInv'
<1>1. Len(<<>>) = 0 /\ MaxResults \in Nat \ {0} /\ MaxTracked \in Nat \ {0}
  BY EmptySeq, BoundsPositive
<1>2. \A p \in Players : Fresh[p] = <<>>
  BY DEF Fresh
<1>3. NoOpTwice(<<>>) /\ NobodyTwice(<<>>)
  BY <1>1 DEF NoOpTwice, NobodyTwice
<1>4. ASSUME Init PROVE RetentionInv
  BY <1>1, <1>2, <1>3, <1>4 DEF Init, RetentionInv, ResultsSound, TrackedSound, PendingIsNew
<1>5. ASSUME tracked' = <<>>, results' = Fresh, pending' = None
      PROVE  RetentionInv'
  BY <1>1, <1>2, <1>3, <1>5 DEF RetentionInv, ResultsSound, TrackedSound, PendingIsNew
<1> QED BY <1>4, <1>5

\* No operation is retained twice, nothing beyond the caps, and everything that
\* is happened (TrackedPlayers::touch, PlayerState::remember).
THEOREM ServiceRetention == Spec => []RetentionCoherent
<1>1. TypeOK /\ RetentionInv /\ [Next]_vars => RetentionInv'
  <2> SUFFICES ASSUME TypeOK, RetentionInv, [Next]_vars PROVE RetentionInv'
    OBVIOUS
  <2>1. CASE Create \/ Update \/ Delete
    BY <2>1, RetentionHandled DEF Create, Update, Delete, Requests
  <2>2. CASE Commit
    BY <2>2, RetentionCommitted
  <2>3. CASE ClearSave
    <3>1. pending'.entry = None
      BY <2>3 DEF ClearSave
    <3>2. UNCHANGED <<tracked, results>>
      BY <2>3 DEF ClearSave
    <3> QED BY <3>1, <3>2 DEF RetentionInv, ResultsSound, TrackedSound, PendingIsNew
  <2>4. CASE ClearInstall \/ Restart
    BY <2>4, RetentionForgotten DEF ClearInstall, Restart
  <2>5. CASE Refill \/ UNCHANGED vars
    <3>1. UNCHANGED <<tracked, results, pending>>
      BY <2>5 DEF Refill, vars
    <3> QED BY <3>1 DEF RetentionInv, ResultsSound, TrackedSound, PendingIsNew
  <2> QED BY <2>1, <2>2, <2>3, <2>4, <2>5 DEF Next
<1>2. TypeOK /\ RetentionInv /\ AnswersInv => RetentionCoherent
  <2> SUFFICES ASSUME TypeOK, RetentionInv, AnswersInv PROVE RetentionCoherent
    OBVIOUS
  <2>1. /\ DOMAIN tracked = 1..Len(tracked)
        /\ \A p \in Players : DOMAIN results[p] = 1..Len(results[p])
    BY LenProperties DEF TypeOK
  <2>2. \A p \in Players : results[p] # <<>> => Len(results[p]) # 0
    BY EmptySeq DEF TypeOK
  <2> QED
    BY <2>1, <2>2
    DEF RetentionInv, ResultsSound, TrackedSound, NoOpTwice, NobodyTwice, AnswersInv,
        RetentionCoherent
<1> QED BY <1>1, <1>2, RetentionForgotten, ServiceTypeOK, AnswersAlways, PTL DEF Spec

(***************************************************************************)
(* The quotas.                                                             *)
(***************************************************************************)
\* No change from c to d passes a quota.
WithinQuotas(c, d) ==
  /\ \/ Cardinality(Live(d)) <= MaxPerWorld
     \/ Cardinality(Live(d)) <= Cardinality(Live(c))
  /\ \A p \in Players :
       \/ Cardinality(PublishedBy(d, p)) <= MaxPerPlayer
       \/ PublishedBy(d, p) \subseteq PublishedBy(c, p)

\* The write that waits to be committed is within them.
PendingWithinQuotas == pending # None => WithinQuotas(points, pending.next.points)

\* A catalog that lists no more ids, and nobody's id that it did not list as theirs.
LEMMA FewerWithinQuotas ==
  ASSUME NEW c, NEW d, Live(d) \subseteq Live(c),
         \A p \in Players : PublishedBy(d, p) \subseteq PublishedBy(c, p)
  PROVE  WithinQuotas(c, d)
<1>1. IsFiniteSet(Live(c))
  <2>1. Live(c) \subseteq WaypointIds
    BY DEF Live
  <2> QED BY <2>1, WaypointIdsFinite, FS_Subset
<1>2. Cardinality(Live(d)) <= Cardinality(Live(c))
  BY <1>1, FS_Subset
<1> QED BY <1>2 DEF WithinQuotas

\* One more id, where the checks found room for one more.
LEMMA OneMoreWithinQuotas ==
  ASSUME NEW c, NEW d, NEW i \in WaypointIds, NEW a \in Players,
         c[i] = NoPoint, d[i] # NoPoint, d[i].publisher = a,
         \A j \in WaypointIds \ {i} : d[j] = c[j],
         Cardinality(Live(c)) < MaxPerWorld, Cardinality(PublishedBy(c, a)) < MaxPerPlayer
  PROVE  WithinQuotas(c, d)
<1>1. /\ Live(d) = Live(c) \union {i} /\ i \notin Live(c)
      /\ PublishedBy(d, a) = PublishedBy(c, a) \union {i} /\ i \notin PublishedBy(c, a)
      /\ \A p \in Players : p # a => PublishedBy(d, p) \subseteq PublishedBy(c, p)
  BY DEF Live, PublishedBy
<1>2. IsFiniteSet(Live(c)) /\ IsFiniteSet(PublishedBy(c, a))
  <2>1. Live(c) \subseteq WaypointIds /\ PublishedBy(c, a) \subseteq WaypointIds
    BY DEF Live, PublishedBy
  <2> QED BY <2>1, WaypointIdsFinite, FS_Subset
<1>3. /\ Cardinality(Live(c)) \in Nat /\ Cardinality(PublishedBy(c, a)) \in Nat
      /\ Cardinality(Live(d)) = Cardinality(Live(c)) + 1
      /\ Cardinality(PublishedBy(d, a)) = Cardinality(PublishedBy(c, a)) + 1
  BY <1>1, <1>2, FS_CardinalityType, FS_AddElement
<1>4. MaxPerWorld \in Nat /\ MaxPerPlayer \in Nat
  BY BoundsPositive
<1> QED BY <1>1, <1>3, <1>4 DEF WithinQuotas

LEMMA WrittenWithinQuotas ==
  ASSUME TypeOK, NEW a \in Actors, NEW r \in Requests, Refusal(a, r) = "NONE",
         NEW i \in Targets(r)
  PROVE  WithinQuotas(points, Prepared(a, r, i))
<1>1. points \in Points
  BY DEF TypeOK
<1>2. CASE r \in CreateRequests
  <2>1. r.kind = "create"
    BY <1>2 DEF CreateRequests
  <2>2. i \in WaypointIds /\ points[i] = NoPoint /\ a.id \in Players
    BY <2>1, ActorParts DEF Targets, Live
  <2>3. Prepared(a, r, i) = Created(a, r, i)
    BY <2>1 DEF Prepared
  <2>4. ~WorldFull /\ ~PlayerFull(a.id)
    <3>1. CreateRefusal(a, r) = "NONE"
      BY <2>1 DEF Refusal
    <3> QED BY <3>1 DEF CreateRefusal
  <2>5. Cardinality(Live(points)) < MaxPerWorld
        /\ Cardinality(PublishedBy(points, a.id)) < MaxPerPlayer
    <3>1. IsFiniteSet(Live(points)) /\ IsFiniteSet(PublishedBy(points, a.id))
      <4>1. Live(points) \subseteq WaypointIds /\ PublishedBy(points, a.id) \subseteq WaypointIds
        BY DEF Live, PublishedBy
      <4> QED BY <4>1, WaypointIdsFinite, FS_Subset
    <3>2. Cardinality(Live(points)) \in Nat /\ Cardinality(PublishedBy(points, a.id)) \in Nat
      BY <3>1, FS_CardinalityType
    <3> QED BY <2>4, <3>2, BoundsPositive DEF WorldFull, PlayerFull
  <2>6. Created(a, r, i) \in Points
    BY <1>2, <2>1, <2>2, <2>3, PreparedIsCatalog DEF Snapshots
  <2>7. /\ Created(a, r, i)[i].publisher = a.id
        /\ Created(a, r, i)[i] # NoPoint
        /\ \A j \in WaypointIds \ {i} : Created(a, r, i)[j] = points[j]
    <3> DEFINE w == [publisher |-> a.id, block |-> r.draft.block,
                     label |-> r.draft.label, revision |-> revision + 1]
    <3>1. w \in Point
      <4>1. r.draft.block \in Blocks /\ r.draft.label \in Labels /\ revision < MaxRevision
        BY <1>2, CreateAllowed
      <4> QED BY <2>2, <4>1, MaxRevisionNat DEF Point, TypeOK, Revisions
    <3>2. Created(a, r, i) = [points EXCEPT ![i] = w] /\ w.publisher = a.id
      BY DEF Created
    <3> HIDE DEF w
    <3> QED BY <1>1, <2>2, <3>1, <3>2, NoPointIsNoPoint DEF Points
  <2> QED BY <2>2, <2>3, <2>5, <2>7, OneMoreWithinQuotas
<1>3. CASE r \in UpdateRequests
  <2>1. r.kind = "update"
    BY <1>3 DEF UpdateRequests
  <2>2. r.id \in Live(points) /\ Prepared(a, r, i) = Updated(a, r)
    BY <1>3, <2>1, UpdateAllowed DEF Prepared
  <2>3. /\ Updated(a, r)[r.id].publisher = points[r.id].publisher
        /\ \A j \in WaypointIds \ {r.id} : Updated(a, r)[j] = points[j]
    BY <1>1, <2>2 DEF Updated, Points, Live
  <2>4. Live(Updated(a, r)) \subseteq Live(points)
    BY <2>2, <2>3 DEF Live
  <2>5. \A p \in Players : PublishedBy(Updated(a, r), p) \subseteq PublishedBy(points, p)
    BY <2>2, <2>3, <2>4 DEF PublishedBy, Live
  <2> QED BY <2>2, <2>4, <2>5, FewerWithinQuotas
<1>4. CASE r \in DeleteRequests
  <2>1. r.kind = "delete"
    BY <1>4 DEF DeleteRequests
  <2>2. r.id \in Live(points) /\ Prepared(a, r, i) = Deleted(r)
    BY <1>4, <2>1, DeleteAllowed DEF Prepared
  <2>3. Deleted(r)[r.id] = NoPoint /\ \A j \in WaypointIds \ {r.id} : Deleted(r)[j] = points[j]
    BY <1>1, <2>2 DEF Deleted, Points, Live
  <2>4. Live(Deleted(r)) \subseteq Live(points)
    BY <2>2, <2>3 DEF Live
  <2>5. \A p \in Players : PublishedBy(Deleted(r), p) \subseteq PublishedBy(points, p)
    BY <2>2, <2>3, <2>4 DEF PublishedBy, Live
  <2> QED BY <2>2, <2>4, <2>5, FewerWithinQuotas
<1> QED BY <1>2, <1>3, <1>4 DEF Requests

LEMMA SameWithinQuotas ==
  ASSUME NEW c
  PROVE  WithinQuotas(c, c)
BY FewerWithinQuotas

\* What a step makes of the catalog is what a write under way makes, or nothing new.
LEMMA QuotaStep ==
  ASSUME TypeOK, CatalogIsDurable, PendingWithinQuotas, [Next]_vars
  PROVE  PendingWithinQuotas' /\ WithinQuotas(points, points')
<1>1. ASSUME NEW a \in Actors, NEW op \in OperationIds, NEW r \in Requests, Handle(a, op, r)
      PROVE  PendingWithinQuotas' /\ points' = points
  <2>1. points' = points /\ pending = None
    BY <1>1 DEF Handle, Replay, Refuse, SaveFails, Save, Admit
  <2>2. CASE pending' = None
    BY <2>1, <2>2 DEF PendingWithinQuotas
  <2>3. CASE Save(a, op, r)
    <3>1. PICK i \in Targets(r) :
            pending' = [entry |-> NewEntry(a, op, r, i), next |-> NextCatalog(a, r, i)]
      BY <2>3 DEF Save
    <3>2. pending'.next.points = Prepared(a, r, i)
      BY <3>1 DEF NextCatalog
    <3>3. WithinQuotas(points, Prepared(a, r, i))
      BY <2>3, WrittenWithinQuotas DEF Save
    <3> QED BY <2>1, <3>2, <3>3 DEF PendingWithinQuotas
  <2> QED BY <1>1, <2>1, <2>2, <2>3 DEF Handle, Replay, Refuse, SaveFails
<1>2. CASE Create \/ Update \/ Delete
  <2>1. PendingWithinQuotas' /\ points' = points
    BY <1>1, <1>2 DEF Create, Update, Delete, Requests
  <2> QED BY <2>1, SameWithinQuotas
<1>3. CASE Commit \/ ClearInstall
  <2>1. pending # None /\ pending' = None /\ points' = pending.next.points
    BY <1>3 DEF Commit, ClearInstall
  <2> QED BY <2>1 DEF PendingWithinQuotas
<1>4. CASE ClearSave
  <2>1. points' = points /\ pending'.next.points = NoPoints
    BY <1>4 DEF ClearSave
  <2>2. \A c : WithinQuotas(c, NoPoints)
    <3>1. Live(NoPoints) = {}
      BY DEF Live, NoPoints
    <3>2. \A p \in Players : PublishedBy(NoPoints, p) = {}
      BY <3>1 DEF PublishedBy
    <3> QED BY <3>1, <3>2, FewerWithinQuotas
  <2> QED BY <2>1, <2>2, SameWithinQuotas DEF PendingWithinQuotas
<1>5. CASE Restart
  <2>1. pending' = None /\ points' = file.points
    BY <1>5 DEF Restart
  <2>2. file.points = IF pending = None THEN points ELSE pending.next.points
    BY DEF CatalogIsDurable
  <2> QED BY <2>1, <2>2, SameWithinQuotas DEF PendingWithinQuotas
<1>6. CASE Refill \/ UNCHANGED vars
  <2>1. UNCHANGED <<points, pending>>
    BY <1>6 DEF Refill, vars
  <2> QED BY <2>1, SameWithinQuotas DEF PendingWithinQuotas
<1> QED BY <1>2, <1>3, <1>4, <1>5, <1>6 DEF Next

\* Neither quota is ever passed by a change (the counts of Service::create, over a
\* write that waits, crashes and restarts).
THEOREM ServiceQuotasHold == Spec => QuotasHold
<1> DEFINE A == /\ \/ Cardinality(Live(points')) <= MaxPerWorld
                   \/ Cardinality(Live(points')) <= Cardinality(Live(points))
                /\ \A p \in Players :
                     \/ Cardinality(PublishedBy(points', p)) <= MaxPerPlayer
                     \/ PublishedBy(points', p) \subseteq PublishedBy(points, p)
<1>1. Init => PendingWithinQuotas
  BY DEF Init, PendingWithinQuotas
<1>2. TypeOK /\ CatalogIsDurable /\ PendingWithinQuotas /\ [Next]_vars =>
        PendingWithinQuotas' /\ [A]_vars
  <2> SUFFICES ASSUME TypeOK, CatalogIsDurable, PendingWithinQuotas, [Next]_vars
               PROVE  PendingWithinQuotas' /\ A
    OBVIOUS
  <2>1. PendingWithinQuotas' /\ WithinQuotas(points, points')
    BY QuotaStep
  <2> QED BY <2>1 DEF WithinQuotas
<1>3. QuotasHold <=> [][A]_vars
  BY DEF QuotasHold
<1> HIDE DEF A
<1> QED BY <1>1, <1>2, <1>3, ServiceTypeOK, ServiceDurable, PTL DEF Spec
==============================================================================
