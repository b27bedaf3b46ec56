--------------------------- MODULE WaypointService ---------------------------
(***************************************************************************)
(* The authoritative mutation service of the shared waypoints: Service in  *)
(* waypoints/service.rs over its Store, with the file it writes and the    *)
(* administrative wipe that replaces it.                                   *)
(*                                                                         *)
(* A mutation is one call under the hub's lock, so nothing else runs       *)
(* between its steps; a crash may.  The steps a crash can separate are     *)
(* actions of their own: Save (the file is replaced) and Commit (the       *)
(* catalog in memory follows and the caller is answered).                  *)
(*                                                                         *)
(* A player the service does not track has, here, no retained results and  *)
(* a full bucket: what PlayerState::new would give it at its next request. *)
(* Buckets hold whole tokens and Refill is the passing of the time one     *)
(* token takes; the clock is taken to be monotonic.                        *)
(***************************************************************************)
EXTENDS Waypoints, Sequences, SequencesExt

CONSTANTS
  OperationIds,     \* the correlation ids clients choose
  Actors,           \* the players and operator levels requests are made under
  Policies,         \* the access policies the configuration may name
  BadDraft,         \* a body model::validate refuses
  UnprintableNames, \* players whose display name is refused as a publisher's
  MaxPerWorld,      \* Limits::max_per_world
  MaxPerPlayer,     \* Limits::max_per_player
  MaxResults,       \* IDEMPOTENCY_RESULTS_PER_PLAYER
  MaxTracked,       \* MAX_TRACKED_PLAYERS
  Burst,            \* MUTATION_BURST
  StartFiles,       \* the catalogs the file may hold when the plugin is first loaded
  None              \* no pending write, no entry, no reply

ASSUME BoundsPositive ==
  /\ MaxPerWorld \in Nat \ {0} /\ MaxPerPlayer \in Nat \ {0}
  /\ MaxResults \in Nat \ {0} /\ MaxTracked \in Nat \ {0} /\ Burst \in Nat \ {0}
ASSUME ActorsArePlayers == Actors \subseteq [id : Players, operator : BOOLEAN]
ASSUME PoliciesKnown == Policies # {} /\ Policies \subseteq {"OperatorOnly", "OwnerManaged"}
ASSUME StartFilesLoadable == StartFiles \subseteq Snapshots

VARIABLES
  revision, points,  \* the Store
  file,              \* shared_waypoints.json
  access,            \* the service's AccessPolicy
  tracked,           \* TrackedPlayers::order, coldest player first
  results,           \* PlayerState::results in PlayerState::order, oldest first
  tokens,            \* PlayerState::bucket
  pending,           \* a write the file holds and the catalog does not yet
  reply,             \* the last result a client was given
  log                \* history: every mutation the file has ever taken

vars == <<revision, points, file, access, tracked, results, tokens, pending, reply, log>>

(***************************************************************************)
(* Requests, and what is kept of them.                                     *)
(***************************************************************************)
Revisions == 0..MaxRevision

Drafts == [block : Blocks, label : Labels] \union {BadDraft}

CreateRequests == [kind : {"create"}, expected : Revisions, draft : Drafts]
UpdateRequests == [kind : {"update"}, id : WaypointIds, expected : Revisions, draft : Drafts]
DeleteRequests == [kind : {"delete"}, id : WaypointIds, expected : Revisions]
Requests == CreateRequests \union UpdateRequests \union DeleteRequests

\* A mutation that was written: who asked for what, the point it touched and
\* the revision it made.
Entries == [player : Players, operator : BOOLEAN, op : OperationIds,
            request : Requests, id : WaypointIds, revision : Revisions]

Errors == {"INVALID_REQUEST", "REVISION_CONFLICT", "NOT_FOUND", "FORBIDDEN",
           "WORLD_QUOTA_EXCEEDED", "PLAYER_QUOTA_EXCEEDED", "RATE_LIMITED",
           "DUPLICATE_LOCATION", "PERSISTENCE_FAILED", "ID_GENERATION_FAILED"}

Rejected(error) == [status |-> "REJECTED", error |-> error]
Applied(p, op, r, rev) ==
  [status |-> "APPLIED", player |-> p, op |-> op, request |-> r, revision |-> rev]

Replies == [status : {"REJECTED"}, error : Errors]
     \union [status : {"APPLIED"}, player : Players, op : OperationIds,
             request : Requests, revision : Revisions]

\* A write under way: the mutation it is of, unless it is a wipe, and the
\* catalog it makes.
Writes == [entry : Entries \union {None}, next : Snapshots]

ASSUME NoneIsNothing == None \notin Entries /\ None \notin Writes /\ None \notin Replies

Fresh == [p \in Players |-> <<>>]
FullBuckets == [p \in Players |-> Burst]

Init ==
  /\ file \in StartFiles
  /\ revision = file.revision
  /\ points = file.points
  /\ access \in Policies
  /\ tracked = <<>>
  /\ results = Fresh
  /\ tokens = FullBuckets
  /\ pending = None
  /\ reply = None
  /\ log = {}

(***************************************************************************)
(* The tracked players.                                                    *)
(***************************************************************************)
\* The player a request by p pushes out: the coldest, when p is new and the
\* table is full.
Evicted(p) ==
  IF Contains(tracked, p) \/ Len(tracked) < MaxTracked THEN {} ELSE {Head(tracked)}

\* Where p is in the table.
Position(p) == CHOOSE i \in DOMAIN tracked : tracked[i] = p

\* TrackedPlayers::touch.  Who is pushed out loses its results and its bucket.
Touch(p) ==
  tracked' = Append(IF Contains(tracked, p) THEN RemoveAt(tracked, Position(p))
                    ELSE IF Evicted(p) = {} THEN tracked ELSE Tail(tracked), p)

ResultsKept(p) == [q \in Players |-> IF q \in Evicted(p) THEN <<>> ELSE results[q]]

TokensLeft(p, charged) ==
  [q \in Players |-> IF q \in Evicted(p) THEN Burst
                     ELSE IF q = p /\ charged THEN tokens[q] - 1
                     ELSE tokens[q]]

\* The results retained for p under an operation id.
Retained(p, op) == {i \in DOMAIN results[p] : results[p][i].op = op}

\* RequestBody::matches.  Seeded fault: the operation id alone is compared.
SameBodyById(kept, r) == TRUE
SameBody(kept, r) == kept.request = r

\* PlayerState::remember.  Seeded fault: the cap is tested one result late.
RememberOneMore(kept, e) == Append(IF Len(kept) > MaxResults THEN Tail(kept) ELSE kept, e)
Remember(kept, e) == Append(IF Len(kept) >= MaxResults THEN Tail(kept) ELSE kept, e)

(***************************************************************************)
(* The checks, in the order the code makes them: the first that fails is   *)
(* the answer.                                                             *)
(***************************************************************************)
CanCreate(a) == a.operator \/ access = "OwnerManaged"

\* Seeded fault: under OwnerManaged anyone manages anything.
CanManageAny(a, w) == a.operator \/ access = "OwnerManaged"
CanManage(a, w) == a.operator \/ (access = "OwnerManaged" /\ w.publisher = a.id)

Validate(draft) == draft # BadDraft

\* A create names the catalog's revision, an update or a delete the point's.
\* Seeded faults: a client that is behind is let through.
CatalogBehind(r) == r.expected > revision
CatalogMoved(r) == r.expected # revision
PointBehind(r) == r.expected > points[r.id].revision
PointMoved(r) == r.expected # points[r.id].revision

Occupied(b) == At(points, b) # {}

\* A move, not an edit in place, needs a free block.  Seeded fault: no move does.
NeverBlocked(r) == FALSE
MovesOntoAnother(r) == r.draft.block # points[r.id].block /\ Occupied(r.draft.block)

WorldFull == Cardinality(Live(points)) >= MaxPerWorld

\* Seeded fault: the quota is passed by one.
PlayerOverFull(p) == Cardinality(PublishedBy(points, p)) > MaxPerPlayer
PlayerFull(p) == Cardinality(PublishedBy(points, p)) >= MaxPerPlayer

CreateRefusal(a, r) ==
  IF ~CanCreate(a) THEN "FORBIDDEN"
  ELSE IF tokens[a.id] = 0 THEN "RATE_LIMITED"
  ELSE IF CatalogMoved(r) THEN "REVISION_CONFLICT"
  ELSE IF ~Validate(r.draft) \/ a.id \in UnprintableNames THEN "INVALID_REQUEST"
  ELSE IF Occupied(r.draft.block) THEN "DUPLICATE_LOCATION"
  ELSE IF WorldFull THEN "WORLD_QUOTA_EXCEEDED"
  ELSE IF PlayerFull(a.id) THEN "PLAYER_QUOTA_EXCEEDED"
  ELSE IF Live(points) = WaypointIds THEN "ID_GENERATION_FAILED"
  ELSE IF revision = MaxRevision THEN "PERSISTENCE_FAILED"
  ELSE "NONE"

UpdateRefusal(a, r) ==
  IF tokens[a.id] = 0 THEN "RATE_LIMITED"
  ELSE IF points[r.id] = NoPoint THEN "NOT_FOUND"
  ELSE IF ~CanManage(a, points[r.id]) THEN "FORBIDDEN"
  ELSE IF PointMoved(r) THEN "REVISION_CONFLICT"
  ELSE IF ~Validate(r.draft) THEN "INVALID_REQUEST"
  ELSE IF MovesOntoAnother(r) THEN "DUPLICATE_LOCATION"
  ELSE IF revision = MaxRevision THEN "PERSISTENCE_FAILED"
  ELSE "NONE"

DeleteRefusal(a, r) ==
  IF tokens[a.id] = 0 THEN "RATE_LIMITED"
  ELSE IF points[r.id] = NoPoint THEN "NOT_FOUND"
  ELSE IF PointMoved(r) THEN "REVISION_CONFLICT"
  ELSE IF ~CanManage(a, points[r.id]) THEN "FORBIDDEN"
  ELSE IF revision = MaxRevision THEN "PERSISTENCE_FAILED"
  ELSE "NONE"

Refusal(a, r) ==
  CASE r.kind = "create" -> CreateRefusal(a, r)
    [] r.kind = "update" -> UpdateRefusal(a, r)
    [] r.kind = "delete" -> DeleteRefusal(a, r)

\* A create that is forbidden is refused before the bucket is asked.  Seeded
\* fault: an empty bucket is charged too.
ChargedAlways(a, r) == r.kind = "create" => CanCreate(a)
Charged(a, r) == tokens[a.id] > 0 /\ (r.kind = "create" => CanCreate(a))

(***************************************************************************)
(* What a mutation makes of the catalog: Store::prepare_create,            *)
(* prepare_update and prepare_delete.                                      *)
(***************************************************************************)
Created(a, r, i) ==
  [points EXCEPT ![i] = [publisher |-> a.id, block |-> r.draft.block,
                         label |-> r.draft.label, revision |-> revision + 1]]

\* Seeded fault: whoever edits a point takes it over.
UpdatedByEditor(a, r) ==
  [points EXCEPT ![r.id] = [publisher |-> a.id, block |-> r.draft.block,
                            label |-> r.draft.label, revision |-> revision + 1]]
Updated(a, r) ==
  [points EXCEPT ![r.id] = [publisher |-> points[r.id].publisher, block |-> r.draft.block,
                            label |-> r.draft.label, revision |-> revision + 1]]

Deleted(r) == [points EXCEPT ![r.id] = NoPoint]

Prepared(a, r, i) ==
  CASE r.kind = "create" -> Created(a, r, i)
    [] r.kind = "update" -> Updated(a, r)
    [] r.kind = "delete" -> Deleted(r)

\* The ids a mutation may end up touching: a free one for a create.
Targets(r) == IF r.kind = "create" THEN WaypointIds \ Live(points) ELSE {r.id}

(***************************************************************************)
(* One request.                                                            *)
(***************************************************************************)
\* A retained operation is answered from the cache, or reported as a reuse.
Replay(a, op, r) ==
  /\ pending = None
  /\ Touch(a.id)
  /\ results' = ResultsKept(a.id)
  /\ tokens' = TokensLeft(a.id, FALSE)
  /\ \E i \in Retained(a.id, op) :
       reply' = IF SameBody(results[a.id][i], r)
                THEN Applied(a.id, op, r, results[a.id][i].revision)
                ELSE Rejected("INVALID_REQUEST")
  /\ UNCHANGED <<revision, points, file, access, pending, log>>

\* What every request that is not a replay does before its checks.
Admit(a, op, r) ==
  /\ pending = None
  /\ Retained(a.id, op) = {}
  /\ Touch(a.id)
  /\ results' = ResultsKept(a.id)
  /\ tokens' = TokensLeft(a.id, Charged(a, r))

\* A refusal moves nothing and is not retained.
Refuse(a, op, r) ==
  /\ Admit(a, op, r)
  /\ Refusal(a, r) # "NONE"
  /\ reply' = Rejected(Refusal(a, r))
  /\ UNCHANGED <<revision, points, file, access, pending, log>>

\* Nor does a write that fails.  Seeded fault: the catalog is moved all the same.
SaveFailsAndCommits(a, op, r) ==
  /\ Admit(a, op, r)
  /\ Refusal(a, r) = "NONE"
  /\ revision' = revision + 1
  /\ \E i \in Targets(r) : points' = Prepared(a, r, i)
  /\ reply' = Rejected("PERSISTENCE_FAILED")
  /\ UNCHANGED <<file, access, pending, log>>
SaveFails(a, op, r) ==
  /\ Admit(a, op, r)
  /\ Refusal(a, r) = "NONE"
  /\ reply' = Rejected("PERSISTENCE_FAILED")
  /\ UNCHANGED <<revision, points, file, access, pending, log>>

\* The catalog a mutation makes, and what is kept of it.
NextCatalog(a, r, i) == [revision |-> revision + 1, points |-> Prepared(a, r, i)]
NewEntry(a, op, r, i) == [player |-> a.id, operator |-> a.operator, op |-> op,
                          request |-> r, id |-> i, revision |-> revision + 1]

\* The file is replaced first.
Save(a, op, r) ==
  /\ Admit(a, op, r)
  /\ Refusal(a, r) = "NONE"
  /\ \E i \in Targets(r) :
       /\ file' = NextCatalog(a, r, i)
       /\ pending' = [entry |-> NewEntry(a, op, r, i), next |-> NextCatalog(a, r, i)]
       /\ log' = log \union {NewEntry(a, op, r, i)}
  /\ UNCHANGED <<revision, points, access, reply>>

Handle(a, op, r) ==
  \/ Replay(a, op, r)
  \/ Refuse(a, op, r)
  \/ SaveFails(a, op, r)
  \/ Save(a, op, r)

Create == \E a \in Actors, op \in OperationIds, r \in CreateRequests : Handle(a, op, r)
Update == \E a \in Actors, op \in OperationIds, r \in UpdateRequests : Handle(a, op, r)
Delete == \E a \in Actors, op \in OperationIds, r \in DeleteRequests : Handle(a, op, r)

\* Then the catalog follows, the result is retained and the caller is told.
Commit ==
  /\ pending # None
  /\ pending.entry # None
  /\ LET e == pending.entry
     IN  /\ results' = [results EXCEPT ![e.player] = Remember(@, e)]
         /\ reply' = Applied(e.player, e.op, e.request, e.revision)
  /\ revision' = pending.next.revision
  /\ points' = pending.next.points
  /\ pending' = None
  /\ UNCHANGED <<file, access, tracked, tokens, log>>

(***************************************************************************)
(* The administrative wipe, the clock, and a restart.                      *)
(***************************************************************************)
\* The revision after a wipe: every point goes at one of its own.  Seeded fault:
\* the wipe is one change.
ClearedAtOnce == revision + 1
ClearedRevision == revision + Cardinality(Live(points))

\* Hub::clear writes the empty catalog first.  A failed write changes nothing.
ClearSave ==
  /\ pending = None
  /\ Live(points) # {}
  /\ ClearedRevision <= MaxRevision
  /\ LET next == [revision |-> ClearedRevision, points |-> NoPoints]
     IN  /\ file' = next
         /\ pending' = [entry |-> None, next |-> next]
  /\ UNCHANGED <<revision, points, access, tracked, results, tokens, reply, log>>

\* Then a new service takes the old one's place: nobody is tracked.
ClearInstall ==
  /\ pending # None
  /\ pending.entry = None
  /\ revision' = pending.next.revision
  /\ points' = pending.next.points
  /\ tracked' = <<>>
  /\ results' = Fresh
  /\ tokens' = FullBuckets
  /\ pending' = None
  /\ UNCHANGED <<file, access, reply, log>>

Refill ==
  /\ tokens # FullBuckets
  /\ tokens' = [p \in Players |-> IF tokens[p] < Burst THEN tokens[p] + 1 ELSE Burst]
  /\ UNCHANGED <<revision, points, file, access, tracked, results, pending, reply, log>>

\* The server stops, between any two steps, and comes back with what the file
\* holds and whatever access policy its configuration now names.
Restart ==
  /\ revision' = file.revision
  /\ points' = file.points
  /\ access' \in Policies
  /\ tracked' = <<>>
  /\ results' = Fresh
  /\ tokens' = FullBuckets
  /\ pending' = None
  /\ reply' = None
  /\ UNCHANGED <<file, log>>

Next ==
  \/ Create
  \/ Update
  \/ Delete
  \/ Commit
  \/ ClearSave
  \/ ClearInstall
  \/ Refill
  \/ Restart

Spec == Init /\ [][Next]_vars

(***************************************************************************)
(* Properties.                                                             *)
(***************************************************************************)
TypeOK ==
  /\ revision \in Revisions
  /\ points \in Points
  /\ StampsReached(revision, points)
  /\ file \in Snapshots
  /\ access \in Policies
  /\ tracked \in Seq(Players)
  /\ results \in [Players -> Seq(Entries)]
  /\ tokens \in [Players -> 0..Burst]
  /\ pending \in {None} \union Writes
  /\ reply \in {None} \union Replies
  /\ log \subseteq Entries

\* A catalog the clients are served is the one the file would bring back: the
\* file is ahead only while a write it already holds waits to be committed.
CatalogIsDurable ==
  file = IF pending = None THEN [revision |-> revision, points |-> points]
         ELSE pending.next

\* One request of one player, however often it is sent again, changes the
\* catalog at most once - retained or forgotten, across evictions, wipes and
\* restarts.
AppliedAtMostOnce ==
  \A e1, e2 \in log :
    /\ e1.player = e2.player
    /\ e1.op = e2.op
    /\ e1.request = e2.request
    => e1 = e2

\* What an applied mutation was decided on was still so when it was applied: no
\* other mutation came between the version it names and itself.  The version is
\* the catalog's for a create, the point's for an update or a delete.
NothingInBetween ==
  \A e1, e2 \in log :
    /\ e2.request.expected < e1.revision
    /\ e1.revision < e2.revision
    => /\ e2.request.kind # "create"
       /\ e1.id # e2.id

\* Nobody is told APPLIED of a mutation that did not happen, that was somebody
\* else's, or that had another body.
AppliedAnswersAreTrue ==
  (reply # None /\ reply.status = "APPLIED") =>
    \E e \in log : /\ reply = Applied(e.player, e.op, e.request, e.revision)
                   /\ e.revision <= file.revision

\* Without the operator level a player only ever changed points of its own
\* making: the last creation of the point, before that change, was its own -
\* whatever operators edited, policies became or restarts forgot meanwhile.
OwnersOnly ==
  \A e, c \in log :
    /\ ~e.operator
    /\ e.request.kind # "create"
    /\ c.request.kind = "create"
    /\ c.id = e.id
    /\ c.revision < e.revision
    /\ \A d \in log : (d.request.kind = "create" /\ d.id = e.id) =>
         (d.revision <= c.revision \/ e.revision < d.revision)
    => c.player = e.player

\* The history and the file agree: one mutation per revision, each decided on an
\* earlier version, none newer than the stamp of the point it touched, and each
\* listed point published by whoever created it last.  (What the properties
\* above rest on: with NothingInBetween it is inductive.)
HistoryAgrees ==
  /\ \A e \in log :
       /\ 0 < e.revision /\ e.revision <= file.revision
       /\ e.request.expected < e.revision
       /\ e.request.kind = "create" => e.request.expected + 1 = e.revision
       /\ e.request.kind # "create" => e.request.id = e.id
       /\ e.id \in Live(file.points) => e.revision <= file.points[e.id].revision
  /\ \A e1, e2 \in log : e1.revision = e2.revision => e1 = e2
  /\ \A c \in log :
       /\ c.request.kind = "create"
       /\ c.id \in Live(file.points)
       /\ \A d \in log : (d.request.kind = "create" /\ d.id = c.id) => d.revision <= c.revision
       => file.points[c.id].publisher = c.player

\* The retained results and their order agree: no operation is retained twice,
\* none beyond the caps, and each is one that happened.
RetentionCoherent ==
  /\ \A p \in Players :
       /\ Len(results[p]) <= MaxResults
       /\ \A i, j \in DOMAIN results[p] : results[p][i].op = results[p][j].op => i = j
       /\ \A i \in DOMAIN results[p] : results[p][i] \in log /\ results[p][i].player = p
       /\ results[p] # <<>> => Contains(tracked, p)
  /\ Len(tracked) <= MaxTracked
  /\ \A i, j \in DOMAIN tracked : tracked[i] = tracked[j] => i = j

\* The file, read as a catalog, only ever moves as a catalog may.
Durable == INSTANCE Catalog WITH revision <- file.revision, points <- file.points

ImplementsCatalog == Durable!Spec

\* No block ever gets a second point, not even one an old file overlaps on.
OverlapNeverGrows == Durable!OverlapNeverGrows

\* Neither quota is ever passed by a change: it may be only by a file that was
\* over it already, and then only shrinks.
QuotasHold ==
  [][/\ \/ Cardinality(Live(points')) <= MaxPerWorld
        \/ Cardinality(Live(points')) <= Cardinality(Live(points))
     /\ \A p \in Players :
          \/ Cardinality(PublishedBy(points', p)) <= MaxPerPlayer
          \/ PublishedBy(points', p) \subseteq PublishedBy(points, p)]_vars

\* A point is somebody's for good: however it is edited, by whomever, whoever
\* published it is who may manage it.
PublisherFixed == Durable!PublisherFixed
==============================================================================
