----------------------------- MODULE CatalogFile -----------------------------
(***************************************************************************)
(* The catalog file and the identity file across restarts:                 *)
(* waypoints/persist.rs, identity.rs and the first configure of            *)
(* waypoints/mod.rs.                                                       *)
(*                                                                         *)
(* A start reads the identity, making one if it must, and then the         *)
(* catalog: it is served, migrated, set aside, quarantined or left alone.  *)
(* Every read, write and rename may fail.  While the server is stopped its *)
(* operator may put any file there, copied from elsewhere or damaged.      *)
(*                                                                         *)
(* How one save is made atomic, and what happens between it and the        *)
(* commit, is WaypointService's.                                           *)
(***************************************************************************)
EXTENDS Naturals, FiniteSets

CONSTANTS
  InstanceIds,    \* the ids this server may give itself
  Elsewhere,      \* the id of the server other files come from
  Unowned,        \* in place of an id, in a document that names none
  Ours, Theirs,   \* the points published here, and those published elsewhere
  MaxRevision,    \* the last revision
  SchemaVersion,  \* SCHEMA_VERSION
  Brought,        \* the documents the operator has at hand
  NoFile, Garbage, NoId, NoService, Unsure

ASSUME FileNumbers == MaxRevision \in Nat /\ SchemaVersion \in Nat \ {0}
ASSUME FileNames ==
  /\ Elsewhere \notin InstanceIds /\ Unowned \notin InstanceIds \union {Elsewhere}
  /\ NoFile \notin InstanceIds /\ Garbage \notin InstanceIds /\ NoId \notin InstanceIds
  /\ Ours \intersect Theirs = {}

\* What a document may claim; a Snapshot is one that does not contradict itself.
Contents == [revision : 0..MaxRevision, points : SUBSET (Ours \union Theirs)]

Snapshots == {c \in Contents : c.revision = 0 => c.points = {}}

\* Snapshot::empty.
Empty == [revision |-> 0, points |-> {}]

\* What is wrong with a document: nothing; it is too large, not text or not JSON;
\* or a point of it no longer passes validation.
Faults == {"none", "illegible", "stranded"}

Documents ==
  [schema : 0..SchemaVersion + 1, owner : InstanceIds \union {Elsewhere, Unowned},
   fault : Faults, content : Contents]

ASSUME NoFileIsNone == NoFile \notin Documents

\* Documents an operator can come by, of any build: another server's, which names it,
\* or one that names no server and may have come from either; damaged ones too.
Found ==
  {d \in Documents :
     \/ d.owner = Elsewhere /\ d.content.points \subseteq Theirs
     \/ d.owner = Unowned}

ASSUME BroughtIsFound == Brought \subseteq Found

VARIABLES
  catalog,   \* shared_waypoints.json
  bad, bak,  \* what was quarantined, and what was set aside, last
  identity,  \* server_instance.json: an id, Garbage or NoFile
  stage,     \* of the process: "stopped", "identified" or "running"
  me,        \* the id it goes by
  live,      \* the catalog it serves, or NoService
  used,      \* history: the ids generated so far
  kept,      \* history: the catalog last written, or Unsure once something has
             \* failed or been touched
  unnamed,   \* history: the points of other servers put here in files that name none
  stuck      \* history: this process could not stat the file or move it away

vars == <<catalog, bad, bak, identity, stage, me, live, used, kept, unnamed, stuck>>

Init ==
  /\ catalog = NoFile /\ bad = NoFile /\ bak = NoFile
  /\ identity = NoFile
  /\ stage = "stopped" /\ me = NoId /\ live = NoService
  /\ used = {}
  /\ kept = Empty /\ unnamed = {} /\ stuck = FALSE

(***************************************************************************)
(* load_or_create_instance.                                                *)
(***************************************************************************)
Identified(id) ==
  /\ stage = "stopped"
  /\ stage' = "identified"
  /\ me' = id
  /\ stuck' = FALSE
  /\ UNCHANGED <<catalog, bad, bak, live, unnamed>>

Fresh == InstanceIds \ used

\* The file holds an id.
RecallIdentity ==
  /\ identity \notin {NoFile, Garbage}
  /\ Identified(identity)
  /\ UNCHANGED <<identity, used, kept>>

\* What the file holds once a new id was to be written over it.  Seeded fault: the
\* write is left out.
NeverWritten(id) == {identity}
WrittenOrNot(id) == {identity, id}

\* There is none, or none to be used: one is made, and written if that works.
MakeIdentity ==
  /\ identity \in {NoFile, Garbage}
  /\ \E id \in Fresh :
       /\ Identified(id)
       /\ used' = used \union {id}
       /\ identity' \in WrittenOrNot(id)
       /\ kept' = IF identity' = id THEN kept ELSE Unsure

\* It cannot be read: one is made for this run.
MissIdentity ==
  /\ identity # NoFile
  /\ \E id \in Fresh :
       /\ Identified(id)
       /\ used' = used \union {id}
  /\ kept' = Unsure
  /\ UNCHANGED identity

(***************************************************************************)
(* Persistence::load, from configure.                                      *)
(***************************************************************************)
\* Seeded fault: this build's own schema is taken for a newer one.
NewerOrSame(d) == d.schema >= SchemaVersion
Newer(d) == d.schema > SchemaVersion

\* Seeded fault: a document is served whoever wrote it.
NeverInherited(d) == FALSE
Inherited(d) == d.owner # Unowned /\ d.owner # me

\* from_document and from_entry: one point that does not pass costs the document.
\* Seeded fault: what the document claims of itself is believed.
Believed(d) == d.fault = "none"
Sound(d) == d.fault = "none" /\ d.content \in Snapshots

\* What a document is taken for: the checks in the order they are made.
Verdict(d) ==
  IF d.fault = "illegible" THEN "corrupt"
  ELSE IF Newer(d) THEN "newer"
  ELSE IF d.schema < 1 THEN "corrupt"
  ELSE IF Inherited(d) THEN "inherited"
  ELSE IF Sound(d) THEN "usable"
  ELSE "corrupt"

Serving(content) ==
  /\ stage = "identified"
  /\ stage' = "running"
  /\ live' = content
  /\ UNCHANGED <<identity, me, used, unnamed>>

LoadNothing ==
  /\ catalog = NoFile
  /\ Serving(Empty)
  /\ UNCHANGED <<catalog, bad, bak, kept, stuck>>

\* The file is there and its size cannot be had.
LoadBlindly ==
  /\ catalog # NoFile
  /\ Serving(Empty)
  /\ kept' = Unsure /\ stuck' = TRUE
  /\ UNCHANGED <<catalog, bad, bak>>

\* The file is renamed out of the way, or stays when that fails.  Seeded fault: a
\* corrupt file is ignored where it is.
IgnoreIt == stuck' = FALSE /\ UNCHANGED <<catalog, bad>>
MoveToBad ==
  \/ catalog' = NoFile /\ bad' = catalog /\ stuck' = FALSE
  \/ stuck' = TRUE /\ UNCHANGED <<catalog, bad>>
MoveToBak ==
  \/ catalog' = NoFile /\ bak' = catalog /\ stuck' = FALSE
  \/ stuck' = TRUE /\ UNCHANGED <<catalog, bak>>

\* Persistence::quarantine, of a file that was read.
Quarantine ==
  /\ catalog # NoFile
  /\ Verdict(catalog) = "corrupt"
  /\ Serving(Empty)
  /\ MoveToBad
  /\ UNCHANGED <<bak, kept>>

\* And of one that could not be: it is there, and what it holds is not known.
QuarantineUnread ==
  /\ catalog # NoFile
  /\ Serving(Empty)
  /\ MoveToBad
  /\ kept' = Unsure
  /\ UNCHANGED bak

\* Persistence::set_aside_inherited.
SetAside ==
  /\ catalog # NoFile
  /\ Verdict(catalog) = "inherited"
  /\ Serving(Empty)
  /\ MoveToBak
  /\ UNCHANGED <<bad, kept>>

\* A newer build's catalog is left alone, and no service is made.  Seeded fault:
\* one is, over an empty catalog.
EmptyInstead == Empty
NotServed == NoService

LeaveNewer ==
  /\ catalog # NoFile
  /\ Verdict(catalog) = "newer"
  /\ Serving(NotServed)
  /\ UNCHANGED <<catalog, bad, bak, kept, stuck>>

Document(content) ==
  [schema |-> SchemaVersion, owner |-> me, fault |-> "none", content |-> content]

\* An older document is written again in this build's form, if that works.
Migrated(d) == {d} \union (IF d.schema < SchemaVersion THEN {Document(d.content)} ELSE {})

LoadUsable ==
  /\ catalog # NoFile
  /\ Verdict(catalog) = "usable"
  /\ Serving(catalog.content)
  /\ catalog' \in Migrated(catalog)
  /\ UNCHANGED <<bad, bak, kept, stuck>>

(***************************************************************************)
(* The run, its end, and what the operator does in between.                *)
(***************************************************************************)
\* A point published, updated or deleted, or all of them wiped.
Changed(c) ==
  {[revision |-> c.revision + 1, points |-> p] :
     p \in {c.points \union {o} : o \in Ours} \union {c.points \ {o} : o \in Ours} \union {{}}}

\* A change is written and then served; one that cannot be written is refused.
Save ==
  /\ stage = "running" /\ live # NoService
  /\ live.revision < MaxRevision
  /\ \E c \in Changed(live) :
       /\ live' = c
       /\ catalog' = Document(c)
       /\ kept' = IF identity = me THEN c ELSE Unsure
  /\ UNCHANGED <<bad, bak, identity, stage, me, used, unnamed, stuck>>

Stop ==
  /\ stage # "stopped"
  /\ stage' = "stopped" /\ me' = NoId /\ live' = NoService
  /\ UNCHANGED <<catalog, bad, bak, identity, used, kept, unnamed, stuck>>

\* What a file brings of other servers without naming them.
Unattributed(d) ==
  IF d # NoFile /\ d.owner = Unowned THEN d.content.points \intersect Theirs ELSE {}

\* One of these is put in place, or one that was moved away is put back.
PutCatalog ==
  /\ stage = "stopped"
  /\ catalog' \in Brought \union {NoFile, bad, bak}
  /\ catalog' # catalog
  /\ kept' = Unsure
  /\ unnamed' = unnamed \union Unattributed(catalog')
  /\ UNCHANGED <<bad, bak, identity, stage, me, live, used, stuck>>

DamageIdentity ==
  /\ stage = "stopped"
  /\ identity' \in {NoFile, Garbage} \ {identity}
  /\ kept' = Unsure
  /\ UNCHANGED <<catalog, bad, bak, stage, me, live, used, unnamed, stuck>>

ReadIdentity == RecallIdentity \/ MakeIdentity \/ MissIdentity
Load ==
  \/ LoadNothing \/ LoadBlindly \/ Quarantine \/ QuarantineUnread
  \/ SetAside \/ LeaveNewer \/ LoadUsable

Next == ReadIdentity \/ Load \/ Save \/ Stop \/ PutCatalog \/ DamageIdentity

Spec == Init /\ [][Next]_vars

(***************************************************************************)
(* Properties.                                                             *)
(***************************************************************************)
Files == Documents \union {NoFile}

\* The variables have their types; a catalog that is served contains no points before
\* its first revision.
TypeOK ==
  /\ catalog \in Files /\ bad \in Files /\ bak \in Files
  /\ identity \in InstanceIds \union {NoFile, Garbage}
  /\ stage \in {"stopped", "identified", "running"}
  /\ me \in InstanceIds \union {NoId} /\ (stage = "stopped" <=> me = NoId)
  /\ live \in Snapshots \union {NoService}
  /\ used \subseteq InstanceIds
  /\ kept \in Snapshots \union {Unsure} /\ unnamed \subseteq Theirs /\ stuck \in BOOLEAN

\* A server that could write its identity serves, after any number of restarts,
\* the catalog it last wrote, as long as its files can be read and nobody touches
\* them.
CatalogSurvives == (stage = "running" /\ kept # Unsure) => live = kept

\* Points of another server are never served here unless a file that names no server
\* brought them: what came only in files that name their server is set aside at every
\* start, whatever was moved, migrated or generated anew since, as long as that
\* server's identity is not copied too.
ForeignNeverServed == live # NoService => live.points \intersect Theirs \subseteq unnamed

\* A newer build's catalog that could be read, and is there at a server that could
\* stat it.
NewerInPlace ==
  /\ stage # "stopped" /\ ~stuck
  /\ catalog # NoFile /\ catalog.fault # "illegible"
  /\ catalog.schema > SchemaVersion

\* A running server never rewrites or removes the catalog of a newer build: a start
\* that cannot read it may move it away, whole, and nothing else ever touches it.
NewerUntouched ==
  [][NewerInPlace =>
       \/ catalog' = catalog
       \/ stage = "identified" /\ catalog' = NoFile /\ bad' = catalog]_vars

\* A running server only writes over a catalog it serves; any other it has first
\* moved aside, if it could.
NothingOverwrittenUnread ==
  [][(/\ stage # "stopped" /\ ~stuck /\ ~stuck'
      /\ catalog # NoFile /\ catalog' # catalog) =>
       \/ catalog \in {bad', bak'}
       \/ live = catalog.content
       \/ live' = catalog.content]_vars
==============================================================================
