-------------------------- MODULE CatalogFileProofs --------------------------
(***************************************************************************)
(* What holds of the catalog file for any number of servers, points and    *)
(* restarts, and any schema version.                                       *)
(*                                                                         *)
(* One invariant carries the five theorems: a file with another server's   *)
(* points names that server, unless they have come in a file that named    *)
(* none; a file under a service that could see it is                       *)
(* the one being served; and what was last written stays, under this       *)
(* server's name, until something fails or somebody touches it.            *)
(***************************************************************************)
EXTENDS CatalogFile, TLAPS

\* A document with points published elsewhere says so, or they have come unnamed.
Marked(d) ==
  d # NoFile => (d.owner = Elsewhere \/ d.content.points \intersect Theirs \subseteq unnamed)

ForeignMarked ==
  /\ Marked(catalog) /\ Marked(bad) /\ Marked(bak)
  /\ ForeignNeverServed

\* A service that could stat its file and move it away has none, or serves it.
Accounted ==
  /\ stage = "identified" => ~stuck
  /\ (stage = "running" /\ ~stuck /\ live # NoService /\ catalog # NoFile) =>
       live = catalog.content /\ ~Newer(catalog)

\* Nothing has been written yet, or it is there and this server will know it again.
Remembered ==
  kept # Unsure =>
    /\ \/ catalog = NoFile /\ kept = Empty
       \/ /\ catalog \in Documents
          /\ catalog.schema = SchemaVersion /\ catalog.fault = "none"
          /\ catalog.owner = identity /\ identity \in InstanceIds
          /\ catalog.content = kept
    /\ stage # "stopped" => me = identity
    /\ stage = "running" => live = kept

FileInv == TypeOK /\ ForeignMarked /\ Accounted /\ Remembered

USE FileNumbers, FileNames, NoFileIsNone, BroughtIsFound

\* What this server writes is a document of its own, and a sound one.
LEMMA WrittenDocument ==
  ASSUME NEW c \in Snapshots, me \in InstanceIds
  PROVE  /\ Document(c) \in Documents /\ Document(c) # NoFile
         /\ Document(c).content = c /\ Document(c).owner = me
         /\ Document(c).schema = SchemaVersion /\ Document(c).fault = "none"
         /\ ~Newer(Document(c))
  BY DEF Document, Documents, Snapshots, Contents, Faults, Newer

\* A usable document is a sound one of this build or an older one, and this server's
\* or nobody's.
LEMMA UsableDocument ==
  ASSUME NEW d \in Documents, Verdict(d) = "usable"
  PROVE  /\ d.content \in Snapshots /\ ~Newer(d)
         /\ d.owner \in {me, Unowned}
  BY DEF Verdict, Newer, Inherited, Sound

LEMMA EmptySnapshot == Empty \in Snapshots /\ Empty.points = {}
  BY DEF Empty, Snapshots, Contents

\* A change to a snapshot is one, of the next revision, with points of this server.
LEMMA ChangedSnapshot ==
  ASSUME NEW c \in Snapshots, c.revision < MaxRevision, NEW d \in Changed(c)
  PROVE  d \in Snapshots /\ d.points \subseteq c.points \union Ours
<1>1. PICK p \in {c.points \union {o} : o \in Ours} \union {c.points \ {o} : o \in Ours}
                  \union {{}} :
        d = [revision |-> c.revision + 1, points |-> p]
  BY DEF Changed
<1>2. p \subseteq c.points \union Ours
  OBVIOUS
<1>3. c.revision \in 0..MaxRevision /\ c.points \subseteq Ours \union Theirs
  BY DEF Snapshots, Contents
<1>4. c.revision + 1 \in 0..MaxRevision /\ c.revision + 1 # 0
  BY <1>3
<1>5. QED
  BY <1>1, <1>2, <1>3, <1>4 DEF Snapshots, Contents

(***************************************************************************)
(* The invariant, one action at a time.                                    *)
(***************************************************************************)
LEMMA InitFile == Init => FileInv
  BY EmptySnapshot DEF Init, FileInv, TypeOK, Files, ForeignMarked, Marked, ForeignNeverServed,
     Accounted, Remembered

LEMMA ReadIdentityFile ==
  ASSUME FileInv, ReadIdentity
  PROVE  FileInv'
<1> USE DEF Identified, FileInv, TypeOK, Files, ForeignMarked, Marked, ForeignNeverServed,
        Accounted, Remembered
<1>1. CASE RecallIdentity
  BY <1>1 DEF RecallIdentity
<1>2. CASE MakeIdentity
  <2>1. PICK id \in Fresh : /\ Identified(id)
                            /\ used' = used \union {id}
                            /\ identity' \in WrittenOrNot(id)
                            /\ kept' = IF identity' = id THEN kept ELSE Unsure
    BY <1>2 DEF MakeIdentity
  <2>2. id \in InstanceIds /\ identity \notin InstanceIds /\ identity' \in {identity, id}
    BY <1>2, <2>1 DEF Fresh, MakeIdentity, WrittenOrNot
  <2>3. QED
    BY <2>1, <2>2
<1>3. CASE MissIdentity
  BY <1>3 DEF MissIdentity, Fresh
<1>4. QED
  BY <1>1, <1>2, <1>3 DEF ReadIdentity

LEMMA LoadFile ==
  ASSUME FileInv, Load
  PROVE  FileInv'
<1> USE EmptySnapshot DEF Serving, FileInv, TypeOK, Files, ForeignMarked, Marked,
        ForeignNeverServed, Accounted, Remembered
<1>1. CASE LoadNothing
  BY <1>1 DEF LoadNothing
<1>2. CASE LoadBlindly
  BY <1>2 DEF LoadBlindly
<1>3. CASE Quarantine
  <2>1. kept = Unsure
    BY <1>3 DEF Quarantine, Verdict, Newer, Inherited, Sound
  <2>2. QED
    BY <1>3, <2>1 DEF Quarantine, MoveToBad
<1>4. CASE QuarantineUnread
  BY <1>4 DEF QuarantineUnread, MoveToBad
<1>5. CASE SetAside
  <2>1. kept = Unsure
    BY <1>5 DEF SetAside, Verdict, Newer, Inherited, Sound
  <2>2. QED
    BY <1>5, <2>1 DEF SetAside, MoveToBak
<1>6. CASE LeaveNewer
  <2>1. kept = Unsure
    BY <1>6 DEF LeaveNewer, Verdict, Newer, Inherited, Sound
  <2>2. QED
    BY <1>6, <2>1 DEF LeaveNewer, NotServed
<1>7. CASE LoadUsable
  <2>1. /\ stage = "identified" /\ me \in InstanceIds
        /\ catalog \in Documents /\ Verdict(catalog) = "usable"
        /\ stage' = "running" /\ live' = catalog.content /\ catalog' \in Migrated(catalog)
        /\ UNCHANGED <<identity, me, used, bad, bak, kept, unnamed, stuck>>
    BY <1>7 DEF LoadUsable
  <2>2. /\ catalog.content \in Snapshots /\ ~Newer(catalog)
        /\ catalog.owner \in {me, Unowned}
    BY <2>1, UsableDocument
  <2>3. catalog.content.points \intersect Theirs \subseteq unnamed
    BY <2>1, <2>2
  <2>4. \/ catalog' = catalog
        \/ /\ catalog.schema < SchemaVersion
           /\ catalog' = Document(catalog.content)
    BY <2>1 DEF Migrated
  <2>5. /\ catalog' \in Documents /\ catalog' # NoFile
        /\ catalog'.content = catalog.content /\ ~Newer(catalog')
    BY <2>1, <2>2, <2>4, WrittenDocument
  <2>6. TypeOK'
    BY <2>1, <2>2, <2>5
  <2>7. ForeignMarked'
    BY <2>1, <2>3, <2>5
  <2>8. Accounted'
    BY <2>1, <2>5 DEF Newer
  <2>9. Remembered'
    BY <2>1, <2>4
  <2>10. QED
    BY <2>6, <2>7, <2>8, <2>9
<1>8. QED
  BY <1>1, <1>2, <1>3, <1>4, <1>5, <1>6, <1>7 DEF Load

LEMMA SaveFile ==
  ASSUME FileInv, Save
  PROVE  FileInv'
<1> USE DEF FileInv, TypeOK, Files, ForeignMarked, Marked, ForeignNeverServed, Accounted,
        Remembered
<1>1. PICK c \in Changed(live) :
        /\ live' = c
        /\ catalog' = Document(c)
        /\ kept' = IF identity = me THEN c ELSE Unsure
  BY DEF Save
<1>2. /\ stage = "running" /\ me \in InstanceIds
      /\ live \in Snapshots /\ live # NoService /\ live.revision < MaxRevision
      /\ UNCHANGED <<bad, bak, identity, stage, me, used, unnamed, stuck>>
  BY DEF Save
<1>3. c \in Snapshots /\ c.points \subseteq live.points \union Ours
  BY <1>2, ChangedSnapshot
<1>4. c.points \intersect Theirs \subseteq unnamed
  BY <1>2, <1>3
<1>5. /\ Document(c) \in Documents /\ Document(c) # NoFile
      /\ Document(c).content = c /\ Document(c).owner = me
      /\ Document(c).schema = SchemaVersion /\ Document(c).fault = "none"
      /\ ~Newer(Document(c))
  BY <1>2, <1>3, WrittenDocument
<1>6. TypeOK'
  BY <1>1, <1>2, <1>3, <1>5
<1>7. ForeignMarked'
  BY <1>1, <1>2, <1>4, <1>5
<1>8. Accounted'
  BY <1>1, <1>2, <1>5 DEF Newer
<1>9. Remembered'
  BY <1>1, <1>2, <1>5
<1>10. QED
  BY <1>6, <1>7, <1>8, <1>9

LEMMA OutsideFile ==
  ASSUME FileInv, Stop \/ PutCatalog \/ DamageIdentity \/ UNCHANGED vars
  PROVE  FileInv'
<1> USE DEF FileInv, TypeOK, Files, ForeignMarked, Marked, ForeignNeverServed, Accounted,
        Remembered
<1>1. CASE Stop
  BY <1>1 DEF Stop
<1>2. CASE PutCatalog
  <2>1. /\ catalog' \in Brought \union {NoFile, bad, bak}
        /\ unnamed' = unnamed \union Unattributed(catalog')
        /\ kept' = Unsure /\ stage = "stopped"
        /\ UNCHANGED <<bad, bak, identity, stage, me, live, used, stuck>>
    BY <1>2 DEF PutCatalog
  <2>2. catalog' \in Files /\ unnamed \subseteq unnamed' /\ unnamed' \subseteq Theirs
    BY <2>1 DEF Found, Unattributed
  <2>3. Marked(catalog)' /\ Marked(bad)' /\ Marked(bak)'
    BY <2>1, <2>2 DEF Found, Unattributed
  <2>4. QED
    BY <2>1, <2>2, <2>3
<1>3. CASE DamageIdentity
  BY <1>3 DEF DamageIdentity
<1>4. CASE UNCHANGED vars
  BY <1>4 DEF vars
<1>5. QED
  BY <1>1, <1>2, <1>3, <1>4

LEMMA StepFile == FileInv /\ [Next]_vars => FileInv'
  BY ReadIdentityFile, LoadFile, SaveFile, OutsideFile DEF Next

LEMMA AlwaysFile == Spec => []FileInv
  BY InitFile, StepFile, PTL DEF Spec

(***************************************************************************)
(* The theorems.                                                           *)
(***************************************************************************)
\* The variables have their types, and no catalog is served that contains points
\* before its first revision.
THEOREM CatalogFileTypeOK == Spec => []TypeOK
<1>1. FileInv => TypeOK
  BY DEF FileInv
<1>2. QED
  BY <1>1, AlwaysFile, PTL

\* What was last written is what is served after any number of restarts, as long as
\* nothing has failed and nobody has touched the files.
THEOREM CatalogFileSurvives == Spec => []CatalogSurvives
<1>1. FileInv => CatalogSurvives
  BY DEF FileInv, Remembered, CatalogSurvives
<1>2. QED
  BY <1>1, AlwaysFile, PTL

\* Points published on another server are never served, unless a file that names no
\* server brought them.
THEOREM CatalogFileForeign == Spec => []ForeignNeverServed
<1>1. FileInv => ForeignNeverServed
  BY DEF FileInv, ForeignMarked
<1>2. QED
  BY <1>1, AlwaysFile, PTL

\* A step of a running server changes the catalog of a newer build that it could stat
\* only by moving it away unread, at its start.
THEOREM CatalogFileNewer == Spec => NewerUntouched
<1> DEFINE Untouched ==
      NewerInPlace =>
        \/ catalog' = catalog
        \/ stage = "identified" /\ catalog' = NoFile /\ bad' = catalog
<1>1. FileInv /\ [Next]_vars => [Untouched]_vars
  <2> SUFFICES ASSUME FileInv, Next, NewerInPlace
               PROVE  \/ catalog' = catalog
                      \/ stage = "identified" /\ catalog' = NoFile /\ bad' = catalog
    BY DEF vars
  <2>1. Newer(catalog) /\ Verdict(catalog) = "newer" /\ stage # "stopped" /\ ~stuck
    BY DEF NewerInPlace, Newer, Verdict
  <2>2. CASE ReadIdentity
    BY <2>2 DEF ReadIdentity, RecallIdentity, MakeIdentity, MissIdentity, Identified
  <2>3. CASE QuarantineUnread
    BY <2>3 DEF QuarantineUnread, Serving, MoveToBad
  <2>4. CASE Load /\ ~QuarantineUnread
    BY <2>1, <2>4 DEF Load, LoadNothing, LoadBlindly, Quarantine, SetAside, LeaveNewer, LoadUsable
  <2>5. CASE Save
    BY <2>1, <2>5 DEF Save, FileInv, Accounted, NewerInPlace
  <2>6. CASE Stop
    BY <2>6 DEF Stop
  <2>7. CASE PutCatalog \/ DamageIdentity
    BY <2>1, <2>7 DEF PutCatalog, DamageIdentity
  <2>8. QED
    BY <2>2, <2>3, <2>4, <2>5, <2>6, <2>7 DEF Next
<1>2. QED
  BY <1>1, AlwaysFile, PTL DEF Spec, NewerUntouched

\* A running server that could move the file away writes over a catalog only when it
\* has moved it away or serves it.
THEOREM CatalogFileUnread == Spec => NothingOverwrittenUnread
<1> DEFINE Read ==
      (/\ stage # "stopped" /\ ~stuck /\ ~stuck'
       /\ catalog # NoFile /\ catalog' # catalog) =>
        \/ catalog \in {bad', bak'}
        \/ live = catalog.content
        \/ live' = catalog.content
<1>1. FileInv /\ [Next]_vars => [Read]_vars
  <2> SUFFICES ASSUME FileInv, Next,
                      stage # "stopped", ~stuck, ~stuck', catalog # NoFile, catalog' # catalog
               PROVE  \/ catalog \in {bad', bak'}
                      \/ live = catalog.content
                      \/ live' = catalog.content
    BY DEF vars
  <2>1. CASE ReadIdentity
    BY <2>1 DEF ReadIdentity, RecallIdentity, MakeIdentity, MissIdentity, Identified
  <2>2. CASE Quarantine \/ QuarantineUnread \/ SetAside
    BY <2>2 DEF Quarantine, QuarantineUnread, SetAside, MoveToBad, MoveToBak
  <2>3. CASE LoadUsable
    BY <2>3, UsableDocument DEF LoadUsable, Serving, FileInv, TypeOK, Files
  <2>4. CASE LoadNothing \/ LoadBlindly \/ LeaveNewer
    BY <2>4 DEF LoadNothing, LoadBlindly, LeaveNewer
  <2>5. CASE Save
    BY <2>5 DEF Save, FileInv, Accounted
  <2>6. CASE Stop \/ PutCatalog \/ DamageIdentity
    BY <2>6 DEF Stop, PutCatalog, DamageIdentity
  <2>7. QED
    BY <2>1, <2>2, <2>3, <2>4, <2>5, <2>6 DEF Next, Load
<1>2. QED
  BY <1>1, AlwaysFile, PTL DEF Spec, NothingOverwrittenUnread
==============================================================================
