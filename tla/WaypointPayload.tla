---------------------------- MODULE WaypointPayload ----------------------------
(***************************************************************************)
(* What becomes of a point on its way from the player who draws it to the  *)
(* players who see it: the frames of waypoints/proto.rs and wire.rs, the   *)
(* rules of model.rs, and the entry of the file, of persist.rs.            *)
(*                                                                         *)
(* Every conversion is here, and one point: clients of several minors draw *)
(* it, anew or over what is there, the server reads, normalises, saves and *)
(* sends it, and reads the file again after a restart, when an older build *)
(* or a hand may have written it.  Who may change what, the revisions and  *)
(* the strikes are WaypointService's and WaypointHub's; ids, timestamps    *)
(* and the JSON around the values are left out.                            *)
(***************************************************************************)
EXTENDS Integers, Sequences

CONSTANTS
  Clients,
  Build,      \* per client: the minor it announces
  Called,     \* per client: the name of its player
  Drafts,     \* bound: what clients draw
  Documents,  \* bound: the entries that may be found in the file
  ProtoMinor, \* PROTO_MINOR
  MaxBytes,   \* MAX_UTF8_BYTES
  MaxName, MaxLabel,         \* in code points, MAX_NAME_ and MAX_LABEL_CODE_POINTS
  MaxHorizontal, MaxAbsolute, \* in blocks
  NotFinite,  \* a coordinate that is not a number, or infinite
  Malformed,  \* DecodeError, and EncodeError
  Invalid,    \* validate's None
  None

ASSUME PayloadConstants ==
  /\ Build \in [Clients -> Int] /\ ProtoMinor \in Nat
  /\ MaxName \in Nat /\ MaxLabel \in Nat /\ MaxBytes \in Nat /\ MaxBytes >= 256
  /\ 4 * MaxName <= MaxBytes /\ 4 * MaxLabel <= MaxBytes

(***************************************************************************)
(* Texts.  Of one we know how many code points it has without the blanks   *)
(* around it, how many bytes each takes, how many blanks there are, and    *)
(* what it can pass for: "text" that has no control, formatting or section *)
(* sign, a "dimension", an "item".                                         *)
(***************************************************************************)
Text == [points : Nat, width : 1..4, blanks : Nat, is : SUBSET {"text", "dimension", "item"}]
Bytes(t) == t.points * t.width + t.blanks
Empty == [points |-> 0, width |-> 1, blanks |-> 0, is |-> {"text"}]

\* str::trim.
Trim(t) == IF t.points = 0 THEN Empty ELSE [t EXCEPT !.blanks = 0]

\* valid_display_text, and valid_publisher_name by it.
ValidDisplayText(t, max) ==
  t.points > 0 /\ t.points + t.blanks <= max /\ "text" \in t.is
ValidPublisherName(t) == ValidDisplayText(Trim(t), MaxName)

ValidDimension(t) == t.points > 0 /\ Bytes(t) <= 256 /\ "dimension" \in t.is

\* normalize_marker_label, normalize_icon_item_id.
NormalizeLabel(t) ==
  IF Trim(t) = Empty \/ ValidDisplayText(Trim(t), MaxLabel) THEN Trim(t) ELSE Invalid
NormalizeIcon(t) ==
  IF Trim(t) = Empty \/ "item" \in t.is THEN Trim(t) ELSE Invalid

Within(n, max) == n # NotFinite /\ -max <= n /\ n <= max

(***************************************************************************)
(* Bodies, and validate: the normalised body, or Invalid.                  *)
(***************************************************************************)
Style == {"icon", "label"}
Texts == {"name", "dimension"} \union Style
Coordinates == {"x", "y", "z"}
BodyFields == Texts \union Coordinates \union {"opaque", "death"}

Body(d) ==
  /\ d = [f \in BodyFields |-> d[f]]
  /\ \A f \in Texts : d[f] \in Text
  /\ \A f \in Coordinates : d[f] = NotFinite \/ d[f] \in Int
  /\ d["opaque"] \in BOOLEAN /\ d["death"] \in BOOLEAN

Values == Text \union Int \union BOOLEAN \union {NotFinite}
Bodies == [BodyFields -> Values]
Points == [body : Bodies, publisher : Text]

Normal(d) == [f \in BodyFields |-> IF f \in Texts THEN Trim(d[f]) ELSE d[f]]
Valid(d) ==
  /\ ValidDisplayText(Trim(d.name), MaxName) /\ ValidDimension(Trim(d.dimension))
  /\ Within(d.x, MaxHorizontal) /\ Within(d.y, MaxAbsolute) /\ Within(d.z, MaxHorizontal)
  /\ d.opaque
  /\ NormalizeIcon(d.icon) # Invalid /\ NormalizeLabel(d.label) # Invalid

\* Seeded fault: the name is checked trimmed and kept as it came.
ValidateUntrimmed(d) ==
  IF Valid(d) THEN [Normal(d) EXCEPT !["name"] = d["name"]] ELSE Invalid
Validate(d) == IF Valid(d) THEN Normal(d) ELSE Invalid

\* A point is a normalised body and its publisher's name.
Point(body, publisher) == [body |-> body, publisher |-> publisher]

(***************************************************************************)
(* Frames: the fields of a body in the order they are written, the style   *)
(* of the marker only from minor 3 on.                                     *)
(***************************************************************************)
Plain == <<"name", "dimension", "x", "y", "z", "opaque", "death">>
Styled == <<"name", "dimension", "x", "y", "z", "opaque", "death", "icon", "label">>
Layout(minor) == IF minor >= 3 THEN Styled ELSE Plain
Fields(body, minor) == [i \in DOMAIN Layout(minor) |-> body[Layout(minor)[i]]]

\* Reader::utf and finite refuse a field, and put_utf and put_waypoint likewise.
Carried(field, value) ==
  /\ field \in Texts => Bytes(value) <= MaxBytes
  /\ field \in Coordinates => value # NotFinite

\* decode, of CREATE and UPDATE, at a minor: its fields, with none left over;
\* marker_utf takes a style that is not there for an empty one.
Place(field, minor) == CHOOSE i \in DOMAIN Layout(minor) : Layout(minor)[i] = field
Decode(frame, minor) ==
  IF /\ Len(frame) = Len(Layout(minor))
     /\ \A i \in DOMAIN Layout(minor) : Carried(Layout(minor)[i], frame[i])
    THEN [f \in BodyFields |->
            IF f \in Style /\ minor < 3 THEN Empty ELSE frame[Place(f, minor)]]
    ELSE Malformed

\* put_waypoint, which encode uses for SNAPSHOT and UPSERT.  Seeded fault: every
\* frame is written as this build would have it.
EncodeOwnMinor(point, minor) ==
  IF /\ Bytes(point.publisher) <= MaxBytes
     /\ \A i \in DOMAIN Layout(ProtoMinor) :
          Carried(Layout(ProtoMinor)[i], point.body[Layout(ProtoMinor)[i]])
    THEN [publisher |-> point.publisher, fields |-> Fields(point.body, ProtoMinor)]
    ELSE Malformed
Encode(point, minor) ==
  IF /\ Bytes(point.publisher) <= MaxBytes
     /\ \A i \in DOMAIN Layout(minor) : Carried(Layout(minor)[i], point.body[Layout(minor)[i]])
    THEN [publisher |-> point.publisher, fields |-> Fields(point.body, minor)]
    ELSE Malformed

(***************************************************************************)
(* The entry of the file.  An older build's has no style.                  *)
(***************************************************************************)
\* persistable.
Persistable(point) == Valid(point.body) /\ ValidPublisherName(point.publisher)

\* to_document.  Seeded fault: the style, which came later, is forgotten.
ToDocumentUnstyled(point) ==
  [publisher |-> point.publisher,
   body |-> [f \in BodyFields \ Style |-> point.body[f]]]
ToDocument(point) == [publisher |-> point.publisher, body |-> point.body]

\* from_entry.
Value(entry, field) ==
  IF field \in DOMAIN entry.body THEN entry.body[field] ELSE Empty
FromEntry(entry) ==
  LET draft == [f \in BodyFields |-> Value(entry, f)] IN
  IF ValidPublisherName(entry.publisher) /\ Valid(draft)
    THEN Point(Validate(draft), Trim(entry.publisher)) ELSE Invalid

\* valid_for_active_world, by which sanitize_loaded keeps a point.
Sanitized(point) == IF Persistable(point) THEN point ELSE None

ASSUME PayloadInputs ==
  /\ \A d \in Drafts : Body(d)
  /\ Called \in [Clients -> Text]
  /\ \A e \in Documents \ {None} :
       e.publisher \in Text /\ Body([f \in BodyFields |-> Value(e, f)])
\* A hand may write a longer icon, and from_entry takes it.
ASSUME DocumentsFit ==
  \A e \in Documents \ {None} : Bytes(Trim(Value(e, "icon"))) <= MaxBytes
ASSUME NoneIsNothing ==
  /\ None \notin Points \union Int
  /\ None \notin [draft : Bodies, minor : Nat]
  /\ Invalid \notin Text /\ Invalid \notin Bodies /\ Invalid \notin Points
  /\ Malformed \notin Bodies /\ Malformed \notin [publisher : Text, fields : Seq(Values)]

VARIABLES
  session,   \* per client: the minor its session agreed on, None without one
  following, \* the clients that subscribed in their session
  told,      \* per client: the minor of a STATUS on its way, or None
  speaks,    \* per client: the minor it writes and reads by
  shown,     \* per client: what it shows, as its last SNAPSHOT or UPSERT had it
  point,     \* the server's point, or None
  file,      \* the entry of the file, or None
  drawn      \* history: what its author drew of the point, None if it was loaded

vars == <<session, following, told, speaks, shown, point, file, drawn>>

Init ==
  /\ session = [c \in Clients |-> None] /\ following = {}
  /\ told = [c \in Clients |-> None] /\ speaks = [c \in Clients |-> 0]
  /\ shown = [c \in Clients |-> None]
  /\ point = None /\ file = None /\ drawn = None

\* effective_minor; and what a client speaks once it has read all it was sent.
Minor(c) == IF session[c] = None THEN 0 ELSE session[c]
Heard(c) == IF told[c] = None THEN speaks[c] ELSE told[c]

\* What a client makes of a frame it reads at a minor; it keeps what it shows if
\* there was no frame, or none that it can read.
Reads(c, frame, minor, before) ==
  IF frame = Malformed \/ Decode(frame.fields, minor) = Malformed
    THEN before ELSE Point(Decode(frame.fields, minor), frame.publisher)

\* HELLO, of the right major: the session is made, or made again, and the STATUS
\* of the agreed minor sent.  A client of a negative minor is not compatible.
Negotiated(minor) == IF minor < ProtoMinor THEN minor ELSE ProtoMinor
Hello(c) ==
  /\ IF Build[c] < 0
       THEN session' = [session EXCEPT ![c] = None] /\ told' = [told EXCEPT ![c] = 0]
       ELSE /\ session' = [session EXCEPT ![c] = Negotiated(Build[c])]
            /\ told' = [told EXCEPT ![c] = Negotiated(Build[c])]
  /\ following' = following \ {c}
  /\ UNCHANGED <<speaks, shown, point, file, drawn>>

\* The client reads the STATUS.
Hear(c) ==
  /\ told[c] # None
  /\ speaks' = [speaks EXCEPT ![c] = told[c]]
  /\ told' = [told EXCEPT ![c] = None]
  /\ UNCHANGED <<session, following, shown, point, file, drawn>>

\* SUBSCRIBE: a SNAPSHOT, which the client reads after whatever it was sent before.
Subscribe(c) ==
  /\ session[c] # None
  /\ following' = following \union {c}
  /\ speaks' = [speaks EXCEPT ![c] = Heard(c)] /\ told' = [told EXCEPT ![c] = None]
  /\ shown' = [shown EXCEPT ![c] =
                 IF point = None THEN None
                 ELSE Reads(c, Encode(point, Minor(c)), Heard(c), shown[c])]
  /\ UNCHANGED <<session, point, file, drawn>>

\* The client writes what it draws by the minor it speaks, the server reads it by
\* the session's; a body that is in order is saved and sent to whoever follows, each
\* in its minor.
Accept(c, draft, publisher) ==
  LET read == Decode(Fields(draft, speaks[c]), Minor(c))
      next == Point(Validate(read), publisher)
  IN /\ session[c] # None
     /\ read # Malformed /\ Validate(read) # Invalid
     /\ Persistable(next)
     /\ point' = next /\ file' = ToDocument(next)
     /\ drawn' = [draft |-> draft, minor |-> speaks[c]]
     /\ speaks' = [d \in Clients |-> IF d \in following THEN Heard(d) ELSE speaks[d]]
     /\ told' = [d \in Clients |-> IF d \in following THEN None ELSE told[d]]
     /\ shown' = [d \in Clients |->
                    IF d \in following
                      THEN Reads(d, Encode(next, Minor(d)), Heard(d), shown[d])
                      ELSE shown[d]]
     /\ UNCHANGED <<session, following>>

\* CREATE where there is no point, and UPDATE over the one there is, whose publisher
\* is kept.
Create(c, draft) ==
  point = None /\ ValidPublisherName(Called[c]) /\ Accept(c, draft, Trim(Called[c]))
Update(c, draft) ==
  point # None /\ Accept(c, draft, point.publisher)

\* DELETE, whose frame is the same in every minor.
Erase(c) ==
  /\ session[c] # None /\ point # None
  /\ point' = None /\ file' = None /\ drawn' = None
  /\ speaks' = [d \in Clients |-> IF d \in following THEN Heard(d) ELSE speaks[d]]
  /\ told' = [d \in Clients |-> IF d \in following THEN None ELSE told[d]]
  /\ shown' = [d \in Clients |-> IF d \in following THEN None ELSE shown[d]]
  /\ UNCHANGED <<session, following>>

\* A connection ends, and the client's next one starts afresh.
Leave(c) ==
  /\ session[c] # None \/ speaks[c] # 0 \/ told[c] # None
  /\ session' = [session EXCEPT ![c] = None] /\ following' = following \ {c}
  /\ told' = [told EXCEPT ![c] = None] /\ speaks' = [speaks EXCEPT ![c] = 0]
  /\ shown' = [shown EXCEPT ![c] = None]
  /\ UNCHANGED <<point, file, drawn>>

\* The plugin is unloaded and loaded again: sessions are forgotten, clients do not
\* notice, and the file is read.  An entry that is not in order costs the file; one
\* of an older schema is written again, if it can be and the write works.
Rewritten(loaded) == {ToDocument(p) : p \in {q \in {loaded} : Persistable(q)}}
Load(entry) ==
  LET loaded == IF entry = None THEN None ELSE FromEntry(entry) IN
  /\ session' = [c \in Clients |-> None] /\ following' = {}
  /\ IF loaded \in {None, Invalid}
       THEN point' = None /\ file' = None
       ELSE point' = Sanitized(loaded) /\ file' \in {entry} \union Rewritten(loaded)
  /\ drawn' = IF entry = file /\ point' # None THEN drawn ELSE None
  /\ UNCHANGED <<told, speaks, shown>>
Reload == Load(file)
Found == \E entry \in Documents : Load(entry)

Next ==
  \/ \E c \in Clients : Hello(c) \/ Hear(c) \/ Subscribe(c) \/ Erase(c) \/ Leave(c)
  \/ \E c \in Clients, d \in Drafts : Create(c, d) \/ Update(c, d)
  \/ Reload \/ Found

Spec == Init /\ [][Next]_vars

(***************************************************************************)
(* Properties.                                                             *)
(***************************************************************************)
\* A body in as far as a minor has it.
In(body, minor) ==
  [f \in BodyFields |-> IF f \in Style /\ minor < 3 THEN Empty ELSE body[f]]

\* Whoever subscribed shows the point the server has, published by whom it says, in
\* as far as its minor has it: encode (proto.rs) can write every point the service
\* holds, and each client reads what was written for it.
FollowersShowThePoint ==
  \A c \in following :
    shown[c] = IF point = None THEN None
               ELSE [point EXCEPT !.body = In(point.body, session[c])]

\* What is kept is what the author drew, blanks trimmed, and the style if the author
\* could write it, however the minors of client and session came apart; reading a
\* frame by a minor it was not written for (decode, marker_utf) never makes a point.
DrawnIsKept ==
  drawn # None => point.body = Normal(In(drawn.draft, drawn.minor))

\* What the server accepted it can save, and reads back unchanged (persist.rs,
\* persistable, to_document and from_entry), now and after any restart.
SavedIsReloaded ==
  point # None =>
    /\ Persistable(point)
    /\ FromEntry(file) = point
    /\ FromEntry(ToDocument(point)) = point
================================================================================
